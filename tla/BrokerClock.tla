---------------------------- MODULE BrokerClock ----------------------------
(***************************************************************************)
(* The terminal stamps ticks and bars with the broker's own clock, a whole *)
(* number of hours from UTC that the broker may change while the market is *)
(* closed.  A session of the live shadow runtime works the offset out once,*)
(* from the tick it finds and the host's clock, or takes it from a session *)
(* before; then it subtracts it from every stamp.  All instants are UTC on *)
(* the host's clock but for "raw", which is the stamp.                     *)
(***************************************************************************)
EXTENDS Integers, Sequences, SequencesExt

CONSTANTS
  Hour, M5,      (* the lengths of an hour and of a bar                    *)
  Plausible,     (* the offsets the policy admits                          *)
  Tolerance,     (* inference_residual_tolerance_seconds                   *)
  Ahead,         (* future_tolerance_seconds                               *)
  QuoteStale,    (* stale_after_ms, of a quote and of a completed bar      *)
  Closing,       (* the least silence of a market that changes its clock   *)
  Environments,  (* server, account, terminal and symbol, by their digest  *)
  MaxUtc, MaxSessions, MaxChanges                  (* bounds of the search *)

ASSUME ClockAssumption ==
  /\ {Tolerance, Ahead, QuoteStale, Closing} \subseteq Nat /\ M5 \in Nat \ {0}
  /\ Hour \in Nat /\ Hour % M5 = 0 /\ Plausible \subseteq Int
  /\ \A o \in Plausible : o % Hour = 0
  /\ 2 * Tolerance < Hour /\ QuoteStale + Ahead < Hour
  /\ \A o, p \in Plausible : (o - p) + M5 + QuoteStale < Closing

VARIABLES
  utc,         (* the host's clock                                         *)
  offset, env, (* the broker's, and whose terminal it is                   *)
  tick,        (* the terminal's last tick                                 *)
  rows,        (* its last two bars, by their opens                        *)
  resolutions, (* journal: the offsets resolved so far                     *)
  processed,   (* journal: the last bar processed                          *)
  session,     (* the frozen resolution of the running session             *)
  turn, accepting, polled, (* the loop, the phase SAFE, source._last_close *)
  sessions, changes

market == <<offset, env, tick, rows>>
running == <<session, turn, accepting, polled>>
clockVars == <<utc, market, resolutions, processed, running, sessions, changes>>

NoTick == [none |-> TRUE]
NoSession == [none |-> TRUE]
NoClose == -M5

ClockInit ==
  /\ utc = 0 /\ offset \in Plausible /\ env \in Environments
  /\ tick = NoTick /\ rows = << >>
  /\ resolutions = << >> /\ processed = [close |-> NoClose, true |-> NoClose]
  /\ session = NoSession /\ turn = "off" /\ accepting = FALSE /\ polled = NoClose
  /\ sessions = 0 /\ changes = 0

-----------------------------------------------------------------------------
(* The market                                                              *)

Pass ==
  /\ utc < MaxUtc /\ utc' = utc + 1
  /\ UNCHANGED <<market, resolutions, processed, running, sessions, changes>>

Stamped(at) == [raw |-> at + offset, at |-> at]

Recent(s) == IF Len(s) > 2 THEN Tail(s) ELSE s

Quote ==
  /\ tick # Stamped(utc) /\ tick' = Stamped(utc)
  /\ LET bar == Stamped((utc \div M5) * M5)
     IN  rows' = IF rows # << >> /\ Last(rows) = bar THEN rows ELSE Recent(Append(rows, bar))
  /\ UNCHANGED <<utc, offset, env, resolutions, processed, running, sessions, changes>>

(* Summer time begins or ends, or another account is logged in.            *)
Change ==
  /\ changes < MaxChanges /\ changes' = changes + 1
  /\ \/ /\ tick # NoTick => utc - tick.at >= Closing
        /\ offset' \in Plausible \ {offset}
        /\ UNCHANGED <<env, tick, rows>>
     \/ /\ env' \in Environments \ {env} /\ offset' \in Plausible
        /\ tick' = NoTick /\ rows' = << >>
  /\ UNCHANGED <<utc, resolutions, processed, running, sessions>>

-----------------------------------------------------------------------------
(* time_normalization                                                      *)

Apart(a, b) == IF a > b THEN a - b ELSE b - a

(* The nearest whole hour, within the policy's range and tolerance: one    *)
(* offset or none.                                                         *)
CandidateOffsets == {o \in Plausible : Apart(tick.raw - utc, o) =< Tolerance}

(* Mutant: a normalised instant may be as far ahead as it likes.           *)
InFutureMutant(instant) == FALSE

InFuture(instant) == instant > utc + Ahead

Inferred == {o \in CandidateOffsets : ~InFuture(tick.raw - o)}

(* normalize_tick: another offset is recognised only if the tick is near a *)
(* whole hour from now; otherwise the frozen one is applied.               *)
Normalizes(o) == CandidateOffsets \subseteq {o} /\ ~InFuture(tick.raw - o)

-----------------------------------------------------------------------------
(* The sessions                                                            *)

Resolution(o) == [offset |-> o, env |-> env]

(* from_persisted and then normalize_tick: made for this environment, and  *)
(* not at odds with the tick of now.                                       *)
Reusable ==
  {n \in DOMAIN resolutions : resolutions[n].env = env /\ Normalizes(resolutions[n].offset)}

(* resolve_session_broker_time, and what startup does with it: it is       *)
(* journaled before the runtime starts, which may still fail.              *)
StartSession ==
  /\ turn = "off" /\ sessions < MaxSessions /\ sessions' = sessions + 1
  /\ tick # NoTick
  /\ \/ \E o \in Inferred :
          session' = Resolution(o) /\ resolutions' = Append(resolutions, session')
     \/ /\ Inferred = {}
        /\ \E n \in Reusable : (\A m \in Reusable : m <= n) /\ session' = resolutions[n]
        /\ UNCHANGED resolutions
  /\ accepting' = TRUE /\ turn' = "refresh"
  /\ UNCHANGED <<utc, market, processed, polled, changes>>

Over == session' = NoSession /\ turn' = "off" /\ accepting' = FALSE /\ polled' = NoClose

EndSession ==
  /\ turn # "off" /\ Over
  /\ UNCHANGED <<utc, market, resolutions, processed, sessions, changes>>

(* refresh_snapshot_if_due: a snapshot whose tick does not normalise is    *)
(* refused, and the phase with it.                                         *)
RefreshFacts ==
  /\ turn = "refresh" /\ turn' = "poll"
  /\ \/ UNCHANGED accepting
     \/ accepting' = (tick # NoTick /\ Normalizes(session.offset))
     \/ accepting' = FALSE
  /\ UNCHANGED <<utc, market, resolutions, processed, session, polled, sessions, changes>>

InUtc(stamp) == stamp.raw - session.offset

FreshQuote ==
  /\ tick # NoTick /\ Normalizes(session.offset)
  /\ utc - InUtc(tick) =< QuoteStale

Completed == {n \in DOMAIN rows : InUtc(rows[n]) + M5 =< utc}

(* Not too old, and not the one polled last.                               *)
NewlyCompleted(bar) ==
  /\ utc - (InUtc(bar) + M5) =< QuoteStale
  /\ InUtc(bar) + M5 # polled

(* The runtime takes the bar if its phase is SAFE and its sequence, which  *)
(* is its close, is new to the reducer; or it raises and ends.             *)
ProcessPolled(bar) ==
  IF accepting /\ InUtc(bar) + M5 > processed.close
  THEN /\ processed' = [close |-> InUtc(bar) + M5, true |-> bar.at + M5]
       /\ polled' = processed'.close /\ turn' = "refresh"
       /\ UNCHANGED <<session, accepting>>
  ELSE Over /\ UNCHANGED processed

(* MT5CompletedM5Source.poll.  It may always be left waiting: the terminal *)
(* gives no quote.                                                         *)
PollBar ==
  /\ turn = "poll"
  /\ \/ turn' = "refresh" /\ UNCHANGED <<processed, session, accepting, polled>>
     \/ FreshQuote /\ Completed = {} /\ Over /\ UNCHANGED processed
     \/ FreshQuote /\ \E n \in Completed :
          (\A m \in Completed : m <= n) /\ NewlyCompleted(rows[n]) /\ ProcessPolled(rows[n])
  /\ UNCHANGED <<utc, market, resolutions, sessions, changes>>

ClockNext ==
  \/ Pass \/ Quote \/ Change
  \/ StartSession \/ EndSession \/ RefreshFacts \/ PollBar

ClockSpec == ClockInit /\ [][ClockNext]_clockVars

-----------------------------------------------------------------------------
(* PROPERTIES                                                              *)

Silence == utc - tick.at

(* As long as the last tick is less than an hour old, a bar is processed   *)
(* under the instant it really closed at: over changes of the broker's     *)
(* clock and of the account, during a session or between two, and whatever *)
(* resolutions earlier sessions left behind.                               *)
DatedTruly ==
  [][processed' # processed /\ Silence + Ahead < Hour
       => processed'.close = processed'.true]_clockVars

(* docs/live_shadow_runtime.md: "Stale quotes keep SHADOW operational but  *)
(* waiting ... no completed-M5 event, scan, specialist evaluation, decision*)
(* ... is performed."                                                      *)
StaleQuotesWait ==
  [][processed' # processed => Silence =< QuoteStale]_clockVars

=============================================================================
