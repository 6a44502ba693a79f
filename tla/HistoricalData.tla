--------------------------- MODULE HistoricalData ---------------------------
(***************************************************************************)
(* Collection of historical series (src/alpha_engine/historical): the      *)
(* pipeline's collect_* calls, the sources they read and the files they    *)
(* merge into.                                                             *)
(*                                                                         *)
(* Binance publishes one file per period (a day of metrics, a month of     *)
(* funding) and may publish a corrected one; Hyperliquid answers pages of  *)
(* settlements.  A call fetches period by period, keeps what it got in     *)
(* memory and merges it at the end, replacing the series' file at once; it *)
(* may end at any point with an exception or a crash.                      *)
(***************************************************************************)
EXTENDS Integers, Sequences, SequencesExt, FiniteSets, FiniteSetsExt

CONSTANTS Periods,      \* number of periods
          PerPeriod,    \* observations in one period
          ZeroAt,       \* instants at which open interest is zero
          PageSizeCap,  \* most settlements Hyperliquid answers at once
          MaxCalls,     \* bound: collect_* calls
          MaxNews,      \* bound: files published and instants settled
          NoCall        \* Python's None

ASSUME HistoryAssumption ==
    /\ Periods \in Nat /\ PerPeriod \in Nat \ {0}
    /\ PageSizeCap \in Nat \ {0}

VARIABLES archive,   \* archive[f][d]: version of Binance's file of period d, 0 if none
          settled,   \* Hyperliquid has settled the instants 1..settled
          disk,      \* disk[s]: the rows of series s on disk
          call,      \* the collect_* call in progress, or NoCall
          promised,  \* <<series, instant>> that some completed call reported
          calls, news

historyVars == <<archive, settled, disk, call, promised, calls, news>>

-----------------------------------------------------------------------------
Instant == 1..(Periods * PerPeriod)
PeriodOf(t) == ((t - 1) \div PerPeriod) + 1
InPeriod(d) == {t \in Instant : PeriodOf(t) = d}

BinanceSeries == {"open_interest", "mark_price", "funding_binance"}
Series == BinanceSeries \cup {"funding_hyperliquid"}
ArchiveOf(s) == IF s = "funding_binance" THEN "funding" ELSE "metrics"

(* An observation: its instant and its value, here the version of the file *)
(* it came from.                                                           *)
Row(t, v) == [at |-> t, value |-> v]

(* A mark is value / open interest: where that is zero there is no row. *)
MarkRows(rows) == {r \in rows : r.at \notin ZeroAt}
Expected(s, d) == IF s = "mark_price" THEN InPeriod(d) \ ZeroAt ELSE InPeriod(d)

(* All rows of the period's file, or none when the archive answers 404. *)
FetchZipCsv(f, d) ==
    IF archive[f][d] = 0 THEN {} ELSE {Row(t, archive[f][d]) : t \in InPeriod(d)}

FetchOpenInterestDay(d) == FetchZipCsv("metrics", d)
FetchMarkPriceDay(d) == MarkRows(FetchZipCsv("metrics", d))
FetchFundingRateMonth(d) == FetchZipCsv("funding", d)

(* Both series of the day, from one download. *)
FetchMetricsDay(d) ==
    LET rows == FetchZipCsv("metrics", d)
    IN  [s \in {"open_interest", "mark_price"} |->
            IF s = "mark_price" THEN MarkRows(rows) ELSE rows]

FetchPeriod(series, d) ==
    IF Len(series) = 2 THEN FetchMetricsDay(d)
    ELSE [s \in ToSet(series) |->
            CASE s = "open_interest"   -> FetchOpenInterestDay(d)
              [] s = "mark_price"      -> FetchMarkPriceDay(d)
              [] s = "funding_binance" -> FetchFundingRateMonth(d)]

(* _existing_days_covered, _existing_months_covered: any row will do. *)
Covered(s) == {PeriodOf(r.at) : r \in ToSet(disk[s])}

-----------------------------------------------------------------------------
(* merge_and_write *)

Sorted(rows) ==
    CHOOSE f \in [1..Cardinality(rows) -> rows] :
        \A i, j \in DOMAIN f : i < j => f[i].at <= f[j].at /\ f[i] # f[j]

(* The row on disk wins over a new one of the same key. *)
Merged(old, new) ==
    LET known == {r.at : r \in ToSet(old)}
    IN  Sorted(ToSet(old) \cup {r \in new : r.at \notin known})

(* assess_quality: what makes a series not clean, gaps aside. *)
DuplicateCount(rows) == Len(rows) - Cardinality({rows[i].at : i \in DOMAIN rows})
IsMonotonic(rows) == \A i \in 2..Len(rows) : rows[i - 1].at <= rows[i].at

-----------------------------------------------------------------------------
HistoryInit ==
    /\ archive = [f \in {"metrics", "funding"} |-> [d \in 1..Periods |-> 0]]
    /\ settled = 0
    /\ disk = [s \in Series |-> << >>]
    /\ call = NoCall
    /\ promised = {}
    /\ calls = 0
    /\ news = 0

(* A file of the archive appears, or is corrected. *)
Publish(f, d) ==
    /\ archive[f][d] < 2 /\ news < MaxNews
    /\ news' = news + 1
    /\ archive' = [archive EXCEPT ![f][d] = @ + 1]
    /\ UNCHANGED <<settled, disk, call, promised, calls>>

Settle ==
    /\ settled < Periods * PerPeriod /\ news < MaxNews
    /\ news' = news + 1
    /\ settled' = settled + 1
    /\ UNCHANGED <<archive, disk, call, promised, calls>>

(* A call of collect_*: the series it writes, in the order it writes them, *)
(* the periods it will fetch and what it promises of the ones it skips.    *)
Begin(series, first, last, force) ==
    LET skipped == IF force THEN {} ELSE Covered(series[1]) \cap (first..last)
    IN  /\ call = NoCall
        /\ calls < MaxCalls
        /\ calls' = calls + 1
        /\ call' = [series |-> series, todo |-> (first..last) \ skipped, cursor |-> 0,
                    end |-> 0, got |-> [s \in ToSet(series) |-> {}],
                    owed |-> {series[1]} \X UNION {InPeriod(d) : d \in skipped}]
        /\ UNCHANGED <<archive, settled, disk, promised, news>>

CollectOpenInterest(first, last, force) == Begin(<<"open_interest">>, first, last, force)
CollectMarkPrice(first, last, force) == Begin(<<"mark_price">>, first, last, force)
CollectMetrics(first, last, force) == Begin(<<"open_interest", "mark_price">>, first, last, force)
CollectFundingRateBinance(first, last, force) == Begin(<<"funding_binance">>, first, last, force)

(* Slip: the page after a full one starts one instant too late. *)
NextCursorLate(body) == Max({r.at : r \in body}) + 2

(* fetch_funding_rate_range goes on after the last settlement it was given. *)
NextCursor(body) == Max({r.at : r \in body}) + 1

(* The high-water mark: it resumes after the last row on disk. *)
ResumeAt(first, force) ==
    LET rows == ToSet(disk["funding_hyperliquid"])
        start == (first - 1) * PerPeriod + 1
    IN  IF force \/ rows = {} THEN start
        ELSE Max({start, Max({r.at : r \in rows}) + 1})

CollectFundingRateHyperliquid(first, last, force) ==
    LET from == ResumeAt(first, force)
        end == last * PerPeriod + 1
    IN  /\ call = NoCall
        /\ calls < MaxCalls
        /\ calls' = calls + 1
        /\ call' = [series |-> <<"funding_hyperliquid">>, todo |-> {}, cursor |-> from,
                    end |-> end, got |-> [s \in {"funding_hyperliquid"} |-> {}],
                    owed |-> {"funding_hyperliquid"} \X {t \in Instant : from <= t /\ t < end
                                                                       /\ t <= settled}]
        /\ UNCHANGED <<archive, settled, disk, promised, news>>

-----------------------------------------------------------------------------
(* The next period of a Binance call, in order. *)
FetchNext ==
    /\ call # NoCall
    /\ call.todo # {}
    /\ LET d == Min(call.todo)
           have == archive[ArchiveOf(call.series[1])][d] # 0
       IN  call' = [call EXCEPT
                !.todo = @ \ {d},
                !.got = [s \in DOMAIN @ |-> @[s] \cup FetchPeriod(call.series, d)[s]],
                !.owed = IF have THEN @ \cup (ToSet(call.series) \X InPeriod(d)) ELSE @]
    /\ UNCHANGED <<archive, settled, disk, promised, calls, news>>

(* One page of a Hyperliquid call; a short page is the last one. *)
FetchPage ==
    /\ call # NoCall
    /\ call.cursor < call.end
    /\ LET there == {t \in Instant : call.cursor <= t /\ t < call.end /\ t <= settled}
           body == {Row(t, 1) : t \in {u \in there :
                        Cardinality({w \in there : w < u}) < PageSizeCap}}
       IN  call' = [call EXCEPT
                !.got = [s \in DOMAIN @ |-> @[s] \cup body],
                !.cursor = IF Cardinality(body) < PageSizeCap THEN call.end ELSE NextCursor(body)]
    /\ UNCHANGED <<archive, settled, disk, promised, calls, news>>

Fetched == call # NoCall /\ call.todo = {} /\ call.cursor >= call.end /\ call.series # << >>

(* Slip: the file is rewritten in place and may be cut short. *)
WriteInPlace ==
    /\ Fetched
    /\ \E n \in 0..Len(Merged(disk[Head(call.series)], call.got[Head(call.series)])) :
        /\ disk' = [disk EXCEPT ![Head(call.series)] =
                        SubSeq(Merged(@, call.got[Head(call.series)]), 1, n)]
        /\ call' = [call EXCEPT !.series = Tail(@)]
    /\ UNCHANGED <<archive, settled, promised, calls, news>>

(* merge_and_write of the call's next series: load, merge, write a         *)
(* temporary file, replace.  Nothing is seen of it before the replace.     *)
MergeAndWrite ==
    /\ Fetched
    /\ LET s == Head(call.series)
       IN  /\ disk' = [disk EXCEPT ![s] = Merged(@, call.got[s])]
           /\ call' = [call EXCEPT !.series = Tail(@)]
    /\ UNCHANGED <<archive, settled, promised, calls, news>>

(* The CollectionResult. *)
Report ==
    /\ call # NoCall
    /\ call.series = << >>
    /\ promised' = promised \cup call.owed
    /\ call' = NoCall
    /\ UNCHANGED <<archive, settled, disk, calls, news>>

(* HistoricalDataError from a source, or a crash. *)
Abort ==
    /\ call # NoCall
    /\ call' = NoCall
    /\ UNCHANGED <<archive, settled, disk, promised, calls, news>>

HistoryNext ==
    \/ \E f \in {"metrics", "funding"}, d \in 1..Periods : Publish(f, d)
    \/ Settle
    \/ \E first \in 1..Periods, force \in BOOLEAN : \E last \in first..Periods :
          \/ CollectOpenInterest(first, last, force)
          \/ CollectMarkPrice(first, last, force)
          \/ CollectMetrics(first, last, force)
          \/ CollectFundingRateBinance(first, last, force)
          \/ CollectFundingRateHyperliquid(first, last, force)
    \/ FetchNext
    \/ FetchPage
    \/ MergeAndWrite
    \/ Report
    \/ Abort

HistorySpec == HistoryInit /\ [][HistoryNext]_historyVars

-----------------------------------------------------------------------------
(* Every series on disk is sound, wherever a call was cut off: rows in     *)
(* order, none twice, and a period of a Binance series is there whole or   *)
(* not at all, so that one row of it may stand for "already collected".    *)
SoundSeries ==
    \A s \in Series :
        /\ DuplicateCount(disk[s]) = 0 /\ IsMonotonic(disk[s])
        /\ s \in BinanceSeries =>
              \A d \in Covered(s) : Expected(s, d) \subseteq {r.at : r \in ToSet(disk[s])}

(* What a completed call reported collected, or skipped as already there,  *)
(* is on disk from then on, whatever later calls fetch, force or break off.*)
PromiseKept ==
    \A p \in promised :
        \/ p[1] = "mark_price" /\ p[2] \in ZeroAt
        \/ p[2] \in {r.at : r \in ToSet(disk[p[1]])}
=============================================================================
