----------------------------- MODULE Statistics -----------------------------
(***************************************************************************)
(* Live counters and their rollups: internal/stats.  Handlers increment    *)
(* atomic counters one by one; once a minute Aggregator.Flush reads them   *)
(* one by one, and writes what was added since its last success into a     *)
(* minute row, an hour row and a day row of the store, one write after the *)
(* other.  Any of them may fail, with or without its effect (the JSON      *)
(* store keeps a change that it could not save), and the process may be    *)
(* restarted anywhere.  Two counters stand for the six.                    *)
(***************************************************************************)
EXTENDS Integers, FiniteSets

CONSTANTS MaxMinute, PerHour,      \* minutes; minutes of an hour (two hours a day)
          MaxQueries, MaxStatsRestarts, MaxFlushFailures,
          NoSnapshot               \* hasLast is false

Kinds == {"queries", "hits"}
Zero == [k \in Kinds |-> 0]
Granularities == {"1m", "1h", "1d"}
Minutes == 0..MaxMinute
Hour(m) == m \div PerHour
Day(m) == m \div (2 * PerHour)

ASSUME StatisticsAssumption ==
    /\ {MaxMinute, MaxQueries, MaxStatsRestarts, MaxFlushFailures} \subseteq Nat
    /\ PerHour \in Nat \ {0} /\ NoSnapshot \notin [Kinds -> Nat]

VARIABLES minute,
          counts,     \* Counters
          inflight,   \* handlers between their two increments
          last,       \* Aggregator.last
          flush,      \* the Flush under way
          rows,       \* rows[granularity][bucket]
          diskRows,   \* those on disk
          queried, statsRestarts, flushFailures,
          settled,    \* history: what earlier processes had flushed
          partial,    \* history: a flush ended after the minute row, before the day row
          twice       \* history: the write of a day row failed and had its effect

statsVars == <<minute, counts, inflight, last, flush, rows, diskRows, queried, statsRestarts, flushFailures, settled, partial, twice>>

NoFlush == [at |-> "idle", snap |-> Zero, delta |-> Zero, minute |-> 0]
Empty == [m \in Minutes |-> Zero]

StatsInit == /\ minute = 0 /\ counts = Zero /\ inflight = 0 /\ last = NoSnapshot
             /\ flush = NoFlush
             /\ rows = [g \in Granularities |-> Empty] /\ diskRows = rows
             /\ queried = 0 /\ statsRestarts = 0 /\ flushFailures = 0
             /\ settled = Zero /\ partial = FALSE /\ twice = FALSE

Plus(a, b) == [k \in Kinds |-> a[k] + b[k]]
-----------------------------------------------------------------------------
(* A handler: IncQuery, later IncCacheHit. *)
IncQuery == /\ queried < MaxQueries
            /\ queried' = queried + 1
            /\ counts' = [counts EXCEPT !["queries"] = counts["queries"] + 1]
            /\ inflight' = inflight + 1
            /\ UNCHANGED <<minute, last, flush, rows, diskRows, statsRestarts, flushFailures, settled, partial, twice>>

IncHit == /\ inflight > 0
          /\ inflight' = inflight - 1
          /\ counts' = [counts EXCEPT !["hits"] = counts["hits"] + 1]
          /\ UNCHANGED <<minute, last, flush, rows, diskRows, queried, statsRestarts, flushFailures, settled, partial, twice>>
-----------------------------------------------------------------------------
(* Flush: Snapshot loads the counters in this order. *)
LoadQueries == /\ flush.at = "idle"
               /\ flush' = [NoFlush EXCEPT !.at = "load", !.snap = [Zero EXCEPT !["queries"] = counts["queries"]]]
               /\ UNCHANGED <<minute, counts, inflight, last, rows, diskRows, queried, statsRestarts, flushFailures, settled, partial, twice>>

deltaCounter(current, previous) == IF current < previous THEN current ELSE current - previous

Delta(snap) == IF last = NoSnapshot THEN snap ELSE [k \in Kinds |-> deltaCounter(snap[k], last[k])]

LoadHits == /\ flush.at = "load"
            /\ LET snap == [flush.snap EXCEPT !["hits"] = counts["hits"]]
               IN  flush' = [at |-> "1m", snap |-> snap, delta |-> Delta(snap), minute |-> minute]
            /\ UNCHANGED <<minute, counts, inflight, last, rows, diskRows, queried, statsRestarts, flushFailures, settled, partial, twice>>

(* The minute row is replaced, the others are added to. *)
addRollup(g, bucket) == [rows EXCEPT ![g][bucket] = Plus(rows[g][bucket], flush.delta)]

Row == CASE flush.at = "1m" -> [rows EXCEPT !["1m"][flush.minute] = flush.delta]
         [] flush.at = "1h" -> addRollup("1h", Hour(flush.minute))
         [] flush.at = "1d" -> addRollup("1d", Day(flush.minute))

Put == rows' = Row /\ diskRows' = rows'

PutMinute == /\ flush.at = "1m" /\ Put
             /\ flush' = [flush EXCEPT !.at = "1h"]
             /\ UNCHANGED <<minute, counts, inflight, last, queried, statsRestarts, flushFailures, settled, partial, twice>>

PutHour == /\ flush.at = "1h" /\ Put
           /\ flush' = [flush EXCEPT !.at = "1d"]
           /\ UNCHANGED <<minute, counts, inflight, last, queried, statsRestarts, flushFailures, settled, partial, twice>>

PutDayM == /\ flush.at = "1d" /\ Put
           /\ flush' = NoFlush
           /\ last' = IF last = NoSnapshot THEN flush.snap ELSE last
           /\ UNCHANGED <<minute, counts, inflight, queried, statsRestarts, flushFailures, settled, partial, twice>>
PutDay == /\ flush.at = "1d" /\ Put
          /\ flush' = NoFlush
          /\ last' = flush.snap
          /\ UNCHANGED <<minute, counts, inflight, queried, statsRestarts, flushFailures, settled, partial, twice>>

(* A write fails: Flush returns, and the next one repeats the difference. *)
FlushFails == /\ flush.at \in Granularities /\ flushFailures < MaxFlushFailures
              /\ flushFailures' = flushFailures + 1
              /\ rows' \in {rows, Row} /\ diskRows' \in {diskRows, rows'}
              /\ flush' = NoFlush
              /\ partial' = (partial \/ flush.at # "1m" \/ rows' # rows)
              /\ twice' = (twice \/ (flush.at = "1d" /\ rows' # rows))
              /\ UNCHANGED <<minute, counts, inflight, last, queried, statsRestarts, settled>>

Minute == /\ minute < MaxMinute
          /\ minute' = minute + 1
          /\ UNCHANGED <<counts, inflight, last, flush, rows, diskRows, queried, statsRestarts, flushFailures, settled, partial, twice>>

(* The process ends without a last flush (runServe) and starts anew. *)
StatsRestart == /\ statsRestarts < MaxStatsRestarts
                /\ statsRestarts' = statsRestarts + 1
                /\ rows' = diskRows
                /\ counts' = Zero /\ inflight' = 0 /\ last' = NoSnapshot /\ flush' = NoFlush
                /\ settled' = IF last = NoSnapshot THEN settled ELSE Plus(settled, last)
                /\ partial' = (partial \/ flush.at \in {"1h", "1d"})
                /\ UNCHANGED <<minute, diskRows, queried, flushFailures, twice>>

StatsNext == \/ IncQuery \/ IncHit
             \/ LoadQueries \/ LoadHits \/ PutMinute \/ PutHour \/ PutDay \/ FlushFails
             \/ Minute \/ StatsRestart

StatsSpec == StatsInit /\ [][StatsNext]_statsVars
-----------------------------------------------------------------------------
StatsTypeOK ==
    /\ minute \in Minutes /\ counts \in [Kinds -> Nat] /\ inflight \in Nat
    /\ last \in [Kinds -> Nat] \cup {NoSnapshot}
    /\ flush \in [at : {"idle", "load", "1m", "1h", "1d"}, snap : [Kinds -> Nat], delta : [Kinds -> Nat], minute : Minutes]
    /\ {rows, diskRows} \subseteq [Granularities -> [Minutes -> [Kinds -> Nat]]]
    /\ queried \in 0..MaxQueries /\ statsRestarts \in 0..MaxStatsRestarts /\ flushFailures \in 0..MaxFlushFailures
    /\ settled \in [Kinds -> Nat] /\ partial \in BOOLEAN /\ twice \in BOOLEAN

(* What a table of rows counts in all: one point for each.                 *)
Total(table, k) == Cardinality(UNION {{m} \X (1..table[m][k]) : m \in Minutes})

Flushed(k) == settled[k] + (IF last = NoSnapshot THEN 0 ELSE last[k])
Underway(stages, k) == IF flush.at \in stages THEN flush.delta[k] ELSE 0

(* The rows, in memory and on disk, miss nothing of what successful        *)
(* flushes saw, over all failures and restarts, and count nothing twice    *)
(* unless a failed flush was repeated: the day rows when just their write  *)
(* had failed after its effect, the hour rows when the flush was cut off   *)
(* between the two (aggregator.go:82).  The minute rows, which a second    *)
(* flush within the minute replaces, hold no more than the others.         *)
Exact(r) == \A k \in Kinds :
    /\ Total(r["1d"], k) >= Flushed(k) /\ (~twice => Total(r["1d"], k) = Flushed(k))
    /\ Total(r["1h"], k) >= Flushed(k) + Underway({"1d"}, k)
    /\ ~partial => /\ Total(r["1h"], k) = Flushed(k) + Underway({"1d"}, k)
                   /\ Total(r["1m"], k) <= Flushed(k) + Underway({"1h", "1d"}, k)
RollupsExact == Exact(rows) /\ Exact(diskRows)

(* What any order of increments, flushes, failures and restarts leaves:    *)
(* well-typed rows that count what was flushed.                            *)
StatsSound == StatsTypeOK /\ RollupsExact
=============================================================================
