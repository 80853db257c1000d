--------------------------- MODULE TrafficRollup ---------------------------
(***************************************************************************)
(* From counted bytes to the figures a query shows.  An ingest transaction *)
(* splits the bytes of a series over short buckets, adds them to their     *)
(* records and marks the hour and the day of each bucket dirty in          *)
(* traffic_rollup_jobs.  A worker takes a dirty period, recomputes its     *)
(* aggregate from the records and removes the mark.  Cleanup deletes old   *)
(* records and old aggregates.  Transactions run at READ COMMITTED: a      *)
(* statement sees what was committed when it starts, and an update waits   *)
(* for the transaction that holds the row.                                 *)
(*                                                                         *)
(* No name is one of TrafficMetering: TrafficProofs extends both.          *)
(***************************************************************************)
EXTENDS Integers, FiniteSets, FiniteSetsExt

CONSTANTS
    Nodes,             \* reporting nodes: one ingest transaction each at a time
    Workers,           \* panel processes that run Service.Run
    Width, Hour, Day,  \* length of a bucket, of an "1h" and of a "1d" period
    Late,              \* how old the bytes of a report can be (7 days and a day)
    Keep,              \* retention of "5m", "1h" and "1d" figures
    MaxClock,          \* bound: the clock
    MaxIngests,        \* bound: ingest transactions begun
    Amounts            \* the bytes one transaction may count

Grains == {"1h", "1d"}
Length == [g \in Grains |-> IF g = "1h" THEN Hour ELSE Day]

\* The retention of records covers every day a late report can still touch; bytes
\* are differences of counters, never negative.
ASSUME RetentionsFit ==
    /\ {Width, Hour, Day} \subseteq Nat \ {0} /\ Hour % Width = 0 /\ Day % Hour = 0
    /\ Late \in Nat /\ Keep \in [{"5m", "1h", "1d"} -> Nat]
    /\ Keep["5m"] >= Late + Day
    /\ Keep["1h"] >= Keep["5m"] /\ Keep["1d"] >= Keep["1h"]
    /\ Amounts \subseteq Nat /\ {MaxClock, MaxIngests} \subseteq Nat

VARIABLES
    clock,
    records,   \* traffic_records: bucket -> bytes; Absent when there is no row
    jobs,      \* traffic_rollup_jobs: revision of a dirty period, 0: no row
    agg,       \* traffic_*_aggregates: bytes of a period; Absent when no row
    tx,        \* the ingest transaction of each node
    roll,      \* the roll-up transaction of each worker
    accounted, \* traffic_accounts: lifetime bytes of the users of the series
    total,     \* ghost: every byte committed, by bucket
    ingests

rollupVars == <<clock, records, jobs, agg, tx, roll, accounted, total, ingests>>

Absent == -1
Start(t, length) == t - (t % length)
Buckets == {b \in 0..MaxClock : b % Width = 0}
Periods == {[grain |-> g, start |-> s] : g \in Grains, s \in 0..MaxClock}
Jobs == {p \in Periods : p.start % Length[p.grain] = 0}
Inside(p) == {b \in Buckets : Start(b, Length[p.grain]) = p.start}
Sum(f, S) == LET at(x) == f[x] IN MapThenSumSet(at, S)

\* A plausible bug: the last bucket is rounded down too.
FaultySplit(from, to, bytes) ==
    [b \in {c \in Buckets : c + Width > from /\ c < to} |->
        (bytes * ((IF b + Width < to THEN b + Width ELSE to)
                    - (IF b > from THEN b ELSE from))) \div (to - from)]

\* Split: the buckets that [from, to) touches, each with its share of the bytes,
\* rounded down; the last one takes what remains.
Split(from, to, bytes) ==
    LET touched == {b \in Buckets : b + Width > from /\ b < to}
        last == Start(to - 1, Width)
        Part(b) == (IF b + Width < to THEN b + Width ELSE to)
                     - (IF b > from THEN b ELSE from)
        Portion(b) == (bytes * Part(b)) \div (to - from)
    IN [b \in touched |->
          IF b # last THEN Portion(b)
          ELSE bytes - MapThenSumSet(Portion, touched \ {last})]

\* A transaction that holds no row and has nothing to do.
NoTx == [open |-> FALSE, bytes |-> 0, writes |-> [b \in {} |-> 0], marked |-> {}]
NoRoll == [job |-> {}, revision |-> 0, sum |-> Absent, step |-> "idle"]

RollupInit ==
    /\ clock = 0
    /\ records = [b \in Buckets |-> Absent]
    /\ jobs = [j \in Jobs |-> 0]
    /\ agg = [j \in Jobs |-> Absent]
    /\ tx = [n \in Nodes |-> NoTx]
    /\ roll = [w \in Workers |-> NoRoll]
    /\ accounted = 0
    /\ total = [b \in Buckets |-> 0]
    /\ ingests = 0

\* A unit of the clock is hours: an ingest request is over within it.
ClockTick == /\ clock < MaxClock
             /\ \A n \in Nodes : ~tx[n].open
             /\ clock' = clock + 1
             /\ UNCHANGED <<records, jobs, agg, tx, roll, accounted, total, ingests>>
-----------------------------------------------------------------------------
(* Ingest: writeBucket for every bucket, in one transaction with the account *)

Begin(n, from, to, bytes) ==
    /\ ~tx[n].open
    /\ ingests < MaxIngests
    /\ ingests' = ingests + 1
    /\ tx' = [tx EXCEPT ![n] = [open |-> TRUE, bytes |-> bytes,
                                writes |-> Split(from, to, bytes), marked |-> {}]]
    /\ UNCHANGED <<clock, records, jobs, agg, roll, accounted, total>>

\* The periods a bucket belongs to: they are marked dirty when it is written.
Touched(b) == {[grain |-> g, start |-> Start(b, Length[g])] : g \in Grains}
ToMark(n) == UNION {Touched(b) : b \in DOMAIN tx[n].writes}

Locked(j) == \/ \E n \in Nodes : j \in tx[n].marked
             \/ \E w \in Workers : roll[w].job = {j}

\* Insert the job or raise its revision; waits for whoever holds the row.
Mark(n, j) ==
    /\ tx[n].open
    /\ j \in ToMark(n) \ tx[n].marked
    /\ ~Locked(j)
    /\ tx' = [tx EXCEPT ![n].marked = @ \union {j}]
    /\ UNCHANGED <<clock, records, jobs, agg, roll, accounted, total, ingests>>

Added(old, n, b) == IF b \notin DOMAIN tx[n].writes THEN old
                    ELSE tx[n].writes[b] + (IF old = Absent THEN 0 ELSE old)

CommitIngest(n) ==
    /\ tx[n].open
    /\ tx[n].marked = ToMark(n)
    /\ records' = [b \in Buckets |-> Added(records[b], n, b)]
    /\ total' = [b \in Buckets |-> Added(total[b], n, b)]
    /\ accounted' = accounted + tx[n].bytes
    /\ jobs' = [j \in Jobs |-> IF j \in tx[n].marked THEN jobs[j] + 1 ELSE jobs[j]]
    /\ tx' = [tx EXCEPT ![n] = NoTx]
    /\ UNCHANGED <<clock, agg, roll, ingests>>

\* The transaction fails, also as the victim of a deadlock with another one.
AbortIngest(n) ==
    /\ tx[n].open
    /\ tx' = [tx EXCEPT ![n] = NoTx]
    /\ UNCHANGED <<clock, records, jobs, agg, roll, accounted, total, ingests>>
-----------------------------------------------------------------------------
(* Rollup: one transaction for one dirty period *)

Free == {j \in Jobs : jobs[j] > 0 /\ ~Locked(j)}

\* ORDER BY period_start, grain LIMIT 1 FOR UPDATE SKIP LOCKED
Pick(w, j) ==
    /\ roll[w] = NoRoll
    /\ j \in Free
    /\ \A k \in Free : k.start >= j.start
    /\ \A k \in Free : k.start = j.start /\ j.grain = "1h" => k.grain = "1h"
    /\ roll' = [roll EXCEPT ![w] = [job |-> {j}, revision |-> jobs[j], sum |-> Absent,
                                    step |-> "picked"]]
    /\ UNCHANGED <<clock, records, jobs, agg, tx, accounted, total, ingests>>

Present(j) == {b \in Inside(j) : records[b] # Absent}

\* The aggregate is recomputed as a whole, never added to; no row is written for
\* a period without records.
Recompute(w) ==
    /\ roll[w].step = "picked"
    /\ \E j \in roll[w].job :
          roll' = [roll EXCEPT ![w].step = "summed",
                     ![w].sum = IF Present(j) = {} THEN Absent ELSE Sum(records, Present(j))]
    /\ UNCHANGED <<clock, records, jobs, agg, tx, accounted, total, ingests>>

\* A plausible bug: the job of the revision that was picked is left in place.
FaultyCommitRoll(w) ==
    /\ roll[w].step = "summed"
    /\ \E j \in roll[w].job :
          agg' = IF roll[w].sum = Absent THEN agg ELSE [agg EXCEPT ![j] = roll[w].sum]
    /\ roll' = [roll EXCEPT ![w] = NoRoll]
    /\ UNCHANGED <<clock, records, jobs, tx, accounted, total, ingests>>

CommitRoll(w) ==
    /\ roll[w].step = "summed"
    /\ \E j \in roll[w].job :
          /\ agg' = IF roll[w].sum = Absent THEN agg ELSE [agg EXCEPT ![j] = roll[w].sum]
          /\ jobs' = IF jobs[j] = roll[w].revision THEN [jobs EXCEPT ![j] = 0] ELSE jobs
    /\ roll' = [roll EXCEPT ![w] = NoRoll]
    /\ UNCHANGED <<clock, records, tx, accounted, total, ingests>>

\* An error or a crash before the commit: the row is free again.
AbortRoll(w) ==
    /\ roll[w] # NoRoll
    /\ roll' = [roll EXCEPT ![w] = NoRoll]
    /\ UNCHANGED <<clock, records, jobs, agg, tx, accounted, total, ingests>>
-----------------------------------------------------------------------------
(* Cleanup: each statement on its own *)

\* Plausible bugs: the jobs are not asked; one period too much goes.
FaultyExpired(b) == records[b] # Absent /\ b < clock - Keep["5m"]
EagerExpired(b) == /\ records[b] # Absent
                   /\ b <= clock - Keep["5m"]
                   /\ \A j \in Jobs : jobs[j] > 0 =>
                         j.start \notin {Start(b, Hour), Start(b, Day)}

\* Records are kept while a job of their hour or day is still to do.
Expired(b) == /\ records[b] # Absent
              /\ b < clock - Keep["5m"]
              /\ \A j \in Jobs : jobs[j] > 0 =>
                    j.start \notin {Start(b, Hour), Start(b, Day)}

CleanRecords ==
    /\ \E b \in Buckets : Expired(b)
    /\ records' = [b \in Buckets |-> IF Expired(b) THEN Absent ELSE records[b]]
    /\ UNCHANGED <<clock, jobs, agg, tx, roll, accounted, total, ingests>>

Outdated(j) == agg[j] # Absent /\ j.start < clock - Keep[j.grain]

CleanAggregates ==
    /\ \E j \in Jobs : Outdated(j)
    /\ agg' = [j \in Jobs |-> IF Outdated(j) THEN Absent ELSE agg[j]]
    /\ UNCHANGED <<clock, records, jobs, tx, roll, accounted, total, ingests>>
-----------------------------------------------------------------------------
IngestBuckets == \E n \in Nodes :
    \/ \E from \in {t \in 0..clock : t >= clock - Late}, bytes \in Amounts :
          from < clock /\ Begin(n, from, clock, bytes)
    \/ \E j \in Jobs : Mark(n, j)
    \/ CommitIngest(n)
    \/ AbortIngest(n)

Rollup == \E w \in Workers :
    (\E j \in Jobs : Pick(w, j)) \/ Recompute(w) \/ CommitRoll(w) \/ AbortRoll(w)

RollupNext == ClockTick \/ IngestBuckets \/ Rollup \/ CleanRecords \/ CleanAggregates

RollupSpec == RollupInit /\ [][RollupNext]_rollupVars

\* The ticker of Run fires every minute, and a database that fails at times does
\* not fail for ever.
FairRollupSpec ==
    /\ RollupSpec
    /\ \A n \in Nodes : WF_rollupVars(CommitIngest(n) \/ AbortIngest(n))
    /\ \A w \in Workers : /\ WF_rollupVars(\E j \in Jobs : Pick(w, j))
                          /\ SF_rollupVars(Recompute(w))
                          /\ SF_rollupVars(CommitRoll(w))
-----------------------------------------------------------------------------
(* Properties *)

Bytes == -1..MaxIngests * Max(Amounts)

\* Type invariant: every variable keeps the shape its table or local has.
RollupTypeOK ==
    /\ clock \in 0..MaxClock
    /\ records \in [Buckets -> Bytes]
    /\ total \in [Buckets -> Bytes \ {Absent}]
    /\ accounted \in Bytes \ {Absent}
    /\ jobs \in [Jobs -> 0..MaxIngests]
    /\ agg \in [Jobs -> Bytes]
    /\ \A n \in Nodes : tx[n].marked \subseteq ToMark(n)
    /\ \A w \in Workers : roll[w].step \in {"idle", "picked", "summed"}
    /\ ingests \in 0..MaxIngests

Truth(j) == Sum(total, Inside(j))

\* A period that is not marked dirty, and not too old to be kept, shows every byte
\* ever committed for it, although its records may be gone: no order of ingest,
\* roll-up and cleanup loses bytes or counts them twice.
AggregatesAgree ==
    \A j \in Jobs : jobs[j] = 0 /\ j.start >= clock - Keep[j.grain]
        => (IF agg[j] = Absent THEN 0 ELSE agg[j]) = Truth(j)

\* ParseQuery refuses a range that begins before what its grain retains.
Answerable(from, to, grain) == from < to /\ to <= clock /\ from >= clock - Keep[grain]

Answer(from, to, grain) ==
    IF grain = "5m"
    THEN Sum(records, {b \in Buckets : b >= from /\ b < to /\ records[b] # Absent})
    ELSE Sum([j \in Jobs |-> IF agg[j] = Absent THEN 0 ELSE agg[j]],
             {j \in Jobs : j.grain = grain /\ j.start >= from /\ j.start < to})

\* A query that is answered, with no roll-up outstanding, adds up every byte of
\* the periods it names: the limits of ParseQuery and of Cleanup fit together.
QueryIsComplete ==
    \A grain \in {"5m", "1h", "1d"}, from \in 0..clock : \A to \in {from + 1, clock} :
        Answerable(from, to, grain) /\ (grain # "5m" => \A j \in Jobs : jobs[j] = 0)
        => Answer(from, to, grain)
             = IF grain = "5m" THEN Sum(total, {b \in Buckets : b >= from /\ b < to})
               ELSE Sum([j \in Jobs |-> Truth(j)],
                        {j \in Jobs : j.grain = grain /\ j.start >= from /\ j.start < to})

\* The accounts, which quotas and alerts go by, and the figures say the same: a query
\* over all time that is answered, with no roll-up outstanding, shows every byte the
\* accounts were charged, whatever was rounded, retried, aborted or recomputed.
AccountsAgree ==
    \A grain \in {"5m", "1h", "1d"} :
        Answerable(0, clock, grain) /\ (grain # "5m" => \A j \in Jobs : jobs[j] = 0)
        => Answer(0, clock, grain) = accounted

\* Once no more reports come, every dirty period is recomputed in the end.
DirtyIsRecomputed == []<>(\A j \in Jobs : jobs[j] = 0)
=============================================================================
