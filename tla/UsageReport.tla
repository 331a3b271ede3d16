----------------------------- MODULE UsageReport -----------------------------
(***************************************************************************)
(* The usage tracker (api/usage.py): a bounded record of the requests that *)
(* ended and the report the dashboard draws for a trailing window of time. *)
(* A reference names the provider and the model; a request's tokens are in *)
(* one number, latencies and labels are left out.                          *)
(***************************************************************************)
EXTENDS Integers, Sequences, FiniteSets, SequencesExt

CONSTANTS
  UsageRefs,      \* <<provider, model>> of the requests
  UsageTokens,    \* the tokens of a request
  MaxRecords,     \* _MAX_RECORDS
  BucketCount,    \* _BUCKET_COUNT
  RecentCap,      \* _RECENT_CAP
  ByModelCap,     \* _BY_MODEL_CAP
  Ranges,         \* the ranges the page asks for
  MaxClock,       \* bound: how far the clock goes
  MaxRequests     \* bound: how many requests end

ASSUME UsageAssumption ==
  /\ {MaxRecords, BucketCount, RecentCap, ByModelCap} \subseteq Nat \ {0}
  /\ Ranges \subseteq Nat \ {0} /\ {MaxClock, MaxRequests} \subseteq Nat /\ UsageTokens \subseteq Nat

VARIABLES
  now,
  records,    \* the deque
  ended       \* every request that ended, in order

usage_vars == <<now, records, ended>>

Record == [ts : 0 .. MaxClock, ref : UsageRefs, tokens : UsageTokens, status : {"ok", "error"}]

UsageInit == now = 0 /\ records = <<>> /\ ended = <<>>

\* Slip: the buffer is full one record early.
RecordFullEarly(r) ==
  /\ Len(ended) < MaxRequests /\ r.ts = now
  /\ ended' = Append(ended, r)
  /\ records' = IF Len(records) < MaxRecords - 1 THEN Append(records, r)
                ELSE Append(Tail(records), r)
  /\ UNCHANGED now

\* record: the oldest one leaves a full buffer.
RecordUsage(r) ==
  /\ Len(ended) < MaxRequests /\ r.ts = now
  /\ ended' = Append(ended, r)
  /\ records' = IF Len(records) < MaxRecords THEN Append(records, r)
                ELSE Append(Tail(records), r)
  /\ UNCHANGED now

\* time.time(), which may also be set back.
ClockMoves ==
  /\ now' \in {now - 1, now + 1} \cap 0 .. MaxClock
  /\ UNCHANGED <<records, ended>>

UsageNext == (\E r \in Record : RecordUsage(r)) \/ ClockMoves

-----------------------------------------------------------------------------
(* snapshot.                                                                *)

InWindow(range) == SelectSeq(records, LAMBDA r : r.ts >= now - range)

Requests(s) == Len(s)
Tokens(s) == FoldLeft(LAMBDA n, r : n + r.tokens, 0, s)
Errors(s) == Len(SelectSeq(s, LAMBDA r : r.status = "error"))
Row(s) == [requests |-> Requests(s), tokens |-> Tokens(s), errors |-> Errors(s)]

\* _totals.
Totals(range) == Row(InWindow(range))

\* Slip: the end of the window belongs to no bucket.
BucketOpenEnd(r, range) == 1 + ((r.ts - (now - range)) * BucketCount) \div range

\* The bucket of a record, from 1; what is late goes to the last one.
Bucket(r, range) ==
  LET i == 1 + ((r.ts - (now - range)) * BucketCount) \div range
  IN  IF i > BucketCount THEN BucketCount ELSE i

\* _series.
Series(range) ==
  [i \in 1 .. BucketCount |-> Row(SelectSeq(InWindow(range), LAMBDA r : Bucket(r, range) = i))]

\* _by_provider and _by_model: a row for each, the busiest first.
Rows(range, names, Named(_)) ==
  SetToSortSeq({[name |-> n, row |-> Row(SelectSeq(InWindow(range), LAMBDA r : Named(r) = n))] :
                  n \in names},
               LAMBDA x, y : x.row.requests > y.row.requests)
ByProvider(range) ==
  LET Provider(r) == r.ref[1] IN Rows(range, {Provider(r) : r \in Range(InWindow(range))}, Provider)
ByModel(range) ==
  LET Model(r) == r.ref[2]
      rows == Rows(range, {Model(r) : r \in Range(InWindow(range))}, Model)
  IN  SubSeq(rows, 1, IF Len(rows) < ByModelCap THEN Len(rows) ELSE ByModelCap)

\* _recent.
Recent(range) ==
  LET s == InWindow(range)
      first == IF Len(s) > RecentCap THEN Len(s) - RecentCap + 1 ELSE 1
  IN  Reverse(SubSeq(s, first, Len(s)))

-----------------------------------------------------------------------------
(* Properties.                                                              *)

UsageTypeOK ==
  /\ now \in 0 .. MaxClock /\ Range(records) \subseteq Record /\ Range(ended) \subseteq Record
  /\ Len(records) <= MaxRecords

Newest == SubSeq(ended, IF Len(ended) > MaxRecords THEN Len(ended) - MaxRecords + 1 ELSE 1, Len(ended))

\* However many requests end, the deque has the last MaxRecords of them, in order
\* (usage.py _MAX_RECORDS).
RecordsNewest == records = Newest

AddsUp(rows, total) ==
  \A f \in {"requests", "tokens", "errors"} :
    FoldLeft(LAMBDA n, row : n + row[f], 0, rows) = total[f]

RowsOf(named) == [i \in DOMAIN named |-> named[i].row]

\* However the clock moves and the buffer overflows, the report's parts are about the
\* same requests: those among the last MaxRecords that ended in the window. The buckets
\* and the providers add up to the totals, the models left out are none that is busier
\* than one shown, and the recent requests are the last of them (usage.py:85).
ReportAgrees ==
  \A range \in Ranges :
    LET counted == SelectSeq(Newest, LAMBDA r : r.ts + range >= now)
        shown == ByModel(range)
    IN  /\ Totals(range) = Row(counted)
        /\ AddsUp(Series(range), Totals(range))
        /\ AddsUp(RowsOf(ByProvider(range)), Totals(range))
        /\ Len(shown) < ByModelCap => AddsUp(RowsOf(shown), Totals(range))
        /\ \A r \in Range(counted) :
             \/ \E i \in DOMAIN shown : shown[i].name = r.ref[2]
             \/ LET others == SelectSeq(counted, LAMBDA q : q.ref[2] = r.ref[2])
                IN  \A i \in DOMAIN shown : shown[i].row.requests >= Len(others)
        /\ \A i \in DOMAIN Recent(range) : Recent(range)[i] = counted[Len(counted) - i + 1]
        /\ Len(Recent(range)) = IF Len(counted) < RecentCap THEN Len(counted) ELSE RecentCap
=============================================================================
