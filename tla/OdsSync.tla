------------------------------ MODULE OdsSync ------------------------------
(***************************************************************************)
(* The incremental copy of generation_logs into the Hive table             *)
(* ods_generation_logs (scripts/mysql_to_hive_ods.py), next to the         *)
(* requests that write the source table.                                   *)
(*                                                                         *)
(* A statement stamps updated_at when it starts and its row is visible     *)
(* when it commits, so stamps can become visible out of order.  The script *)
(* takes no lock: two of them may run at once, and each of its statements  *)
(* is a step of its own.  A row is its id and the stamp of its last        *)
(* change; the contents of a row change with its stamp.                    *)
(***************************************************************************)
EXTENDS Naturals, Sequences, FiniteSets

CONSTANTS
  MaxId,       \* ids of generation_logs: 1..MaxId
  Syncs,       \* runs of the script that may overlap
  MaxClock,    \* bound on stamps
  MaxBatches,  \* bound on batches
  MaxCrashes   \* bound on scripts that die, or lose MySQL

ASSUME OdsAssumption ==
  /\ MaxId \in Nat /\ MaxClock \in Nat \ {0}
  /\ MaxBatches \in Nat /\ MaxCrashes \in Nat

VARIABLES
  source,    \* updated_at of the committed rows, 0 where there is none
  unlabeled, \* rows older than the contract: data_origin is NULL
  writing,   \* stamps of the statements in progress, 0 if none
  clock,     \* the last stamp taken
  batches,   \* etl_batches in the order of batch_id
  ods,       \* rows of ods_generation_logs: batch, id, stamp
  sync,      \* the scripts
  late,      \* observer: versions committed behind a batch that had read
  crashed    \* observer: batches whose script died

vars == <<source, unlabeled, writing, clock, batches, ods, sync, late, crashed>>

Ids    == 1..MaxId
Stamps == 0..MaxClock
\* (updated_at, id), compared as MySQL and Python compare pairs.
Pairs  == Stamps \X Ids
Marks  == Pairs \cup {<<>>}  \* <<>> where the code has no watermark
After(a, b)   == a[1] > b[1] \/ (a[1] = b[1] /\ a[2] > b[2])
UpTo(a, b)    == ~After(a, b)

Batch   == [status : {"RUNNING", "SUCCEEDED", "FAILED"}, start : Marks, end : Marks]
Exports == [batch : Nat, id : Ids, at : Stamps]
SyncState == [at : {"idle", "end", "create", "fetch", "write", "check"},
              start : Marks, end : Marks, batch : Nat, rows : SUBSET Pairs]
NoScript == [at |-> "idle", start |-> <<>>, end |-> <<>>, batch |-> 0, rows |-> {}]

Committed == {<<source[i], i>> : i \in {j \in Ids : source[j] > 0}}

\* Migration 0002 stamps the rows it finds with its own time.
Init ==
  /\ \E old \in SUBSET Ids :
       /\ source = [i \in Ids |-> IF i \in old THEN 1 ELSE 0]
       /\ unlabeled \in SUBSET old
  /\ writing = [i \in Ids |-> 0] /\ clock = 1
  /\ batches = <<>> /\ ods = {} /\ late = {} /\ crashed = {}
  /\ sync = [s \in Syncs |-> NoScript]

-----------------------------------------------------------------------------
(* The application: inserts, ratings, downloads.                            *)

\* Statements may start within one tick of CURRENT_TIMESTAMP(6), but two
\* changes of one row are further apart.
StartWrite(i) ==
  /\ writing[i] = 0
  /\ clock' \in {clock, clock + 1} /\ clock' <= MaxClock /\ source[i] < clock'
  /\ writing' = [writing EXCEPT ![i] = clock']
  /\ UNCHANGED <<source, unlabeled, batches, ods, sync, late, crashed>>

\* The ends of the batches that have read the table and may succeed.
ReadEnds == {sync[s].end : s \in {t \in Syncs : sync[t].at \in {"write", "check"}}}
              \cup {batches[k].end : k \in {j \in DOMAIN batches : batches[j].status = "SUCCEEDED"}}

CommitWrite(i) ==
  LET row == <<writing[i], i>>
  IN /\ writing[i] > 0
     /\ source' = [source EXCEPT ![i] = writing[i]]
     /\ writing' = [writing EXCEPT ![i] = 0]
     /\ late' = IF \E end \in ReadEnds : end # <<>> /\ UpTo(row, end)
                THEN late \cup {row} ELSE late
     /\ UNCHANGED <<unlabeled, clock, batches, ods, sync, crashed>>

-----------------------------------------------------------------------------
(* run_sync.                                                                *)

Succeeded == {k \in DOMAIN batches : batches[k].status = "SUCCEEDED" /\ batches[k].end # <<>>}

\* Mutant of LatestWatermark: any batch moves the watermark.
LatestOfAll ==
  IF \E k \in DOMAIN batches : batches[k].end # <<>>
  THEN batches[CHOOSE k \in DOMAIN batches :
         batches[k].end # <<>> /\ \A j \in DOMAIN batches : batches[j].end # <<>> => j <= k].end
  ELSE <<>>

\* The end of the succeeded batch with the highest id.
LatestWatermark ==
  IF Succeeded = {} THEN <<>>
  ELSE batches[CHOOSE k \in Succeeded : \A j \in Succeeded : j <= k].end

ReadStart(s) ==
  /\ sync[s].at = "idle" /\ Len(batches) < MaxBatches
  /\ sync' = [sync EXCEPT ![s] = [NoScript EXCEPT !.at = "end", !.start = LatestWatermark]]
  /\ UNCHANGED <<source, unlabeled, writing, clock, batches, ods, late, crashed>>

\* The frozen end is the last pair visible now.
FreezeEnd(s) ==
  /\ sync[s].at = "end"
  /\ \E end \in Marks :
       /\ IF Committed = {} THEN end = <<>>
          ELSE end \in Committed /\ \A row \in Committed : UpTo(row, end)
       /\ sync' = [sync EXCEPT ![s].at = "create", ![s].end = end]
  /\ UNCHANGED <<source, unlabeled, writing, clock, batches, ods, late, crashed>>

CreateBatch(s) ==
  /\ sync[s].at = "create"
  /\ batches' = Append(batches, [status |-> "RUNNING", start |-> sync[s].start, end |-> sync[s].end])
  /\ sync' = [sync EXCEPT ![s].at = "fetch", ![s].batch = Len(batches) + 1]
  /\ UNCHANGED <<source, unlabeled, writing, clock, ods, late, crashed>>

\* composite_clause: a bound that is missing bounds nothing.
InRange(row, start, end) ==
  /\ start # <<>> => After(row, start)
  /\ end # <<>> => UpTo(row, end)

\* finish_batch and the end of the script.
FinishBatch(s, status, end) ==
  /\ batches' = [batches EXCEPT ![sync[s].batch].status = status, ![sync[s].batch].end = end]
  /\ sync' = [sync EXCEPT ![s] = NoScript]

\* The rows in range; a failed query fails the batch.
FetchRows(s) ==
  /\ sync[s].at = "fetch"
  /\ \/ /\ sync' = [sync EXCEPT ![s].at = "write",
             ![s].rows = {row \in Committed : InRange(row, sync[s].start, sync[s].end)}]
        /\ UNCHANGED batches
     \/ FinishBatch(s, "FAILED", sync[s].end)
  /\ UNCHANGED <<source, unlabeled, writing, clock, ods, late, crashed>>

Appended(s) == {[batch |-> sync[s].batch, id |-> row[2], at |-> row[1]] : row \in sync[s].rows}

\* The rows are appended under the batch id.  A failure before, or after,
\* the append fails the batch and takes nothing back.
WriteHive(s) ==
  /\ sync[s].at = "write"
  /\ \/ ods' = ods \cup Appended(s) /\ sync' = [sync EXCEPT ![s].at = "check"] /\ UNCHANGED batches
     \/ FinishBatch(s, "FAILED", sync[s].end) /\ ods' \in {ods, ods \cup Appended(s)}
  /\ UNCHANGED <<source, unlabeled, writing, clock, late, crashed>>

\* Mutant of Quality: the origin of the rows is not looked at.
QualityAnyOrigin(s) ==
  LET rows == sync[s].rows
  IN \A row \in rows : InRange(row, sync[s].start, sync[s].end)

\* quality_checks: ids once each, origins allowed, stamps between the marks.
Quality(s) ==
  LET rows == sync[s].rows
  IN /\ Cardinality({copy \in ods : copy.batch = sync[s].batch}) = Cardinality(rows)
     /\ \A row, other \in rows : row[2] = other[2] => row = other
     /\ \A row \in rows : row[2] \notin unlabeled
     /\ \A row \in rows : InRange(row, sync[s].start, sync[s].end)

\* The checks are recorded and the batch ends; an error on the way, or in
\* recording them, fails it without an end.
CheckAndFinish(s) ==
  /\ sync[s].at = "check"
  /\ \/ FinishBatch(s, IF Quality(s) THEN "SUCCEEDED" ELSE "FAILED", sync[s].end)
     \/ FinishBatch(s, "FAILED", <<>>)
  /\ UNCHANGED <<source, unlabeled, writing, clock, ods, late, crashed>>

\* The script dies, or loses MySQL and cannot even fail its batch.
Crash(s) ==
  /\ sync[s].at # "idle" /\ Cardinality(crashed) < MaxCrashes
  /\ crashed' = crashed \cup ({sync[s].batch} \ {0})
  /\ sync' = [sync EXCEPT ![s] = NoScript]
  /\ UNCHANGED <<source, unlabeled, writing, clock, batches, ods, late>>

-----------------------------------------------------------------------------

SyncStep(s) == FreezeEnd(s) \/ CreateBatch(s) \/ FetchRows(s) \/ WriteHive(s) \/ CheckAndFinish(s)

Next ==
  \/ \E i \in Ids : StartWrite(i) \/ CommitWrite(i)
  \/ \E s \in Syncs : ReadStart(s) \/ SyncStep(s) \/ Crash(s)

Spec == Init /\ [][Next]_vars

-----------------------------------------------------------------------------
(* Properties.                                                              *)

TypeOK ==
  /\ source \in [Ids -> Stamps] /\ writing \in [Ids -> Stamps] /\ clock \in Stamps
  /\ unlabeled \subseteq Ids
  /\ batches \in Seq(Batch) /\ ods \subseteq Exports /\ late \subseteq Pairs
  /\ sync \in [Syncs -> SyncState] /\ crashed \subseteq Nat

Running(k) == k \in DOMAIN batches /\ batches[k].status = "RUNNING"

Copy(k, row) == [batch |-> k, id |-> row[2], at |-> row[1]]

\* The incremental copy loses nothing: the current version of every row at
\* or below the watermark the next run will start from is in Hive under a
\* batch that succeeded, unless it was committed with an old stamp after a
\* batch had read past it.  Failed batches, overlapping scripts and
\* scripts that died never move the watermark over a row.
NothingSkipped ==
  LatestWatermark # <<>> =>
    \A row \in Committed :
      UpTo(row, LatestWatermark) =>
        row \in late \/ \E k \in Succeeded : Copy(k, row) \in ods

\* A batch reported SUCCEEDED holds each id once, only rows between its
\* marks, and no row without an origin.
SucceededIsClean ==
  \A k \in Succeeded :
    LET copies == {copy \in ods : copy.batch = k}
    IN /\ \A one, other \in copies : one.id = other.id => one = other
       /\ \A copy \in copies : /\ InRange(<<copy.at, copy.id>>, batches[k].start, batches[k].end)
                               /\ copy.id \notin unlabeled

=============================================================================
