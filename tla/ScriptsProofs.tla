--------------------------- MODULE ScriptsProofs ----------------------------
(***************************************************************************)
(* Proofs about the scripts an operator runs: the incremental copy into    *)
(* Hive (OdsSync) and the evaluation harness (EvaluationRun).              *)
(*                                                                         *)
(* OdsSync.  The watermark of the incremental copy never passes a row that *)
(* was not copied, and a succeeded batch is clean: for any number of rows, *)
(* stamps, batches, overlapping scripts and scripts that die.              *)
(*                                                                         *)
(* Neither property is inductive.  A batch is known to be complete only    *)
(* with the one it started from, so the invariant says of every script     *)
(* that its start is the end of a succeeded batch, that its batch is its   *)
(* own and still RUNNING, which rows it has read and which of them are in  *)
(* Hive; and of every succeeded batch that all rows up to its end are      *)
(* copied, not only those of its own range.                                *)
(*                                                                         *)
(* EvaluationRun.  What a final seal certifies depends on what the command *)
(* that wrote it did, so the invariant follows the running command file by *)
(* file (ProgressInv), says that a record and its report never change once *)
(* they are on disk (RecordInv), that the folder of the second attempt     *)
(* comes before its payment (AttemptInv) and that nothing was ever paid    *)
(* for in the folder of a blocked run (BlockedInv).                        *)
(***************************************************************************)
EXTENDS OdsSync, EvaluationRun, TLAPS, WellFoundedInduction

Busy == {"fetch", "write", "check"}

\* Every row up to a mark is in Hive, or was committed too late.
Covered(mark) ==
  \A row \in Committed :
    UpTo(row, mark) => row \in late \/ \E k \in Succeeded : Copy(k, row) \in ods

Clean(k) ==
  /\ \A one, other \in ods : one.batch = k /\ other.batch = k /\ one.id = other.id => one = other
  /\ \A copy \in ods : copy.batch = k =>
       /\ InRange(<<copy.at, copy.id>>, batches[k].start, batches[k].end)
       /\ copy.id \notin unlabeled

ScriptInv(s) ==
  /\ sync[s].at \in Busy =>
       /\ sync[s].batch \in DOMAIN batches /\ batches[sync[s].batch].status = "RUNNING"
       /\ batches[sync[s].batch].start = sync[s].start /\ batches[sync[s].batch].end = sync[s].end
       /\ \A copy \in ods : copy.batch = sync[s].batch =>
            sync[s].at = "check" /\ <<copy.at, copy.id>> \in sync[s].rows
  /\ sync[s].start # <<>> => \E k \in Succeeded : batches[k].end = sync[s].start
  /\ sync[s].at \in {"write", "check"} /\ sync[s].end # <<>> =>
       \A row \in Committed :
         InRange(row, sync[s].start, sync[s].end) => row \in sync[s].rows \cup late
  /\ sync[s].at = "check" => \A row \in sync[s].rows : Copy(sync[s].batch, row) \in ods

OwnBatches ==
  \A s, t \in Syncs :
    sync[s].at \in Busy /\ sync[t].at \in Busy /\ sync[s].batch = sync[t].batch => s = t

OdsInv == \A copy \in ods : copy.batch \in DOMAIN batches

IInv ==
  /\ TypeOK
  /\ OwnBatches /\ OdsInv
  /\ \A s \in Syncs : ScriptInv(s)
  /\ \A k \in Succeeded : Covered(batches[k].end) /\ Clean(k)

-----------------------------------------------------------------------------
(* The watermark is the end of a succeeded batch.                           *)

LEMMA LargestOf ==
  ASSUME NEW n \in Nat, NEW S, S \subseteq 1..n, S # {}
  PROVE  \E k \in S : \A j \in S : j <= k
<1> DEFINE T == {n - k : k \in S}
<1>1. T \subseteq Nat /\ T # {}
  <2>1. \A k \in S : n - k \in Nat /\ n - k \in T
    OBVIOUS
  <2> QED BY <2>1
<1>2. PICK x \in T : \A y \in T : <<y, x>> \notin OpToRel(<, Nat)
  BY <1>1, NatLessThanWellFounded, WFMin
<1>3. \A y \in T : ~(y < x)
  BY <1>1, <1>2 DEF OpToRel
<1>4. PICK k \in S : x = n - k
  OBVIOUS
<1>5. \A j \in S : j <= k
  <2>1. \A j \in S : n - j \in T /\ j \in 1..n
    OBVIOUS
  <2> QED BY <1>3, <1>4, <2>1
<1> QED BY <1>5

LEMMA WatermarkIsAnEnd ==
  ASSUME TypeOK
  PROVE  /\ LatestWatermark \in Marks
         /\ LatestWatermark # <<>> => \E k \in Succeeded : batches[k].end = LatestWatermark
<1>1. CASE Succeeded = {}
  BY <1>1 DEF LatestWatermark, Marks
<1>2. CASE Succeeded # {}
  <2>1. Len(batches) \in Nat /\ Succeeded \subseteq 1..Len(batches)
    BY DEF TypeOK, Succeeded
  <2>2. \E k \in Succeeded : \A j \in Succeeded : j <= k
    BY <1>2, <2>1, LargestOf
  <2>3. PICK k \in Succeeded : LatestWatermark = batches[k].end
    BY <1>2, <2>2 DEF LatestWatermark
  <2>4. batches[k] \in Batch
    BY <2>3 DEF TypeOK, Succeeded
  <2> QED BY <2>3, <2>4 DEF Batch
<1> QED BY <1>1, <1>2

LEMMA CommittedPairs == TypeOK => Committed \subseteq Pairs
  BY DEF TypeOK, Committed, Pairs

LEMMA InitIInv == Init => IInv
<1> SUFFICES ASSUME Init PROVE IInv
  OBVIOUS
<1>1. \A s \in Syncs : sync[s] = NoScript
  BY DEF Init
<1>2. NoScript \in SyncState
  BY DEF NoScript, SyncState, Marks, Pairs
<1>3. TypeOK
  BY <1>2, OdsAssumption DEF Init, TypeOK, Stamps
<1>4. Succeeded = {}
  BY DEF Init, Succeeded
<1>5. \A s \in Syncs : sync[s].at = "idle" /\ sync[s].start = <<>>
  BY <1>1 DEF NoScript
<1> QED BY <1>3, <1>4, <1>5 DEF IInv, OwnBatches, OdsInv, ScriptInv, Busy, Init

-----------------------------------------------------------------------------
(* Steps that leave batches and Hive alone.                                 *)

LEMMA StartWriteStep == ASSUME IInv, NEW i \in Ids, StartWrite(i) PROVE IInv'
<1>1. UNCHANGED <<source, unlabeled, batches, ods, sync, late, crashed>>
  BY DEF StartWrite
<1>2. TypeOK'
  <2>1. clock' \in Stamps
    BY OdsAssumption DEF IInv, TypeOK, StartWrite, Stamps
  <2> QED BY <1>1, <2>1 DEF IInv, TypeOK, StartWrite
<1>3. UNCHANGED <<Committed, Succeeded>>
  BY <1>1 DEF Committed, Succeeded
<1> QED BY <1>1, <1>2, <1>3 DEF IInv, OwnBatches, OdsInv, ScriptInv, Covered, Clean

\* A new version behind the end of a batch that has read is late, any other
\* is beyond all those ends.
LEMMA CommitWriteStep == ASSUME IInv, NEW i \in Ids, CommitWrite(i) PROVE IInv'
<1> DEFINE new == <<writing[i], i>>
<1>1. UNCHANGED <<unlabeled, clock, batches, ods, sync, crashed>> /\ UNCHANGED Succeeded
  BY DEF CommitWrite, Succeeded
<1>2. /\ new \in Pairs /\ late \subseteq late' /\ late' \subseteq late \cup {new}
      /\ \A end \in ReadEnds : end # <<>> /\ UpTo(new, end) => new \in late'
  BY DEF IInv, TypeOK, CommitWrite, Pairs
<1>3. TypeOK'
  <2>1. writing[i] \in Stamps /\ 0 \in Stamps
    BY OdsAssumption DEF IInv, TypeOK, Stamps
  <2>2. source' \in [Ids -> Stamps] /\ writing' \in [Ids -> Stamps]
    BY <2>1 DEF IInv, TypeOK, CommitWrite
  <2> QED BY <1>1, <1>2, <2>2 DEF IInv, TypeOK
<1>4. \A row \in Committed' : row \in Committed \/ row = new
  <2>1. SUFFICES ASSUME NEW j \in Ids, source'[j] > 0
                 PROVE  <<source'[j], j>> \in Committed \/ <<source'[j], j>> = new
    BY DEF Committed
  <2>2. CASE j = i
    BY <2>2 DEF IInv, TypeOK, CommitWrite
  <2>3. CASE j # i
    BY <2>1, <2>3 DEF IInv, TypeOK, CommitWrite, Committed
  <2> QED BY <2>2, <2>3
<1>5. \A k \in Succeeded : Covered(batches[k].end)'
  <2> SUFFICES ASSUME NEW k \in Succeeded, NEW row \in Committed', UpTo(row, batches[k].end)
               PROVE  row \in late' \/ \E j \in Succeeded : Copy(j, row) \in ods
    BY <1>1 DEF Covered, UpTo, After, Copy
  <2>1. batches[k].end \in ReadEnds /\ batches[k].end # <<>>
    BY DEF ReadEnds, Succeeded
  <2>2. Covered(batches[k].end)
    BY DEF IInv
  <2> QED BY <1>2, <1>4, <2>1, <2>2 DEF Covered
<1>6. ASSUME NEW s \in Syncs PROVE ScriptInv(s)'
  <2>1. ScriptInv(s)
    BY DEF IInv
  <2>2. ASSUME sync[s].at \in {"write", "check"}, sync[s].end # <<>>, NEW row \in Committed',
               InRange(row, sync[s].start, sync[s].end)
        PROVE  row \in sync[s].rows \cup late'
    <3>1. sync[s].end \in ReadEnds /\ UpTo(row, sync[s].end)
      BY <2>2 DEF ReadEnds, InRange
    <3> QED BY <1>2, <1>4, <2>1, <2>2, <3>1 DEF ScriptInv
  <2>3. \A row : Copy(sync[s].batch, row)' = Copy(sync[s].batch, row)
    BY <1>1 DEF Copy
  <2> QED BY <1>1, <2>1, <2>2, <2>3 DEF ScriptInv, InRange, UpTo, After
<1> QED BY <1>1, <1>3, <1>5, <1>6 DEF IInv, OwnBatches, OdsInv, Clean

\* A script that starts, or freezes its end, has read nothing yet.
LEMMA ReadStartStep == ASSUME IInv, NEW s \in Syncs, ReadStart(s) PROVE IInv'
<1> DEFINE fresh == [NoScript EXCEPT !.at = "end", !.start = LatestWatermark]
<1>1. UNCHANGED <<source, unlabeled, writing, clock, batches, ods, late, crashed>>
  BY DEF ReadStart
<1>2. UNCHANGED <<Committed, Succeeded>>
  BY <1>1 DEF Committed, Succeeded
<1>3. fresh = [NoScript EXCEPT !.at = "end", !.start = LatestWatermark]
  OBVIOUS
<1>4. fresh.at = "end" /\ fresh.start = LatestWatermark /\ fresh \in SyncState
  BY WatermarkIsAnEnd DEF IInv, NoScript, SyncState, Marks
<1>5. sync' = [sync EXCEPT ![s] = fresh] /\ sync \in [Syncs -> SyncState]
  BY DEF ReadStart, IInv, TypeOK
<1> HIDE DEF fresh
<1>6. TypeOK'
  BY <1>1, <1>4, <1>5 DEF IInv, TypeOK
<1>7. ScriptInv(s)'
  BY <1>1, <1>2, <1>4, <1>5, WatermarkIsAnEnd DEF IInv, ScriptInv, Busy
<1>8. ASSUME NEW t \in Syncs \ {s} PROVE ScriptInv(t)'
  <2>1. ScriptInv(t) /\ sync'[t] = sync[t]
    BY <1>5 DEF IInv
  <2> QED BY <1>1, <1>2, <2>1 DEF ScriptInv
<1>9. \A k \in Succeeded : (Covered(batches[k].end) /\ Clean(k))'
  BY <1>1, <1>2 DEF IInv, Covered, Clean
<1>10. OwnBatches' /\ OdsInv'
  BY <1>1, <1>4, <1>5 DEF IInv, OwnBatches, OdsInv, Busy
<1> QED BY <1>2, <1>6, <1>7, <1>8, <1>9, <1>10 DEF IInv

LEMMA FreezeEndStep == ASSUME IInv, NEW s \in Syncs, FreezeEnd(s) PROVE IInv'
<1>1. UNCHANGED <<source, unlabeled, writing, clock, batches, ods, late, crashed>>
  BY DEF FreezeEnd
<1>2. UNCHANGED <<Committed, Succeeded>>
  BY <1>1 DEF Committed, Succeeded
<1>3. PICK end \in Marks : sync' = [sync EXCEPT ![s].at = "create", ![s].end = end]
  BY DEF FreezeEnd
<1>4. sync \in [Syncs -> SyncState]
  BY DEF IInv, TypeOK
<1>5. [sync[s] EXCEPT !.at = "create"] \in SyncState
  BY <1>4 DEF SyncState
<1>6. [[sync[s] EXCEPT !.at = "create"] EXCEPT !.end = end] \in SyncState
  BY <1>5 DEF SyncState
<1>7. sync' \in [Syncs -> SyncState]
  BY <1>3, <1>4, <1>6
<1>8. /\ sync'[s].at = "create" /\ sync'[s].start = sync[s].start
      /\ \A t \in Syncs \ {s} : sync'[t] = sync[t]
  BY <1>3, <1>4 DEF SyncState
<1>9. TypeOK'
  BY <1>1, <1>7 DEF IInv, TypeOK
<1>10. ScriptInv(s)'
  BY <1>1, <1>2, <1>8 DEF IInv, ScriptInv, Busy
<1>11. ASSUME NEW t \in Syncs \ {s} PROVE ScriptInv(t)'
  <2>1. ScriptInv(t) /\ sync'[t] = sync[t]
    BY <1>8 DEF IInv
  <2> QED BY <1>1, <1>2, <2>1 DEF ScriptInv
<1>12. \A k \in Succeeded : (Covered(batches[k].end) /\ Clean(k))'
  BY <1>1, <1>2 DEF IInv, Covered, Clean
<1>13. OwnBatches' /\ OdsInv'
  BY <1>1, <1>8 DEF IInv, OwnBatches, OdsInv, Busy
<1> QED BY <1>2, <1>9, <1>10, <1>11, <1>12, <1>13 DEF IInv

-----------------------------------------------------------------------------
(* Steps of a batch.                                                        *)

LEMMA CreateBatchStep == ASSUME IInv, NEW s \in Syncs, CreateBatch(s) PROVE IInv'
<1> DEFINE b == Len(batches) + 1
           row == [status |-> "RUNNING", start |-> sync[s].start, end |-> sync[s].end]
<1>1. UNCHANGED <<source, unlabeled, writing, clock, ods, late, crashed>>
  BY DEF CreateBatch
<1>2. /\ sync \in [Syncs -> SyncState] /\ batches \in Seq(Batch) /\ b \in Nat /\ row \in Batch
      /\ batches' = Append(batches, row) /\ sync' = [sync EXCEPT ![s].at = "fetch", ![s].batch = b]
  BY DEF IInv, TypeOK, CreateBatch, SyncState, Batch
<1> HIDE DEF row
<1>3. /\ batches' \in Seq(Batch) /\ DOMAIN batches' = DOMAIN batches \cup {b} /\ b \notin DOMAIN batches
      /\ batches'[b] = row /\ \A k \in DOMAIN batches : batches'[k] = batches[k]
  BY <1>2
<1>4. Succeeded' = Succeeded /\ Succeeded \subseteq DOMAIN batches
  BY <1>3 DEF Succeeded, row
<1>5. [[sync[s] EXCEPT !.at = "fetch"] EXCEPT !.batch = b] \in SyncState
  <2>1. [sync[s] EXCEPT !.at = "fetch"] \in SyncState
    BY <1>2 DEF SyncState
  <2> QED BY <1>2, <2>1 DEF SyncState
<1>6. sync' \in [Syncs -> SyncState]
  BY <1>2, <1>5
<1>7. /\ sync'[s].at = "fetch" /\ sync'[s].batch = b
      /\ sync'[s].start = sync[s].start /\ sync'[s].end = sync[s].end
      /\ \A t \in Syncs \ {s} : sync'[t] = sync[t]
  BY <1>2 DEF SyncState
<1>8. TypeOK'
  BY <1>1, <1>3, <1>6 DEF IInv, TypeOK
<1>9. UNCHANGED Committed
  BY <1>1 DEF Committed
<1>10. ScriptInv(s)'
  <2>1. ScriptInv(s) /\ OdsInv
    BY DEF IInv
  <2> QED BY <1>1, <1>3, <1>4, <1>7, <1>9, <2>1 DEF ScriptInv, OdsInv, row
<1>11. ASSUME NEW t \in Syncs \ {s} PROVE ScriptInv(t)'
  <2>1. ScriptInv(t) /\ sync'[t] = sync[t]
    BY <1>7 DEF IInv
  <2> QED BY <1>1, <1>3, <1>4, <1>9, <2>1 DEF ScriptInv
<1>12. OwnBatches' /\ OdsInv'
  <2>1. \A t \in Syncs : sync[t].at \in Busy => sync[t].batch # b
    BY <1>3 DEF IInv, ScriptInv
  <2> QED BY <1>1, <1>3, <1>7, <2>1 DEF IInv, OwnBatches, OdsInv
<1>13. \A k \in Succeeded : (Covered(batches[k].end) /\ Clean(k))'
  BY <1>1, <1>3, <1>4, <1>9 DEF IInv, Covered, Clean
<1> QED BY <1>4, <1>8, <1>10, <1>11, <1>12, <1>13 DEF IInv

LEMMA AppendedCopies ==
  ASSUME TypeOK, NEW s \in Syncs
  PROVE  /\ Appended(s) \subseteq Exports
         /\ \A copy \in Appended(s) : copy.batch = sync[s].batch /\ <<copy.at, copy.id>> \in sync[s].rows
         /\ \A row \in sync[s].rows : Copy(sync[s].batch, row) \in Appended(s)
<1>1. sync[s].batch \in Nat /\ sync[s].rows \subseteq Pairs
  BY DEF TypeOK, SyncState
<1>2. \A row \in Pairs : row[1] \in Stamps /\ row[2] \in Ids /\ row = <<row[1], row[2]>>
  BY DEF Pairs
<1> QED BY <1>1, <1>2 DEF Appended, Exports, Copy

\* A script that ends its batch: well only after the checks, and then the
\* rows of its own range and those up to its start make all of them.
LEMMA FinishBatchStep ==
  ASSUME IInv, NEW s \in Syncs, sync[s].at \in Busy,
         NEW status \in {"SUCCEEDED", "FAILED"}, NEW end \in {sync[s].end, <<>>},
         FinishBatch(s, status, end), UNCHANGED <<source, unlabeled, writing, clock, late, crashed>>,
         ods' \in {ods, ods \cup Appended(s)},
         status = "SUCCEEDED" => ods' = ods /\ sync[s].at = "check" /\ Quality(s) /\ end = sync[s].end
  PROVE  IInv'
<1>0. PICK b : b = sync[s].batch
  OBVIOUS
<1>1. /\ TypeOK /\ OwnBatches /\ OdsInv /\ ScriptInv(s)
      /\ sync \in [Syncs -> SyncState] /\ batches \in Seq(Batch) /\ end \in Marks
  BY DEF IInv, TypeOK, SyncState, Marks
<1>2. b \in DOMAIN batches /\ batches[b].status = "RUNNING" /\ batches[b] \in Batch /\ b \notin Succeeded
  BY <1>0, <1>1 DEF ScriptInv, Succeeded
<1>3. /\ batches' \in Seq(Batch) /\ DOMAIN batches' = DOMAIN batches
      /\ \A k \in DOMAIN batches \ {b} : batches'[k] = batches[k]
      /\ batches'[b].status = status /\ batches'[b].start = sync[s].start /\ batches'[b].end = end
  <2>1. [batches[b] EXCEPT !.status = status] \in Batch
    BY <1>2 DEF Batch
  <2>2. [[batches[b] EXCEPT !.status = status] EXCEPT !.end = end] \in Batch
    BY <1>1, <2>1 DEF Batch
  <2>3. PICK x \in Batch : x = [[batches[b] EXCEPT !.status = status] EXCEPT !.end = end]
    BY <2>2
  <2>4. x.status = status /\ x.end = end /\ x.start = batches[b].start
    BY <1>2, <2>3 DEF Batch
  <2>5. batches' = [batches EXCEPT ![b] = x]
    BY <1>0, <1>1, <1>2, <2>3 DEF FinishBatch, Batch
  <2>6. batches[b].start = sync[s].start
    BY <1>0, <1>1 DEF ScriptInv
  <2> QED BY <1>1, <1>2, <2>4, <2>5, <2>6
<1>4. sync' = [sync EXCEPT ![s] = NoScript] /\ NoScript \in SyncState
  BY DEF FinishBatch, NoScript, SyncState, Marks
<1>5. /\ ods' \subseteq Exports /\ ods \subseteq ods'
      /\ \A copy \in ods' \ ods : copy.batch = b
  BY <1>0, <1>1, AppendedCopies DEF TypeOK
<1>6. TypeOK'
  BY <1>1, <1>3, <1>4, <1>5 DEF TypeOK
<1>7. /\ Succeeded \subseteq Succeeded' /\ Succeeded' \subseteq Succeeded \cup {b}
      /\ b \in Succeeded' <=> status = "SUCCEEDED" /\ end # <<>>
      /\ \A k \in Succeeded : batches'[k] = batches[k] /\ k # b
  BY <1>2, <1>3 DEF Succeeded
<1>8. UNCHANGED Committed
  BY DEF Committed
<1>9. ScriptInv(s)'
  BY <1>1, <1>4 DEF ScriptInv, NoScript, Busy
<1>10. ASSUME NEW t \in Syncs \ {s} PROVE ScriptInv(t)'
  <2>1. ScriptInv(t) /\ sync'[t] = sync[t]
    BY <1>1, <1>4 DEF IInv
  <2>2. sync[t].at \in Busy => sync[t].batch # b
    BY <1>0, <1>1 DEF OwnBatches
  <2> QED BY <1>3, <1>5, <1>7, <1>8, <2>1, <2>2 DEF ScriptInv, Busy
<1>11. OwnBatches' /\ OdsInv'
  <2>1. OwnBatches'
    BY <1>1, <1>4 DEF OwnBatches, NoScript, Busy
  <2> QED BY <1>1, <1>2, <1>3, <1>5, <2>1 DEF OdsInv
<1>12. ASSUME NEW k \in Succeeded PROVE (Covered(batches[k].end) /\ Clean(k))'
  <2>1. Covered(batches[k].end) /\ Clean(k)
    BY DEF IInv
  <2>2. \A copy \in ods' : copy.batch = k => copy \in ods
    BY <1>5, <1>7
  <2> QED BY <1>5, <1>7, <1>8, <2>1, <2>2 DEF Covered, Clean
<1>13. ASSUME b \in Succeeded' PROVE (Covered(batches[b].end) /\ Clean(b))'
  <2>1. ods' = ods /\ sync[s].at = "check" /\ Quality(s) /\ end = sync[s].end /\ end # <<>>
    BY <1>7, <1>13
  <2>2. ASSUME NEW row \in Committed, UpTo(row, end)
        PROVE  row \in late \/ \E k \in Succeeded' : Copy(k, row) \in ods
    <3>1. CASE sync[s].start # <<>> /\ ~After(row, sync[s].start)
      <4>1. PICK k \in Succeeded : batches[k].end = sync[s].start
        BY <1>1, <3>1 DEF ScriptInv
      <4>2. Covered(batches[k].end)
        BY DEF IInv
      <4> QED BY <1>7, <3>1, <4>1, <4>2 DEF Covered, UpTo
    <3>2. CASE sync[s].start # <<>> => After(row, sync[s].start)
      <4>1. row \in sync[s].rows \cup late
        BY <1>1, <2>1, <2>2, <3>2 DEF ScriptInv, InRange
      <4>2. row \in sync[s].rows => Copy(b, row) \in ods
        BY <1>0, <1>1, <2>1 DEF ScriptInv
      <4> QED BY <1>13, <4>1, <4>2
    <3> QED BY <3>1, <3>2
  <2>3. \A copy \in ods : copy.batch = b => <<copy.at, copy.id>> \in sync[s].rows
    BY <1>0, <1>1, <2>1 DEF ScriptInv, Busy
  <2>4. Covered(batches[b].end)'
    BY <1>3, <1>8, <2>1, <2>2 DEF Covered, Copy, UpTo, After
  <2>5. Clean(b)'
    <3>1. \A copy \in ods : copy.batch = b =>
            InRange(<<copy.at, copy.id>>, sync[s].start, sync[s].end) /\ copy.id \notin unlabeled
      BY <2>1, <2>3 DEF Quality
    <3>2. ASSUME NEW one \in ods, NEW other \in ods, one.batch = b, other.batch = b, one.id = other.id
          PROVE  one = other
      <4>1. <<one.at, one.id>> = <<other.at, other.id>>
        BY <2>1, <2>3, <3>2 DEF Quality
      <4>2. one \in Exports /\ other \in Exports
        BY <1>1 DEF TypeOK
      <4> QED BY <3>2, <4>1, <4>2 DEF Exports
    <3> QED BY <1>3, <2>1, <3>1, <3>2 DEF Clean, InRange, After, UpTo
  <2> QED BY <2>4, <2>5
<1> QED BY <1>6, <1>7, <1>9, <1>10, <1>11, <1>12, <1>13 DEF IInv

\* A script's own step that ends no batch.
LEMMA OwnStep ==
  ASSUME IInv, NEW s \in Syncs, UNCHANGED <<source, unlabeled, writing, clock, batches, late>>,
         crashed' \subseteq Nat, ods \subseteq ods', ods' \subseteq Exports,
         \A copy \in ods' \ ods : sync[s].at \in Busy /\ copy.batch = sync[s].batch,
         sync' \in [Syncs -> SyncState], \A t \in Syncs \ {s} : sync'[t] = sync[t],
         sync'[s].at \in Busy => sync[s].at \in Busy /\ sync'[s].batch = sync[s].batch,
         ScriptInv(s)'
  PROVE  IInv'
<1>1. UNCHANGED <<Committed, Succeeded>>
  BY DEF Committed, Succeeded
<1>2. TypeOK'
  BY DEF IInv, TypeOK
<1>3. OwnBatches'
  BY DEF IInv, OwnBatches
<1>4. ScriptInv(s)
  BY DEF IInv
<1>5. OdsInv'
  BY <1>4 DEF IInv, OdsInv, ScriptInv
<1>6. ASSUME NEW t \in Syncs \ {s} PROVE ScriptInv(t)'
  <2>1. ScriptInv(t) /\ sync'[t] = sync[t]
    BY DEF IInv
  <2>2. ASSUME sync[t].at \in Busy, NEW copy \in ods', copy.batch = sync[t].batch
        PROVE  copy \in ods
    BY <2>2 DEF IInv, OwnBatches
  <2> QED BY <1>1, <2>1, <2>2 DEF ScriptInv, Busy
<1>7. ASSUME NEW k \in Succeeded PROVE (Covered(batches[k].end) /\ Clean(k))'
  <2>1. Covered(batches[k].end) /\ Clean(k)
    BY DEF IInv
  <2>2. \A copy \in ods' : copy.batch = k => copy \in ods
    BY <1>4 DEF ScriptInv, Succeeded
  <2> QED BY <1>1, <2>1, <2>2 DEF Covered, Clean
<1> QED BY <1>1, <1>2, <1>3, <1>5, <1>6, <1>7 DEF IInv

LEMMA FetchRowsStep == ASSUME IInv, NEW s \in Syncs, FetchRows(s) PROVE IInv'
<1> DEFINE rows == {row \in Committed : InRange(row, sync[s].start, sync[s].end)}
<1>1. sync[s].at = "fetch" /\ UNCHANGED <<source, unlabeled, writing, clock, ods, late, crashed>>
  BY DEF FetchRows
<1>2. CASE FinishBatch(s, "FAILED", sync[s].end)
  BY <1>1, <1>2, FinishBatchStep DEF Busy
<1>3. CASE sync' = [sync EXCEPT ![s].at = "write", ![s].rows = rows] /\ UNCHANGED batches
  <2>1. sync \in [Syncs -> SyncState] /\ rows \subseteq Pairs /\ ScriptInv(s)
    BY CommittedPairs DEF IInv, TypeOK
  <2>2. [[sync[s] EXCEPT !.at = "write"] EXCEPT !.rows = rows] \in SyncState
    <3>1. [sync[s] EXCEPT !.at = "write"] \in SyncState
      BY <2>1 DEF SyncState
    <3> HIDE DEF rows
    <3> QED BY <2>1, <3>1 DEF SyncState
  <2>3. sync' \in [Syncs -> SyncState]
    BY <1>3, <2>1, <2>2
  <2>4. /\ sync'[s].at = "write" /\ sync'[s].rows = rows /\ sync'[s].batch = sync[s].batch
        /\ sync'[s].start = sync[s].start /\ sync'[s].end = sync[s].end
        /\ \A t \in Syncs \ {s} : sync'[t] = sync[t]
    <3> HIDE DEF rows
    <3> QED BY <1>3, <2>1 DEF SyncState
  <2>5. UNCHANGED <<Committed, Succeeded>>
    BY <1>1, <1>3 DEF Committed, Succeeded
  <2>6. ScriptInv(s)'
    BY <1>1, <1>3, <2>1, <2>4, <2>5 DEF ScriptInv, Busy, InRange, After, UpTo
  <2> QED BY <1>1, <1>3, <2>3, <2>4, <2>6, OwnStep DEF IInv, TypeOK, Busy
<1> QED BY <1>2, <1>3 DEF FetchRows

LEMMA WriteHiveStep == ASSUME IInv, NEW s \in Syncs, WriteHive(s) PROVE IInv'
<1>1. sync[s].at = "write" /\ UNCHANGED <<source, unlabeled, writing, clock, late, crashed>>
  BY DEF WriteHive
<1>2. CASE FinishBatch(s, "FAILED", sync[s].end) /\ ods' \in {ods, ods \cup Appended(s)}
  BY <1>1, <1>2, FinishBatchStep DEF Busy
<1>3. CASE ods' = ods \cup Appended(s) /\ sync' = [sync EXCEPT ![s].at = "check"] /\ UNCHANGED batches
  <2>1. sync \in [Syncs -> SyncState] /\ ScriptInv(s) /\ TypeOK
    BY DEF IInv, TypeOK
  <2>2. [sync[s] EXCEPT !.at = "check"] \in SyncState
    BY <2>1 DEF SyncState
  <2>3. sync' \in [Syncs -> SyncState]
    BY <1>3, <2>1, <2>2
  <2>4. /\ sync'[s].at = "check" /\ sync'[s].rows = sync[s].rows /\ sync'[s].batch = sync[s].batch
        /\ sync'[s].start = sync[s].start /\ sync'[s].end = sync[s].end
        /\ \A t \in Syncs \ {s} : sync'[t] = sync[t]
    BY <1>3, <2>1 DEF SyncState
  <2>5. UNCHANGED <<Committed, Succeeded>>
    BY <1>1, <1>3 DEF Committed, Succeeded
  <2>6. /\ ods \subseteq ods' /\ ods' \subseteq Exports
        /\ \A copy \in ods' \ ods : copy.batch = sync[s].batch /\ <<copy.at, copy.id>> \in sync[s].rows
        /\ \A row \in sync[s].rows : Copy(sync[s].batch, row) \in ods'
    BY <1>3, <2>1, AppendedCopies DEF TypeOK
  <2>7. \A row : Copy(sync[s].batch, row)' = Copy(sync[s].batch, row)
    BY <2>4 DEF Copy
  <2>8. ScriptInv(s)'
    <3>1. \A copy \in ods : copy.batch # sync[s].batch
      BY <1>1, <2>1 DEF ScriptInv, Busy
    <3> QED BY <1>1, <1>3, <2>1, <2>4, <2>5, <2>6, <2>7, <3>1 DEF ScriptInv, Busy, InRange, After, UpTo
  <2> QED BY <1>1, <1>3, <2>1, <2>3, <2>4, <2>6, <2>8, OwnStep DEF TypeOK, Busy
<1> QED BY <1>2, <1>3 DEF WriteHive

LEMMA CheckAndFinishStep == ASSUME IInv, NEW s \in Syncs, CheckAndFinish(s) PROVE IInv'
<1>1. sync[s].at = "check" /\ UNCHANGED <<source, unlabeled, writing, clock, ods, late, crashed>>
  BY DEF CheckAndFinish
<1>2. CASE FinishBatch(s, "SUCCEEDED", sync[s].end) /\ Quality(s)
  BY <1>1, <1>2, FinishBatchStep DEF Busy
<1>3. CASE \E end \in {sync[s].end, <<>>} : FinishBatch(s, "FAILED", end)
  BY <1>1, <1>3, FinishBatchStep DEF Busy
<1> QED BY <1>2, <1>3 DEF CheckAndFinish

LEMMA CrashStep == ASSUME IInv, NEW s \in Syncs, Crash(s) PROVE IInv'
<1>1. UNCHANGED <<source, unlabeled, writing, clock, batches, ods, late>>
  BY DEF Crash
<1>2. /\ sync \in [Syncs -> SyncState] /\ sync' = [sync EXCEPT ![s] = NoScript] /\ NoScript \in SyncState
      /\ NoScript.at = "idle" /\ NoScript.start = <<>>
  BY DEF IInv, TypeOK, Crash, NoScript, SyncState, Marks
<1>3. sync' \in [Syncs -> SyncState] /\ sync'[s] = NoScript /\ \A t \in Syncs \ {s} : sync'[t] = sync[t]
  BY <1>2
<1>4. crashed' \subseteq Nat
  BY <1>2 DEF IInv, TypeOK, Crash, SyncState
<1>5. ScriptInv(s)'
  BY <1>2, <1>3 DEF ScriptInv, Busy
<1> QED BY <1>1, <1>2, <1>3, <1>4, <1>5, OwnStep DEF IInv, TypeOK, Busy

LEMMA NextIInv == IInv /\ [Next]_vars => IInv'
<1> SUFFICES ASSUME IInv, [Next]_vars PROVE IInv'
  OBVIOUS
<1>1. CASE UNCHANGED vars
  <2>1. UNCHANGED <<Committed, Succeeded>>
    BY <1>1 DEF vars, Committed, Succeeded
  <2> QED BY <1>1, <2>1 DEF vars, IInv, TypeOK, OwnBatches, OdsInv, ScriptInv, Covered, Clean
<1>2. ASSUME NEW s \in Syncs, SyncStep(s) PROVE IInv'
  BY <1>2, FreezeEndStep, CreateBatchStep, FetchRowsStep, WriteHiveStep, CheckAndFinishStep DEF SyncStep
<1> QED BY <1>1, <1>2, StartWriteStep, CommitWriteStep, ReadStartStep, CrashStep DEF Next

-----------------------------------------------------------------------------
\* The invariant holds of every reachable state.
THEOREM Invariance == Spec => []IInv
BY InitIInv, NextIInv, PTL DEF Spec

\* Every reachable state of table, batches, exports and scripts is typed.
THEOREM TypeCorrect == Spec => []TypeOK
<1>1. IInv => TypeOK
  BY DEF IInv
<1> QED BY <1>1, Invariance, PTL

\* The watermark the next run starts from never passes a row that is not in
\* Hive, except one committed behind a batch that had already read: however
\* scripts overlap, fail and die.
THEOREM WatermarkSound == Spec => []NothingSkipped
<1>1. IInv => NothingSkipped
  <2> SUFFICES ASSUME IInv, LatestWatermark # <<>> PROVE Covered(LatestWatermark)
    BY DEF NothingSkipped, Covered
  <2>1. PICK k \in Succeeded : batches[k].end = LatestWatermark
    BY WatermarkIsAnEnd DEF IInv
  <2> QED BY <2>1 DEF IInv
<1> QED BY <1>1, Invariance, PTL

\* What a succeeded batch has in Hive is each id once, in its range, with an
\* origin, although other scripts append to the same table.
THEOREM SucceededBatchesClean == Spec => []SucceededIsClean
<1>1. IInv => SucceededIsClean
  BY DEF IInv, SucceededIsClean, Clean
<1> QED BY <1>1, Invariance, PTL

-----------------------------------------------------------------------------
(* EvaluationRun: the invariant of a run folder.                             *)

(* The attempt's folder is made before the jobs are paid for, and no script  *)
(* starts twice in it.                                                       *)
AttemptInv ==
  /\ paid["v2"] <= 1
  /\ AttemptV2("folder") \notin disk => paid["v2"] = 0
  /\ script = "v2" => AttemptV2("folder") \in disk
  /\ script = "v2" /\ at = 0 => paid["v2"] = 0

(* What the running command has done so far.                                 *)
ProgressInv ==
  /\ at = 0 => script \in Judging
  /\ script \in Judging => GenerationSeal \in disk
  /\ cli # None => GenerationSeal \in disk
  /\ script \in Judging /\ at >= 1 =>
       /\ answers # None
       /\ \A i \in DOMAIN Script[script] : i < at => Script[script][i] \in disk
  /\ script \in Judging /\ at > 2 => raw[script] = answers
  /\ script \in Judging /\ at > 4 => report[script] = NormalizeJudgeResults(answers)
  /\ script = "failed" /\ at > 2 => Run("unsealed-failure") \in disk

(* A record of a script is on disk and can no longer change; a report is the *)
(* one its recorded answers give.                                            *)
RecordInv ==
  \A s \in Judging :
    /\ raw[s] # None => Script[s][2] \in disk
    /\ report[s] # None => raw[s] # None /\ report[s] = NormalizeJudgeResults(raw[s])

Whole(s) ==
  /\ {Script[s][i] : i \in DOMAIN Script[s]} \cup {GenerationSeal} \subseteq sealed[Seal[s]]
  /\ raw[s] # None /\ report[s] = NormalizeJudgeResults(raw[s])

SealInv ==
  \A s \in Judging :
    Seal[s] \in disk /\ Run("unsealed-failure") \notin sealed[Seal[s]] => Whole(s)

(* Nothing was paid for in a folder that is new, or that of a blocked run.   *)
Untouched ==
  /\ script \in {"idle", "blocked"} /\ cli = None
  /\ qwen = 0 /\ paid = [s \in Judging |-> 0]
  /\ \A f \in disk : f[1] = "run"

BlockedInv ==
  /\ disk = {} \/ script = "blocked" \/ Seal["blocked"] \in disk => Untouched
  /\ Seal["blocked"] \in disk => script = "idle"

FolderInv ==
  EvaluationTypes /\ AttemptInv /\ ProgressInv /\ RecordInv /\ SealInv /\ BlockedInv

----------------------------------------------------------------------------
(* The names of the scripts, and of those that end in a seal.                *)
Scripts == {"blocked", "generate", "evaluate", "failed", "resume", "v2"}
Sealing == Scripts \ {"generate"}

LEMMA ScriptNames == DOMAIN Script = Scripts /\ DOMAIN Seal = Sealing
BY DEF Script, Seal, Scripts, Sealing

LEMMA ScriptLengths ==
  /\ \A s \in Scripts : Len(Script[s]) \in Nat /\ DOMAIN Script[s] = 1..Len(Script[s])
  /\ \A s \in Judging : Len(Script[s]) >= 5
  /\ Len(Script["failed"]) = 3 /\ Len(Script["generate"]) = 4
BY DEF Script, Scripts, Judging

(* A file of a script is neither a seal nor the folder of the attempt.       *)
LEMMA ScriptFiles ==
  ASSUME NEW s \in Scripts, NEW i \in DOMAIN Script[s]
  PROVE  /\ Script[s][i] \in Files
         /\ Script[s][i] \notin Seals /\ Script[s][i] # AttemptV2("folder")
         /\ s = "blocked" => Script[s][i][1] = "run"
<1>1. Script[s][i] \in Files
  <2>1. Script[s][i] \in {Script[s][j] : j \in DOMAIN Script[s]}
    OBVIOUS
  <2> QED BY <2>1, ScriptNames DEF Files
<1>2. CASE s = "blocked"
  BY <1>1, <1>2 DEF Script, Seals, Seal, GenerationSeal, PostsummarySeal, Run, Generation, AttemptV2
<1>3. CASE s = "generate"
  BY <1>1, <1>3 DEF Script, Seals, Seal, GenerationSeal, PostsummarySeal, Run, Generation, AttemptV2
<1>4. CASE s = "evaluate"
  BY <1>1, <1>4 DEF Script, Seals, Seal, GenerationSeal, PostsummarySeal, Run, Generation, AttemptV2, Evaluation
<1>5. CASE s = "failed"
  BY <1>1, <1>5 DEF Script, Seals, Seal, GenerationSeal, PostsummarySeal, Run, Generation, AttemptV2
<1>6. CASE s = "resume"
  BY <1>1, <1>6 DEF Script, Seals, Seal, GenerationSeal, PostsummarySeal, Run, Generation, AttemptV2, Evaluation
<1>7. CASE s = "v2"
  BY <1>1, <1>7 DEF Script, Seals, Seal, GenerationSeal, PostsummarySeal, Run, Generation, AttemptV2
<1> QED BY <1>2, <1>3, <1>4, <1>5, <1>6, <1>7 DEF Scripts

LEMMA SealNames ==
  /\ Seals \subseteq Files /\ {GenerationSeal, PostsummarySeal} \subseteq Seals
  /\ \A s \in Sealing : Seal[s] \in Seals /\ Seal[s] # GenerationSeal /\ Seal[s] # PostsummarySeal
                        /\ Seal[s][1] = "run"
  /\ \A s, t \in Judging : Seal[s] = Seal[t] => s = t
  /\ \A s \in Judging : Seal[s] # Seal["blocked"]
  /\ Seal["failed"] = Seal["evaluate"]
  /\ GenerationSeal[1] # "run" /\ PostsummarySeal[1] = "run"
  /\ AttemptV2("folder") \notin Seals
<1>1. Seals = {Run("sha256sums"), Run("run-seal"), Run("resume-final-seal"),
               Run("resume-v2-final-seal"), GenerationSeal, PostsummarySeal}
  BY DEF Seals, Seal
<1>2. /\ Seal["blocked"] = Run("sha256sums") /\ Seal["evaluate"] = Run("run-seal")
      /\ Seal["failed"] = Run("run-seal") /\ Seal["resume"] = Run("resume-final-seal")
      /\ Seal["v2"] = Run("resume-v2-final-seal")
  BY DEF Seal
<1>3. Seals \subseteq Files
  BY DEF Files
<1> USE DEF GenerationSeal, PostsummarySeal, Run, Generation, AttemptV2
<1>4. {GenerationSeal, PostsummarySeal} \subseteq Seals
  BY <1>1
<1>5. \A s \in Sealing : Seal[s] \in Seals /\ Seal[s] # GenerationSeal /\ Seal[s] # PostsummarySeal
                        /\ Seal[s][1] = "run"
  <2> SUFFICES ASSUME NEW s \in Sealing
               PROVE  Seal[s] \in Seals /\ Seal[s] # GenerationSeal /\ Seal[s] # PostsummarySeal
                        /\ Seal[s][1] = "run"
    OBVIOUS
  <2>1. s \in {"blocked", "evaluate", "failed", "resume", "v2"}
    BY DEF Sealing, Scripts
  <2> QED BY <1>1, <1>2, <2>1
<1>6. \A s, t \in Judging : Seal[s] = Seal[t] => s = t
  BY <1>2 DEF Judging
<1>7. \A s \in Judging : Seal[s] # Seal["blocked"]
  BY <1>2 DEF Judging
<1>8. GenerationSeal[1] # "run" /\ PostsummarySeal[1] = "run" /\ AttemptV2("folder") \notin Seals
  BY <1>1
<1> QED BY <1>2, <1>3, <1>4, <1>5, <1>6, <1>7, <1>8

----------------------------------------------------------------------------
(* What a step keeps of the invariant when it leaves the records alone.      *)

LEMMA RecordsKept ==
  ASSUME RecordInv, UNCHANGED <<raw, report>>, disk \subseteq disk'
  PROVE  RecordInv'
BY DEF RecordInv

LEMMA SealsKept ==
  ASSUME SealInv, UNCHANGED <<raw, report>>,
         \A s \in Judging : /\ Seal[s] \in disk' => Seal[s] \in disk
                           /\ sealed'[Seal[s]] = sealed[Seal[s]]
  PROVE  SealInv'
<1> SUFFICES ASSUME NEW s \in Judging, Seal[s] \in disk',
                    Run("unsealed-failure") \notin sealed'[Seal[s]]
             PROVE  Whole(s)'
  BY DEF SealInv
<1>1. Whole(s)
  BY DEF SealInv
<1> QED BY <1>1 DEF Whole

(* A command that is paid for runs in a folder that is not a blocked run's.  *)
LEMMA PaidFolder ==
  ASSUME BlockedInv, script \notin {"idle", "blocked"}
  PROVE  disk # {} /\ Seal["blocked"] \notin disk
BY DEF BlockedInv, Untouched

LEMMA PaidSource ==
  ASSUME BlockedInv, disk # {}, GenerationSeal \in disk
  PROVE  Seal["blocked"] \notin disk
BY SealNames DEF BlockedInv, Untouched

(* A step of such a command: it goes on, or to the failure files, or ends.   *)
LEMMA StaysPaid ==
  ASSUME script' # "blocked", disk' # {}, Seal["blocked"] \notin disk'
  PROVE  BlockedInv'
BY DEF BlockedInv

LEMMA StopPlace ==
  ASSUME Stop
  PROVE  /\ script' = "idle" /\ at' = 1 /\ script' \in DOMAIN Script \cup {"idle"} /\ at' \in Nat
         /\ script' \notin DOMAIN Script
BY ScriptNames DEF Stop, Goto, Scripts

LEMMA FailPlace ==
  ASSUME FailRun
  PROVE  /\ script' = "failed" /\ at' \in {1, 2} /\ script' \in DOMAIN Script \cup {"idle"}
         /\ at' \in Nat /\ at' <= Len(Script[script']) + 1
BY ScriptNames, ScriptLengths DEF FailRun, Goto, Scripts

LEMMA InitFolder == EvaluationInit => FolderInv
<1> SUFFICES ASSUME EvaluationInit PROVE FolderInv
  OBVIOUS
<1>1. EvaluationTypes
  BY ScriptNames, EvaluationRunAssumption DEF EvaluationInit, EvaluationTypes, Scripts
<1>2. AttemptInv
  BY DEF EvaluationInit, AttemptInv, Judging
<1>3. ProgressInv
  BY DEF EvaluationInit, ProgressInv, Judging
<1>4. RecordInv /\ SealInv
  BY DEF EvaluationInit, RecordInv, SealInv
<1>5. BlockedInv
  BY DEF EvaluationInit, BlockedInv, Untouched
<1> QED BY <1>1, <1>2, <1>3, <1>4, <1>5 DEF FolderInv

----------------------------------------------------------------------------
(* Commands of the operator.                                                 *)

LEMMA CreateBlockedRunKeeps == FolderInv /\ CreateBlockedRun => FolderInv'
<1> SUFFICES ASSUME FolderInv, CreateBlockedRun PROVE FolderInv'
  OBVIOUS
<1>1. EvaluationTypes /\ AttemptInv /\ ProgressInv /\ RecordInv /\ SealInv /\ BlockedInv
  BY DEF FolderInv
<1>2. script' = "blocked" /\ at' = 1 /\ UNCHANGED <<disk, sealed, answers, cli, raw, report, paid, qwen>>
  BY DEF CreateBlockedRun, Command, Goto
<1>3. EvaluationTypes'
  <2>1. commands' \in 0..MaxCommands /\ UNCHANGED <<executor, deaths>>
    BY <1>1, EvaluationRunAssumption DEF CreateBlockedRun, Command, EvaluationTypes
  <2>2. 1 <= Len(Script["blocked"]) + 1 /\ "blocked" \in DOMAIN Script
    BY ScriptLengths, ScriptNames DEF Scripts
  <2> QED BY <1>1, <1>2, <2>1, <2>2 DEF EvaluationTypes
<1>4. AttemptInv' /\ ProgressInv'
  BY <1>1, <1>2 DEF AttemptInv, ProgressInv, Judging
<1>5. RecordInv' /\ SealInv'
  BY <1>1, <1>2, RecordsKept, SealsKept
<1>6. BlockedInv'
  <2>1. disk = {} BY DEF CreateBlockedRun
  <2> QED BY <1>1, <1>2, <2>1 DEF BlockedInv, Untouched
<1> QED BY <1>3, <1>4, <1>5, <1>6 DEF FolderInv

LEMMA ExecuteRound17cKeeps == FolderInv /\ ExecuteRound17c => FolderInv'
<1> SUFFICES ASSUME FolderInv, ExecuteRound17c PROVE FolderInv'
  OBVIOUS
<1>1. EvaluationTypes /\ AttemptInv /\ ProgressInv /\ RecordInv /\ SealInv /\ BlockedInv
  BY DEF FolderInv
<1>2. /\ script' = "generate" /\ at' = 1 /\ UNCHANGED <<sealed, answers, cli, raw, report, paid, qwen>>
      /\ disk = {} /\ disk' = {Generation("brief")}
  BY DEF ExecuteRound17c, Command, Goto
<1>3. /\ Generation("brief") \in Files /\ Generation("brief") \notin Seals
      /\ Generation("brief") # AttemptV2("folder")
  <2>1. Generation("brief") \in Files
    BY DEF Files
  <2> QED BY <2>1 DEF Seals, Seal, GenerationSeal, PostsummarySeal, Generation, Run, AttemptV2
<1>4. EvaluationTypes'
  <2>1. commands' \in 0..MaxCommands /\ UNCHANGED <<executor, deaths>>
    BY <1>1, EvaluationRunAssumption DEF ExecuteRound17c, Command, EvaluationTypes
  <2>2. 1 <= Len(Script["generate"]) + 1 /\ "generate" \in DOMAIN Script
    BY ScriptLengths, ScriptNames DEF Scripts
  <2>3. sealed \in [Seals -> SUBSET disk']
    BY <1>1, <1>2 DEF EvaluationTypes
  <2> QED BY <1>1, <1>2, <1>3, <2>1, <2>2, <2>3 DEF EvaluationTypes
<1>5. AttemptInv' /\ ProgressInv'
  <2>1. cli = None
    BY <1>1, <1>2 DEF BlockedInv, Untouched
  <2> QED BY <1>1, <1>2, <1>3, <2>1 DEF AttemptInv, ProgressInv, Judging
<1>6. RecordInv' /\ SealInv'
  <2>1. \A s \in Judging : Seal[s] \in Seals
    BY SealNames DEF Judging, Sealing, Scripts
  <2> QED BY <1>1, <1>2, <1>3, <2>1, RecordsKept, SealsKept
<1>7. BlockedInv'
  <2>1. Seal["blocked"] \in Seals
    BY SealNames DEF Sealing, Scripts
  <2> QED BY <1>2, <1>3, <2>1 DEF BlockedInv
<1> QED BY <1>4, <1>5, <1>6, <1>7 DEF FolderInv

(* What a later command finds: a sealed generation.                          *)
LEMMA StartsJudging ==
  ASSUME FolderInv, Command, GenerationSeal \in disk, NEW s \in {"resume", "v2"},
         script' = s, at' \in {0, 1}, cli' = cli, answers' \in Answers \cup {None},
         at' = 1 => answers' # None,
         disk' \in {disk, disk \cup {AttemptV2("folder")}},
         s = "v2" => AttemptV2("folder") \in disk' /\ paid["v2"] = 0
  PROVE  FolderInv'
<1>1. EvaluationTypes /\ AttemptInv /\ ProgressInv /\ RecordInv /\ SealInv /\ BlockedInv
  BY DEF FolderInv
<1>2. UNCHANGED <<sealed, raw, report, paid, qwen>> /\ disk \subseteq disk'
  BY DEF Command
<1>3. EvaluationTypes'
  <2>1. commands' \in 0..MaxCommands /\ UNCHANGED <<executor, deaths>>
    BY <1>1, EvaluationRunAssumption DEF Command, EvaluationTypes
  <2>2. s \in DOMAIN Script /\ at' <= Len(Script[s]) + 1
    BY ScriptLengths, ScriptNames DEF Scripts
  <2>3. AttemptV2("folder") \in Files
    BY DEF Files
  <2>4. disk' \subseteq Files /\ sealed \in [Seals -> SUBSET disk']
    BY <1>1, <2>3 DEF EvaluationTypes
  <2> QED BY <1>1, <1>2, <2>1, <2>2, <2>4 DEF EvaluationTypes
<1>4. AttemptInv'
  BY <1>1, <1>2 DEF AttemptInv
<1>5. ProgressInv'
  <2>1. s \in Judging /\ s # "failed" /\ ~(at' > 2) /\ ~(at' > 4) /\ (at' >= 1 => at' = 1)
    BY DEF Judging
  <2>2. \A i \in DOMAIN Script[s] : ~(i < 1)
    BY ScriptLengths, <2>1 DEF Judging, Scripts
  <2> QED BY <1>1, <1>2, <2>1, <2>2 DEF ProgressInv
<1>6. RecordInv' /\ SealInv'
  <2>1. \A t \in Judging : Seal[t] \in Seals
    BY SealNames DEF Judging, Sealing, Scripts
  <2> QED BY <1>1, <1>2, <2>1, SealNames, RecordsKept, SealsKept
<1>7. BlockedInv'
  <2>1. Seal["blocked"] \notin disk
    BY <1>1, PaidSource
  <2>2. Seal["blocked"] \in Seals
    BY SealNames DEF Sealing, Scripts
  <2> QED BY <2>1, <2>2, SealNames DEF BlockedInv
<1> QED BY <1>3, <1>4, <1>5, <1>6, <1>7 DEF FolderInv

LEMMA ResumeKeeps == FolderInv /\ Resume => FolderInv'
<1> SUFFICES ASSUME FolderInv, Resume PROVE FolderInv'
  OBVIOUS
<1>1. /\ Command /\ GenerationSeal \in disk /\ script' = "resume" /\ at' = 0
      /\ UNCHANGED <<disk, answers, cli>>
  BY DEF Resume, GenerationSealed, Goto
<1>2. answers \in Answers \cup {None}
  BY DEF FolderInv, EvaluationTypes
<1> QED BY <1>1, <1>2, StartsJudging

LEMMA FinalizeExistingKeeps == FolderInv /\ FinalizeExisting => FolderInv'
<1> SUFFICES ASSUME FolderInv, FinalizeExisting PROVE FolderInv'
  OBVIOUS
<1>1. /\ Command /\ cli # None /\ script' = "resume" /\ at' = 1
      /\ answers' = cli /\ UNCHANGED <<disk, cli>>
  BY DEF FinalizeExisting, Goto
<1>2. cli \in Answers \cup {None} /\ GenerationSeal \in disk
  BY <1>1 DEF FolderInv, EvaluationTypes, ProgressInv
<1> QED BY <1>1, <1>2, StartsJudging

LEMMA ResumeV2Keeps == FolderInv /\ ResumeV2 => FolderInv'
<1> SUFFICES ASSUME FolderInv, ResumeV2 PROVE FolderInv'
  OBVIOUS
<1>1. /\ Command /\ GenerationSeal \in disk /\ script' = "v2" /\ at' = 0
      /\ UNCHANGED <<answers, cli>>
      /\ AttemptV2("folder") \notin disk /\ disk' = disk \cup {AttemptV2("folder")}
  BY DEF ResumeV2, GenerationSealed, Goto
<1>2. answers \in Answers \cup {None} /\ paid["v2"] = 0
  BY <1>1 DEF FolderInv, EvaluationTypes, AttemptInv
<1> QED BY <1>1, <1>2, StartsJudging

LEMMA ResealV2Keeps == FolderInv /\ ResealV2 => FolderInv'
<1> SUFFICES ASSUME FolderInv, ResealV2 PROVE FolderInv'
  OBVIOUS
<1>1. EvaluationTypes /\ AttemptInv /\ ProgressInv /\ RecordInv /\ SealInv /\ BlockedInv
  BY DEF FolderInv
<1>2. /\ script = "idle" /\ UNCHANGED <<script, at, answers, cli, raw, report, paid, qwen>>
      /\ disk' = disk \cup {PostsummarySeal} /\ disk # {}
      /\ sealed' = [sealed EXCEPT ![PostsummarySeal] = disk]
  BY DEF ResealV2
<1>3. /\ PostsummarySeal \in Seals /\ PostsummarySeal \in Files /\ PostsummarySeal[1] = "run"
      /\ PostsummarySeal # Seal["blocked"] /\ \A s \in Judging : Seal[s] # PostsummarySeal
  BY SealNames DEF Judging, Sealing, Scripts
<1>4. EvaluationTypes'
  <2>1. commands' \in 0..MaxCommands /\ UNCHANGED <<executor, deaths>>
    BY <1>1, EvaluationRunAssumption DEF ResealV2, EvaluationTypes
  <2>2. sealed' \in [Seals -> SUBSET disk']
    BY <1>1, <1>2, <1>3 DEF EvaluationTypes
  <2> QED BY <1>1, <1>2, <1>3, <2>1, <2>2 DEF EvaluationTypes
<1>5. AttemptInv' /\ ProgressInv'
  <2>1. "idle" \notin Judging BY DEF Judging
  <2> QED BY <1>1, <1>2, <2>1 DEF AttemptInv, ProgressInv
<1>6. RecordInv' /\ SealInv'
  <2>1. \A s \in Judging : Seal[s] \in Seals
    BY SealNames DEF Judging, Sealing, Scripts
  <2>2. \A s \in Judging : sealed'[Seal[s]] = sealed[Seal[s]]
    BY <1>1, <1>2, <1>3, <2>1 DEF EvaluationTypes
  <2> QED BY <1>1, <1>2, <1>3, <2>2, RecordsKept, SealsKept
<1>7. BlockedInv'
  BY <1>1, <1>2, <1>3 DEF BlockedInv, Untouched
<1> QED BY <1>4, <1>5, <1>6, <1>7 DEF FolderInv

----------------------------------------------------------------------------
(* Steps of a command.                                                       *)

(* A command that ends, or a fresh run that turns to its failure files.      *)
LEMMA GivesUp ==
  ASSUME FolderInv, Stop \/ (FailRun /\ script # "blocked"), script # "idle",
         UNCHANGED <<disk, sealed, cli, raw, report, paid, executor, commands>>,
         answers' \in Answers \cup {None}, qwen' \in Nat, deaths' \in 0..MaxDeaths,
         script = "blocked" => qwen' = qwen
  PROVE  FolderInv'
<1>1. EvaluationTypes /\ AttemptInv /\ ProgressInv /\ RecordInv /\ SealInv /\ BlockedInv
  BY DEF FolderInv
<1>2. /\ script' \in {"idle", "failed"} /\ at' \in {1, 2} /\ script' \in DOMAIN Script \cup {"idle"}
      /\ script' \in DOMAIN Script => at' <= Len(Script[script']) + 1
  BY StopPlace, FailPlace
<1>3. EvaluationTypes'
  BY <1>1, <1>2 DEF EvaluationTypes
<1>4. AttemptInv' /\ ProgressInv'
  BY <1>1, <1>2 DEF AttemptInv, ProgressInv, Judging
<1>5. RecordInv' /\ SealInv'
  BY <1>1, RecordsKept, SealsKept
<1>6. BlockedInv'
  <2>1. CASE script = "blocked"
    <3>1. script' = "idle"
      BY <2>1, StopPlace
    <3> QED BY <1>1, <2>1, <3>1 DEF BlockedInv, Untouched
  <2>2. CASE script # "blocked"
    <3>1. disk # {} /\ Seal["blocked"] \notin disk
      BY <1>1, <2>2, PaidFolder
    <3> QED BY <1>2, <3>1, StaysPaid
  <2> QED BY <2>1, <2>2
<1> QED BY <1>3, <1>4, <1>5, <1>6 DEF FolderInv

LEMMA CommandDiesKeeps == FolderInv /\ CommandDies => FolderInv'
<1> SUFFICES ASSUME FolderInv, CommandDies PROVE FolderInv'
  OBVIOUS
<1>1. /\ Stop /\ script # "idle" /\ answers' = None
      /\ UNCHANGED <<disk, sealed, cli, raw, report, paid, qwen, executor, commands>>
  BY DEF CommandDies
<1>2. deaths' \in 0..MaxDeaths /\ qwen' \in Nat
  <2>1. deaths \in 0..MaxDeaths /\ qwen \in Nat
    BY DEF FolderInv, EvaluationTypes
  <2> QED BY <1>1, <2>1, EvaluationRunAssumption DEF CommandDies
<1> QED BY <1>1, <1>2, GivesUp

LEMMA StageFailsKeeps == FolderInv /\ StageFails => FolderInv'
<1> SUFFICES ASSUME FolderInv, StageFails PROVE FolderInv'
  OBVIOUS
<1>1. /\ FailRun /\ script = "generate" /\ UNCHANGED <<answers, deaths>>
      /\ UNCHANGED <<disk, sealed, cli, raw, report, paid, executor, commands>>
  BY DEF StageFails
<1>2. /\ deaths \in 0..MaxDeaths /\ qwen \in Nat /\ answers \in Answers \cup {None}
      /\ at \in Nat
  BY DEF FolderInv, EvaluationTypes
<1>3. qwen' \in Nat
  <2>1. PICK n \in (IF executor = "injected" THEN {0} ELSE 0..RequestLimit(at)) : qwen' = qwen + n
    BY DEF StageFails
  <2>2. n \in Nat
    BY <2>1
  <2> QED BY <1>2, <2>1, <2>2
<1> QED BY <1>1, <1>2, <1>3, GivesUp

LEMMA OverBudgetKeeps == FolderInv /\ OverBudget => FolderInv'
<1> SUFFICES ASSUME FolderInv, OverBudget PROVE FolderInv'
  OBVIOUS
<1>1. /\ FailRun /\ script = "generate" /\ UNCHANGED <<answers, deaths, qwen>>
      /\ UNCHANGED <<disk, sealed, cli, raw, report, paid, executor, commands>>
  BY DEF OverBudget
<1>2. deaths \in 0..MaxDeaths /\ qwen \in Nat /\ answers \in Answers \cup {None}
  BY DEF FolderInv, EvaluationTypes
<1> QED BY <1>1, <1>2, GivesUp

LEMMA WriteRefusedKeeps == FolderInv /\ WriteRefused => FolderInv'
<1> SUFFICES ASSUME FolderInv, WriteRefused PROVE FolderInv'
  OBVIOUS
<1>1. /\ answers' = None /\ UNCHANGED <<disk, sealed, cli, raw, report, paid, executor, commands>>
      /\ UNCHANGED <<deaths, qwen>>
      /\ IF script = "evaluate" THEN FailRun ELSE Stop
  BY DEF WriteRefused
<1>2. deaths \in 0..MaxDeaths /\ qwen \in Nat
  BY DEF FolderInv, EvaluationTypes
<1>3. script # "idle"
  BY ScriptNames DEF WriteRefused, Writing, Sealing, Scripts
<1> QED BY <1>1, <1>2, <1>3, GivesUp

(* New files that are no seals and not the attempt's folder.                 *)
LEMMA FilesAdded ==
  ASSUME FolderInv, NEW X, X \subseteq Files, X \cap Seals = {}, AttemptV2("folder") \notin X,
         disk' = disk \cup X, sealed' = sealed
  PROVE  /\ disk \subseteq disk' /\ disk' \subseteq Files /\ sealed' \in [Seals -> SUBSET disk']
         /\ \A s \in Sealing : Seal[s] \in disk' => Seal[s] \in disk
         /\ AttemptV2("folder") \in disk' <=> AttemptV2("folder") \in disk
<1>1. disk \subseteq Files /\ sealed \in [Seals -> SUBSET disk]
  BY DEF FolderInv, EvaluationTypes
<1>2. \A s \in Sealing : Seal[s] \in Seals
  BY SealNames
<1> QED BY <1>1, <1>2

LEMMA GenerationStageKeeps == FolderInv /\ GenerationStage => FolderInv'
<1> SUFFICES ASSUME FolderInv, GenerationStage PROVE FolderInv'
  OBVIOUS
<1>1. EvaluationTypes /\ AttemptInv /\ ProgressInv /\ RecordInv /\ SealInv /\ BlockedInv
  BY DEF FolderInv
<1>2. /\ script = "generate" /\ at <= 4 /\ script' = "generate" /\ at' = at + 1
      /\ disk' = disk \cup {Script["generate"][at]}
      /\ UNCHANGED <<sealed, answers, cli, raw, report, paid, executor, commands, deaths>>
  BY ScriptLengths DEF GenerationStage, Goto
<1>3. PICK n \in (IF at = 1 THEN {0} ELSE 1..RequestLimit(at)) : qwen' = qwen + n
  BY DEF GenerationStage
<1>4. qwen' \in Nat /\ at \in Nat
  BY <1>1, <1>3 DEF EvaluationTypes
<1>5. at \in 1..4
  <2>1. at # 0
    BY <1>1, <1>2 DEF ProgressInv, Judging
  <2> QED BY <1>2, <1>4, <2>1
<1> DEFINE file == Script["generate"][at]
<1>6. file \in Files /\ file \notin Seals /\ file # AttemptV2("folder")
  BY <1>5, ScriptFiles, ScriptLengths DEF Scripts
<1>7. /\ disk \subseteq disk' /\ disk' \subseteq Files /\ sealed' \in [Seals -> SUBSET disk']
      /\ \A s \in Sealing : Seal[s] \in disk' => Seal[s] \in disk
      /\ AttemptV2("folder") \in disk' <=> AttemptV2("folder") \in disk
  <2> HIDE DEF file
  <2>1. disk' = disk \cup {file}
    BY <1>2 DEF file
  <2> QED BY <1>2, <1>6, <2>1, FilesAdded
<1>8. EvaluationTypes'
  <2>1. "generate" \in DOMAIN Script /\ at' \in Nat /\ at' <= Len(Script["generate"]) + 1
    BY <1>2, <1>5, ScriptNames, ScriptLengths DEF Scripts
  <2> QED BY <1>1, <1>2, <1>4, <1>7, <2>1 DEF EvaluationTypes
<1>9. AttemptInv' /\ ProgressInv'
  <2>1. at' # 0
    BY <1>2, <1>5
  <2> QED BY <1>1, <1>2, <1>7, <2>1 DEF AttemptInv, ProgressInv, Judging
<1>10. RecordInv' /\ SealInv'
  <2>1. Judging \subseteq Sealing
    BY DEF Judging, Sealing, Scripts
  <2> QED BY <1>1, <1>2, <1>7, <2>1, RecordsKept, SealsKept
<1>11. BlockedInv'
  <2>1. disk # {} /\ Seal["blocked"] \notin disk /\ "blocked" \in Sealing
    BY <1>1, <1>2, PaidFolder DEF Sealing, Scripts
  <2> QED BY <1>2, <1>7, <2>1, StaysPaid
<1> QED BY <1>8, <1>9, <1>10, <1>11 DEF FolderInv

LEMMA SealGenerationKeeps == FolderInv /\ SealGeneration => FolderInv'
<1> SUFFICES ASSUME FolderInv, SealGeneration PROVE FolderInv'
  OBVIOUS
<1>1. EvaluationTypes /\ AttemptInv /\ ProgressInv /\ RecordInv /\ SealInv /\ BlockedInv
  BY DEF FolderInv
<1> DEFINE inputs == disk \cup {Generation("judge-inputs"), Generation("qwen-request-events")}
           X == {Generation("judge-inputs"), Generation("qwen-request-events"), GenerationSeal,
                 Evaluation("judge-prompt-manifest")}
<1>2. /\ script = "generate" /\ script' = "evaluate" /\ at' = 0
      /\ sealed' = [sealed EXCEPT ![GenerationSeal] = InGeneration(inputs)]
      /\ UNCHANGED <<answers, cli, raw, report, paid, qwen, executor, commands, deaths>>
  BY DEF SealGeneration, Goto
<1>3. disk' = disk \cup X
  BY DEF SealGeneration
<1>4. X \subseteq Files
  <2>1. GenerationSeal \in Files
    BY SealNames
  <2> QED BY <2>1 DEF Files
<1>5. \A s \in Sealing : Seal[s] \notin X
  BY SealNames DEF Generation, Evaluation, GenerationSeal
<1>6. AttemptV2("folder") \notin X /\ GenerationSeal \in X
  BY DEF Generation, Evaluation, AttemptV2, GenerationSeal
<1>7. GenerationSeal \in Seals /\ InGeneration(inputs) \subseteq disk'
  BY <1>3, SealNames DEF InGeneration
<1> HIDE DEF X
<1>8. EvaluationTypes'
  <2>1. "evaluate" \in DOMAIN Script /\ 0 <= Len(Script["evaluate"]) + 1
    BY ScriptNames, ScriptLengths DEF Scripts
  <2>2. sealed' \in [Seals -> SUBSET disk']
    BY <1>1, <1>2, <1>3, <1>7 DEF EvaluationTypes
  <2> QED BY <1>1, <1>2, <1>3, <1>4, <2>1, <2>2 DEF EvaluationTypes
<1>9. AttemptInv' /\ ProgressInv'
  BY <1>1, <1>2, <1>3, <1>6 DEF AttemptInv, ProgressInv, Judging
<1>10. RecordInv' /\ SealInv'
  <2>1. Judging \subseteq Sealing /\ \A s \in Sealing : Seal[s] \in Seals /\ Seal[s] # GenerationSeal
    BY SealNames DEF Judging, Sealing, Scripts
  <2>2. \A s \in Judging : sealed'[Seal[s]] = sealed[Seal[s]]
    BY <1>1, <1>2, <2>1 DEF EvaluationTypes
  <2> QED BY <1>1, <1>2, <1>3, <1>5, <2>1, <2>2, RecordsKept, SealsKept
<1>11. BlockedInv'
  <2>1. disk # {} /\ Seal["blocked"] \notin disk /\ "blocked" \in Sealing
    BY <1>1, <1>2, PaidFolder DEF Sealing, Scripts
  <2> QED BY <1>2, <1>3, <1>5, <2>1, StaysPaid
<1> QED BY <1>8, <1>9, <1>10, <1>11 DEF FolderInv

(* The four jobs are sent: once more paid, and nothing written yet.          *)
LEMMA JobsSent ==
  ASSUME FolderInv, NEW s \in Judging, Judge(s), cli' \in Answers \cup {None},
         answers' \in Answers \cup {None},
         \/ Goto(s, 1) /\ answers' # None
         \/ Stop
         \/ FailRun
  PROVE  FolderInv'
<1>1. EvaluationTypes /\ AttemptInv /\ ProgressInv /\ RecordInv /\ SealInv /\ BlockedInv
  BY DEF FolderInv
<1>2. /\ script = s /\ at = 0 /\ paid' = [paid EXCEPT ![s] = @ + 1]
      /\ UNCHANGED <<disk, sealed, raw, report, qwen, executor, commands, deaths>>
  BY DEF Judge
<1>3. /\ script' \in {s, "idle", "failed"} /\ at' \in {1, 2} /\ script' \in DOMAIN Script \cup {"idle"}
      /\ script' \in DOMAIN Script => at' <= Len(Script[script']) + 1
      /\ script' = s => at' = 1 /\ answers' # None
  <2>1. CASE Goto(s, 1) /\ answers' # None
    BY <2>1, ScriptNames, ScriptLengths DEF Goto, Judging, Scripts
  <2> QED BY <2>1, StopPlace, FailPlace DEF Judging
<1>4. EvaluationTypes'
  <2>1. paid' \in [Judging -> Nat]
    <3>1. paid \in [Judging -> Nat]
      BY <1>1 DEF EvaluationTypes
    <3>2. paid[s] + 1 \in Nat
      BY <3>1
    <3> QED BY <1>2, <3>1, <3>2
  <2>2. at' \in Nat
    BY <1>3
  <2> QED BY <1>1, <1>2, <1>3, <2>1, <2>2 DEF EvaluationTypes
<1>5. AttemptInv'
  <2>1. paid \in [Judging -> Nat] /\ "v2" \in Judging
    BY <1>1 DEF EvaluationTypes, Judging
  <2>2. CASE s = "v2"
    BY <1>1, <1>2, <1>3, <2>1, <2>2 DEF AttemptInv
  <2>3. CASE s # "v2"
    <3>1. paid'["v2"] = paid["v2"]
      BY <1>2, <2>1, <2>3
    <3> QED BY <1>1, <1>2, <1>3, <2>3, <3>1 DEF AttemptInv
  <2> QED BY <2>2, <2>3
<1>6. ProgressInv'
  <2>1. GenerationSeal \in disk
    BY <1>1, <1>2 DEF ProgressInv
  <2>2. \A i \in DOMAIN Script[s] : ~(i < 1)
    BY ScriptLengths DEF Judging, Scripts
  <2>3. ~(at' > 2) /\ ~(at' > 4) /\ at' # 0
    BY <1>3
  <2>4. "idle" \notin Judging /\ "failed" \notin Judging
    BY DEF Judging
  <2> QED BY <1>2, <1>3, <2>1, <2>2, <2>3, <2>4 DEF ProgressInv
<1>7. RecordInv' /\ SealInv'
  BY <1>1, <1>2, RecordsKept, SealsKept
<1>8. BlockedInv'
  <2>1. disk # {} /\ Seal["blocked"] \notin disk /\ s # "blocked"
    BY <1>1, <1>2, PaidFolder DEF Judging
  <2> QED BY <1>2, <1>3, <2>1, StaysPaid
<1> QED BY <1>4, <1>5, <1>6, <1>7, <1>8 DEF FolderInv

LEMMA JudgeKeeps == FolderInv /\ (JudgeFreshRun \/ JudgeResume \/ JudgeV2) => FolderInv'
<1> SUFFICES ASSUME FolderInv, JudgeFreshRun \/ JudgeResume \/ JudgeV2 PROVE FolderInv'
  OBVIOUS
<1>1. JudgeAnswers \subseteq Answers /\ cli \in Answers \cup {None}
  BY EvaluationRunAssumption DEF FolderInv, EvaluationTypes
<1>2. {"evaluate", "resume", "v2"} \subseteq Judging
  BY DEF Judging
<1>3. CASE JudgeFreshRun
  <2>1. /\ Judge("evaluate") /\ cli' = cli
        /\ \/ answers' \in JudgeAnswers \cup {None} /\ answers' # None /\ Goto("evaluate", 1)
           \/ answers' = None /\ FailRun
    BY <1>3 DEF JudgeFreshRun
  <2> QED BY <1>1, <1>2, <2>1, JobsSent
<1>4. CASE JudgeResume
  <2>1. PICK a \in JudgeAnswers \cup {None} :
          /\ cli' = IF a = None THEN cli ELSE a
          /\ \/ cli' # None /\ answers' = cli' /\ Goto("resume", 1)
             \/ answers' = None /\ Stop
    BY <1>4 DEF JudgeResume
  <2>2. cli' \in Answers \cup {None} /\ answers' \in Answers \cup {None} /\ Judge("resume")
    BY <1>1, <1>4, <2>1 DEF JudgeResume
  <2> QED BY <1>2, <2>1, <2>2, JobsSent
<1>5. CASE JudgeV2
  <2>1. /\ Judge("v2") /\ cli' = cli /\ answers' \in JudgeAnswers \cup {None}
        /\ IF answers' = None THEN Stop ELSE Goto("v2", 1)
    BY <1>5 DEF JudgeV2
  <2> QED BY <1>1, <1>2, <2>1, JobsSent
<1> QED BY <1>3, <1>4, <1>5

----------------------------------------------------------------------------
(* What the report makes of the answers.                                     *)

LEMMA NormalizedReport ==
  ASSUME NEW a \in Answers
  PROVE  /\ NormalizeJudgeResults(a) \in Reports
         /\ NormalizeJudgeResults(a).winner # None =>
              /\ a.individual = "valid" /\ {a.ab, a.ba} \subseteq {"candidate_0", "candidate_1"}
              /\ Preferred(a) = [ab |-> NormalizeJudgeResults(a).winner,
                                ba |-> NormalizeJudgeResults(a).winner]
<1>1. \A validity : NoWinner(validity).winner = None
  BY DEF NoWinner
<1>2. \A validity \in {"inconclusive_position_bias", "evaluation_inconclusive",
                      "judge_inconsistent", "judge_parse_error"} : NoWinner(validity) \in Reports
  BY DEF NoWinner, Reports
<1>3. /\ a.individual \in {"valid", "unparsed", "missing"} /\ a.ab \in Pairwise /\ a.ba \in Pairwise
      /\ a.individual = "missing" => a.ab = "unparsed"
  BY DEF Answers, Pairwise
<1>4. CASE "unclear" \in {a.ab, a.ba} \/ "unparsed" \in {a.individual, a.ab, a.ba}
  <2>1. NormalizeJudgeResults(a) \in {NoWinner("judge_inconsistent"), NoWinner("judge_parse_error")}
    BY <1>4 DEF NormalizeJudgeResults
  <2> QED BY <1>1, <1>2, <2>1
<1>5. CASE ~("unclear" \in {a.ab, a.ba} \/ "unparsed" \in {a.individual, a.ab, a.ba})
  <2>1. NormalizeJudgeResults(a) = AssessPairwiseConsistency(a.ab, a.ba)
    BY <1>5 DEF NormalizeJudgeResults
  <2>2. a.individual = "valid" /\ {a.ab, a.ba} \subseteq {"candidate_0", "candidate_1"}
    BY <1>3, <1>5 DEF Pairwise
  <2>3. CASE a.ab = a.ba \/ CandidateMapping.ab[a.ab] # CandidateMapping.ba[a.ba]
    <3>1. AssessPairwiseConsistency(a.ab, a.ba) \in
            {NoWinner("inconclusive_position_bias"), NoWinner("evaluation_inconclusive")}
      BY <2>3 DEF AssessPairwiseConsistency
    <3> QED BY <1>1, <1>2, <2>1, <3>1
  <2>4. CASE ~(a.ab = a.ba \/ CandidateMapping.ab[a.ab] # CandidateMapping.ba[a.ba])
    <3>1. AssessPairwiseConsistency(a.ab, a.ba)
            = [validity |-> "comparable", winner |-> CandidateMapping.ab[a.ab]]
      BY <2>4 DEF AssessPairwiseConsistency
    <3>2. /\ CandidateMapping.ab[a.ab] \in {"baseline", "skill_guided"}
          /\ Preferred(a) = [ab |-> CandidateMapping.ab[a.ab], ba |-> CandidateMapping.ab[a.ab]]
      BY <2>2, <2>4 DEF CandidateMapping, Preferred
    <3> QED BY <2>1, <2>2, <3>1, <3>2 DEF Reports
  <2> QED BY <2>3, <2>4
<1> QED BY <1>4, <1>5

----------------------------------------------------------------------------
(* Files and seals.                                                          *)

LEMMA WriteNextKeeps == FolderInv /\ WriteNext => FolderInv'
<1> SUFFICES ASSUME FolderInv, WriteNext PROVE FolderInv'
  OBVIOUS
<1>1. EvaluationTypes /\ AttemptInv /\ ProgressInv /\ RecordInv /\ SealInv /\ BlockedInv
  BY DEF FolderInv
<1> DEFINE file == Script[script][at]
           X == {file} \cup (IF file = Generation("model-error")
                             THEN {Generation("qwen-request-events")} ELSE {})
<1>2. /\ script \in Sealing /\ at \in DOMAIN Script[script] /\ at \in Nat /\ at # 0
      /\ at' = at + 1 /\ at + 1 <= Len(Script[script]) + 1
  <2>1. script \in Sealing /\ at \in 1..Len(Script[script]) /\ at' = at + 1
    BY ScriptNames DEF WriteNext, Writing, Goto
  <2>2. script \in Scripts
    BY <2>1 DEF Sealing
  <2>3. DOMAIN Script[script] = 1..Len(Script[script]) /\ Len(Script[script]) \in Nat
    BY <2>2, ScriptLengths
  <2> QED BY <2>1, <2>3
<1>3. /\ script' = script /\ file \notin disk /\ disk' = disk \cup X
      /\ UNCHANGED <<sealed, answers, cli, paid, qwen, executor, commands, deaths>>
  BY DEF WriteNext, Goto
<1>4. /\ raw' = IF script \in Judging /\ at = 2 THEN [raw EXCEPT ![script] = answers] ELSE raw
      /\ report' = IF script \in Judging /\ at = 4
                   THEN [report EXCEPT ![script] = NormalizeJudgeResults(answers)] ELSE report
  BY DEF WriteNext
<1>5. /\ file \in Files /\ file \notin Seals /\ file # AttemptV2("folder")
      /\ script = "blocked" => file[1] = "run"
  BY <1>2, ScriptFiles DEF Sealing
<1>6. X \subseteq Files /\ X \cap Seals = {} /\ AttemptV2("folder") \notin X /\ file \in X
  <2>1. Generation("qwen-request-events") \in Files
    BY DEF Files
  <2>2. /\ Generation("qwen-request-events") \notin Seals
        /\ Generation("qwen-request-events") # AttemptV2("folder")
    BY DEF Seals, Seal, GenerationSeal, PostsummarySeal, Generation, Run, AttemptV2
  <2> HIDE DEF file
  <2> QED BY <1>5, <2>1, <2>2
<1>7. script = "blocked" => X = {file}
  <2>1. script = "blocked" => file # Generation("model-error")
    BY <1>5 DEF Generation
  <2> QED BY <2>1
<1>8. /\ disk \subseteq disk' /\ disk' \subseteq Files /\ sealed' \in [Seals -> SUBSET disk']
      /\ \A s \in Sealing : Seal[s] \in disk' => Seal[s] \in disk
      /\ AttemptV2("folder") \in disk' <=> AttemptV2("folder") \in disk
      /\ file \in disk'
  <2> HIDE DEF X
  <2> QED BY <1>3, <1>6, FilesAdded
<1>9. Judging \subseteq Sealing /\ Sealing \subseteq Scripts
  BY DEF Judging, Sealing, Scripts
<1>10. /\ raw \in [Judging -> Answers \cup {None}] /\ report \in [Judging -> Reports \cup {None}]
       /\ answers \in Answers \cup {None}
       /\ script \in Judging => answers \in Answers /\ answers # None
  BY <1>1, <1>2 DEF EvaluationTypes, ProgressInv
<1> HIDE DEF file, X
<1>11. EvaluationTypes'
  <2>1. raw' \in [Judging -> Answers \cup {None}]
    BY <1>4, <1>10
  <2>2. report' \in [Judging -> Reports \cup {None}]
    <3>1. script \in Judging => NormalizeJudgeResults(answers) \in Reports
      BY <1>10, NormalizedReport
    <3> QED BY <1>4, <1>10, <3>1
  <2>3. at' \in Nat /\ script \in DOMAIN Script /\ at' <= Len(Script[script]) + 1
    BY <1>2, <1>9, ScriptNames
  <2> QED BY <1>1, <1>3, <1>8, <2>1, <2>2, <2>3 DEF EvaluationTypes
<1>12. AttemptInv'
  <2>1. at' # 0
    BY <1>2
  <2> QED BY <1>1, <1>3, <1>8, <2>1 DEF AttemptInv
<1>13. ProgressInv'
  <2>1. at' # 0 /\ (at' > 2 => at = 2 \/ at > 2) /\ (at' > 4 => at = 4 \/ at > 4) /\ at >= 1
    BY <1>2
  <2>2. script \in Judging =>
          /\ answers' # None
          /\ \A i \in DOMAIN Script[script] : i < at' => Script[script][i] \in disk'
    <3> SUFFICES ASSUME script \in Judging, NEW i \in DOMAIN Script[script], i < at'
                 PROVE  Script[script][i] \in disk'
      BY <1>3, <1>10
    <3>1. i \in Nat
      BY <1>9, ScriptLengths
    <3>2. i < at \/ i = at
      BY <1>2, <3>1
    <3> QED BY <1>1, <1>8, <2>1, <3>2 DEF ProgressInv, file
  <2>3. script \in Judging /\ at' > 2 => raw'[script] = answers
    BY <1>1, <1>4, <1>10, <2>1 DEF ProgressInv
  <2>4. script \in Judging /\ at' > 4 => report'[script] = NormalizeJudgeResults(answers)
    BY <1>1, <1>4, <1>10, <2>1 DEF ProgressInv
  <2>5. script = "failed" /\ at' > 2 => Run("unsealed-failure") \in disk'
    <3>1. script = "failed" /\ at = 2 => file = Run("unsealed-failure")
      BY DEF file, Script
    <3> QED BY <1>1, <1>8, <2>1, <3>1 DEF ProgressInv
  <2> QED BY <1>1, <1>3, <1>8, <2>1, <2>2, <2>3, <2>4, <2>5 DEF ProgressInv
<1>14. RecordInv'
  <2> SUFFICES ASSUME NEW s \in Judging
               PROVE  /\ raw'[s] # None => Script[s][2] \in disk'
                      /\ report'[s] # None =>
                           raw'[s] # None /\ report'[s] = NormalizeJudgeResults(raw'[s])
    BY DEF RecordInv
  <2>1. /\ raw[s] # None => Script[s][2] \in disk
        /\ report[s] # None => raw[s] # None /\ report[s] = NormalizeJudgeResults(raw[s])
    BY <1>1 DEF RecordInv
  <2>2. CASE script = s /\ at = 2
    <3>1. raw[s] = None /\ report[s] = None
      BY <1>3, <2>1, <2>2 DEF file
    <3>2. report'[s] = None
      BY <1>4, <2>2, <3>1
    <3> QED BY <1>8, <2>2, <3>2 DEF file
  <2>3. CASE script = s /\ at = 4
    <3>1. raw' = raw /\ report'[s] = NormalizeJudgeResults(answers)
      BY <1>4, <1>10, <2>3
    <3>2. raw[s] = answers /\ answers # None
      BY <1>1, <2>3 DEF ProgressInv
    <3> QED BY <1>8, <2>1, <3>1, <3>2
  <2>4. CASE ~(script = s /\ at \in {2, 4})
    <3>1. raw'[s] = raw[s] /\ report'[s] = report[s]
      BY <1>4, <1>10, <2>4
    <3> QED BY <1>8, <2>1, <3>1
  <2> QED BY <2>2, <2>3, <2>4
<1>15. SealInv'
  <2> SUFFICES ASSUME NEW s \in Judging, Seal[s] \in disk',
                      Run("unsealed-failure") \notin sealed'[Seal[s]]
               PROVE  Whole(s)'
    BY DEF SealInv
  <2>1. Whole(s) /\ sealed[Seal[s]] \subseteq disk
    <3>1. Seal[s] \in disk /\ Seal[s] \in Seals
      BY <1>8, <1>9, SealNames
    <3> QED BY <1>1, <1>3, <3>1 DEF SealInv, EvaluationTypes
  <2>2. script # s
    <3>1. script = s => file \in {Script[s][i] : i \in DOMAIN Script[s]}
      BY <1>2 DEF file
    <3> QED BY <1>3, <2>1, <3>1 DEF Whole
  <2>3. raw'[s] = raw[s] /\ report'[s] = report[s]
    BY <1>4, <1>10, <2>2
  <2> QED BY <1>3, <2>1, <2>3 DEF Whole
<1>16. BlockedInv'
  <2>1. CASE script = "blocked"
    <3>1. Untouched /\ Seal["blocked"] \notin disk
      BY <1>1, <2>1 DEF BlockedInv
    <3>2. Untouched'
      BY <1>3, <1>5, <1>7, <2>1, <3>1 DEF Untouched
    <3> QED BY <1>8, <2>1, <3>1, <3>2 DEF BlockedInv, Sealing, Scripts
  <2>2. CASE script # "blocked"
    <3>1. script # "idle" /\ "blocked" \in Sealing
      BY <1>2 DEF Sealing, Scripts
    <3>2. disk # {} /\ Seal["blocked"] \notin disk
      BY <1>1, <2>2, <3>1, PaidFolder
    <3> QED BY <1>3, <1>8, <2>2, <3>1, <3>2, StaysPaid
  <2> QED BY <2>1, <2>2
<1> QED BY <1>11, <1>12, <1>13, <1>14, <1>15, <1>16 DEF FolderInv

LEMMA WriteSealKeeps == FolderInv /\ WriteSeal => FolderInv'
<1> SUFFICES ASSUME FolderInv, WriteSeal PROVE FolderInv'
  OBVIOUS
<1>1. EvaluationTypes /\ AttemptInv /\ ProgressInv /\ RecordInv /\ SealInv /\ BlockedInv
  BY DEF FolderInv
<1>2. /\ script \in Sealing /\ at > Len(Script[script]) /\ Stop /\ answers' = None
      /\ disk' = disk \cup {Seal[script]} /\ sealed' = [sealed EXCEPT ![Seal[script]] = disk]
      /\ UNCHANGED <<cli, raw, report, paid, qwen, executor, commands, deaths>>
  BY ScriptNames DEF WriteSeal
<1>3. /\ Seal[script] \in Seals /\ Seal[script] \in Files /\ Seal[script][1] = "run"
      /\ Seal[script] # AttemptV2("folder")
  BY <1>2, SealNames
<1>4. /\ script' = "idle" /\ at' = 1 /\ script' \in DOMAIN Script \cup {"idle"} /\ at' \in Nat
      /\ script' \notin DOMAIN Script
  BY <1>2, StopPlace
<1>5. EvaluationTypes'
  <2>1. disk' \subseteq Files /\ sealed' \in [Seals -> SUBSET disk']
    BY <1>1, <1>2, <1>3 DEF EvaluationTypes
  <2> QED BY <1>1, <1>2, <1>4, <2>1 DEF EvaluationTypes
<1>6. AttemptInv' /\ ProgressInv'
  BY <1>1, <1>2, <1>3, <1>4 DEF AttemptInv, ProgressInv, Judging
<1>7. RecordInv'
  BY <1>1, <1>2, RecordsKept
<1>8. Judging \subseteq Sealing /\ Sealing \subseteq Scripts /\ "failed" \in Scripts
  BY DEF Judging, Sealing, Scripts
<1>9. SealInv'
  <2> SUFFICES ASSUME NEW s \in Judging, Seal[s] \in disk',
                      Run("unsealed-failure") \notin sealed'[Seal[s]]
               PROVE  Whole(s)'
    BY DEF SealInv
  <2>1. Seal[s] \in Seals
    BY <1>8, SealNames
  <2>2. CASE Seal[s] # Seal[script]
    <3>1. sealed'[Seal[s]] = sealed[Seal[s]] /\ Seal[s] \in disk
      BY <1>1, <1>2, <2>1, <2>2 DEF EvaluationTypes
    <3>2. Whole(s)
      BY <1>1, <3>1 DEF SealInv
    <3> QED BY <1>2, <3>1, <3>2 DEF Whole
  <2>3. CASE Seal[s] = Seal[script]
    <3>1. sealed'[Seal[s]] = disk
      BY <1>1, <1>2, <2>1, <2>3 DEF EvaluationTypes
    <3>2. script = s
      <4>1. script # "failed"
        <5>1. script = "failed" => at > 3
          BY <1>2, ScriptLengths
        <5>2. script = "failed" => at > 2
          <6>1. at \in Nat
            BY <1>1 DEF EvaluationTypes
          <6> QED BY <5>1, <6>1
        <5> QED BY <1>1, <3>1, <5>2 DEF ProgressInv
      <4>2. script # "blocked"
        BY <2>3, SealNames
      <4>3. script \in Judging
        BY <1>2, <4>1, <4>2 DEF Sealing, Scripts, Judging
      <4> QED BY <2>3, <4>3, SealNames
    <3>3. Len(Script[s]) >= 5 /\ DOMAIN Script[s] = 1..Len(Script[s]) /\ Len(Script[s]) \in Nat
      BY <1>8, ScriptLengths
    <3>4. at >= 1 /\ at > 2 /\ at > 4 /\ \A i \in DOMAIN Script[s] : i < at
      BY <1>1, <1>2, <3>2, <3>3 DEF EvaluationTypes
    <3>5. /\ GenerationSeal \in disk /\ \A i \in DOMAIN Script[s] : Script[s][i] \in disk
          /\ answers # None /\ raw[s] = answers /\ report[s] = NormalizeJudgeResults(answers)
      BY <1>1, <3>2, <3>4 DEF ProgressInv
    <3> QED BY <1>2, <3>1, <3>5 DEF Whole
  <2> QED BY <2>2, <2>3
<1>10. BlockedInv'
  <2>1. CASE script = "blocked"
    BY <1>1, <1>2, <1>3, <1>4, <2>1 DEF BlockedInv, Untouched
  <2>2. CASE script # "blocked"
    <3>1. script # "idle" /\ Seal[script] # Seal["blocked"]
      <4>1. script \in Judging \cup {"failed"} /\ "evaluate" \in Judging /\ script # "idle"
        BY <1>2, <2>2 DEF Sealing, Scripts, Judging
      <4> QED BY <4>1, SealNames
    <3>2. disk # {} /\ Seal["blocked"] \notin disk
      BY <1>1, <2>2, <3>1, PaidFolder
    <3> QED BY <1>2, <1>4, <3>1, <3>2, StaysPaid
  <2> QED BY <2>1, <2>2
<1> QED BY <1>5, <1>6, <1>7, <1>9, <1>10 DEF FolderInv

----------------------------------------------------------------------------
LEMMA NextFolder == FolderInv /\ [EvaluationNext]_evaluationVars => FolderInv'
<1> SUFFICES ASSUME FolderInv, [EvaluationNext]_evaluationVars PROVE FolderInv'
  OBVIOUS
<1>1. CASE CreateBlockedRun \/ ExecuteRound17c
  BY <1>1, CreateBlockedRunKeeps, ExecuteRound17cKeeps
<1>2. CASE Resume \/ FinalizeExisting \/ ResumeV2 \/ ResealV2
  BY <1>2, ResumeKeeps, FinalizeExistingKeeps, ResumeV2Keeps, ResealV2Keeps
<1>3. CASE Work
  <2>1. CASE GenerationStage \/ StageFails \/ OverBudget \/ SealGeneration
    BY <2>1, GenerationStageKeeps, StageFailsKeeps, OverBudgetKeeps, SealGenerationKeeps
  <2>2. CASE JudgeFreshRun \/ JudgeResume \/ JudgeV2
    BY <2>2, JudgeKeeps
  <2>3. CASE WriteNext \/ WriteRefused \/ WriteSeal
    BY <2>3, WriteNextKeeps, WriteRefusedKeeps, WriteSealKeeps
  <2> QED BY <1>3, <2>1, <2>2, <2>3 DEF Work
<1>4. CASE CommandDies
  BY <1>4, CommandDiesKeeps
<1>5. CASE UNCHANGED evaluationVars
  <2>1. EvaluationTypes' /\ AttemptInv' /\ ProgressInv' /\ RecordInv' /\ SealInv'
    BY <1>5 DEF FolderInv, EvaluationTypes, AttemptInv, ProgressInv, RecordInv, SealInv, Whole,
                evaluationVars
  <2>2. BlockedInv'
    BY <1>5 DEF FolderInv, BlockedInv, Untouched, evaluationVars
  <2> QED BY <2>1, <2>2 DEF FolderInv
<1> QED BY <1>1, <1>2, <1>3, <1>4, <1>5 DEF EvaluationNext

(* The inductive invariant of a run folder.                                  *)
THEOREM FolderInvariance == EvaluationSpec => []FolderInv
BY InitFolder, NextFolder, PTL DEF EvaluationSpec

(* The variables of a run folder keep their types.                           *)
THEOREM FolderTypes == EvaluationSpec => []EvaluationTypes
<1>1. FolderInv => EvaluationTypes
  BY DEF FolderInv
<1> QED BY <1>1, FolderInvariance, PTL

(* Whatever fails or dies, and however often the operator tries again, the   *)
(* second judging attempt is paid for once (resume_v2).                      *)
THEOREM SecondJudgingPaidOnce == EvaluationSpec => []V2PaidOnce
<1>1. FolderInv => V2PaidOnce
  BY DEF FolderInv, AttemptInv, V2PaidOnce
<1> QED BY <1>1, FolderInvariance, PTL

(* A report that names a winner has it from recorded answers that are all    *)
(* valid and agree in both orders (round17c_judge, _finalize).               *)
THEOREM WinnersAgree == EvaluationSpec => []WinnerAgreed
<1>1. FolderInv => WinnerAgreed
  <2> SUFFICES ASSUME FolderInv, NEW s \in Judging, report[s] # None, report[s].winner # None
               PROVE  /\ raw[s] # None /\ raw[s].individual = "valid"
                      /\ {raw[s].ab, raw[s].ba} \subseteq {"candidate_0", "candidate_1"}
                      /\ Preferred(raw[s]) = [ab |-> report[s].winner, ba |-> report[s].winner]
    BY DEF WinnerAgreed
  <2>1. raw[s] # None /\ report[s] = NormalizeJudgeResults(raw[s])
    BY DEF FolderInv, RecordInv
  <2>2. raw[s] \in Answers
    BY <2>1 DEF FolderInv, EvaluationTypes
  <2> QED BY <2>1, <2>2, NormalizedReport
<1> QED BY <1>1, FolderInvariance, PTL

(* A final seal certifies a whole judging over a sealed generation, and a    *)
(* folder that the public page calls verified is an untouched blocked run    *)
(* (_finalize, resume_v2, execute_round17c, public_run).                     *)
THEOREM FinalSealsAreWhole == EvaluationSpec => []FinalSealIsWhole
<1>1. FolderInv => FinalSealIsWhole
  <2> SUFFICES ASSUME FolderInv PROVE FinalSealIsWhole
    OBVIOUS
  <2>1. \A s \in Judging :
          Seal[s] \in disk /\ Run("unsealed-failure") \notin sealed[Seal[s]] => Whole(s)
    BY DEF FolderInv, SealInv
  <2>2. ASSUME PublicRun = "verified"
        PROVE  /\ qwen = 0 /\ \A s \in Judging : paid[s] = 0
               /\ disk = sealed[Seal["blocked"]] \cup {Seal["blocked"]} /\ script = "idle"
    <3>1. Seal["blocked"] \in disk /\ sealed[Seal["blocked"]] = RunFiles
      BY <2>2 DEF PublicRun, Integrity
    <3>2. Untouched /\ script = "idle"
      BY <3>1 DEF FolderInv, BlockedInv
    <3>3. disk = RunFiles \cup {Seal["blocked"]}
      BY <3>1, <3>2 DEF RunFiles, Untouched
    <3> QED BY <3>1, <3>2, <3>3 DEF Untouched
  <2> QED BY <2>1, <2>2 DEF FinalSealIsWhole, Whole
<1> QED BY <1>1, FolderInvariance, PTL

=============================================================================
