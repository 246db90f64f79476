------------------------------ MODULE DataStores ------------------------------
(***************************************************************************)
(* One durable data store (database/datastore_ops.go): the transactions of  *)
(* overlapping workflow runs and panel edits on it, its deletion, and what   *)
(* an open canvas is told (hub.Data).  The content is as in AtomicStore.      *)
(*                                                                         *)
(* A key-value or text store is one row here, because operations on two keys *)
(* never meet.  One statement is one step; a transaction becomes visible at  *)
(* its commit, so an insert and its commit are one step as well.             *)
(***************************************************************************)
EXTENDS Integers, Sequences

CONSTANTS DataOps,  \* operations of nodes and of the Data panel
          NoOp      \* nobody holds the row

ASSUME NoOpIsNone == NoOp \notin DataOps

VARIABLES storeKind,  \* "cell" (kv and text) or "collection"
          storeLive,  \* the data_stores row exists
          dataRow,    \* [present, value]: the row of the key; the records
          rowLock,    \* the operation whose transaction locked the row, or NoOp
          dataOp,     \* operation -> [pc, read, note]
          deleting,   \* the request that deletes the store: "no", "empty", "drop", "done"
          shown       \* what an open canvas shows

storeVars == <<storeKind, storeLive, dataRow, rowLock, dataOp, deleting, shown>>
tableVars == <<storeKind, storeLive, deleting, shown>>

DataPcs == {"new", "run", "absent", "locked", "count", "publish", "done", "failed"}
DataAt(o, pc) == dataOp[o].pc = pc
GoesTo(o, pc) == dataOp' = [dataOp EXCEPT ![o].pc = pc]
RowFree == rowLock = NoOp
NoDataRow == [present |-> FALSE, value |-> <<>>]
RowOf(v) == [present |-> TRUE, value |-> v]
\* The write is committed; a canvas is told the value next.
CommitRow(o, row) ==
    /\ dataRow' = row
    /\ dataOp' = [dataOp EXCEPT ![o].pc = "publish", ![o].note = row.value]

InitStores == /\ storeKind \in {"cell", "collection"} /\ storeLive = TRUE
              /\ \/ dataRow = NoDataRow
                 \/ storeKind = "cell" /\ dataRow = RowOf(<<>>)  \* a row from before
              /\ rowLock = NoOp
              /\ dataOp = [o \in DataOps |-> [pc |-> "new", read |-> <<>>, note |-> <<>>]]
              /\ deleting = "no" /\ shown = <<>>

\* GetStore of a node, loadOwnedStore of a request.  What follows does not look again.
GetStore(o) ==
    /\ DataAt(o, "new")
    /\ GoesTo(o, IF storeLive THEN "run" ELSE "failed")
    /\ UNCHANGED <<tableVars, dataRow, rowLock>>

-----------------------------------------------------------------------------
(* Key-value and text stores.                                              *)

OnCell(o, pc) == storeKind = "cell" /\ DataAt(o, pc)

\* INSERT ... ON CONFLICT DO UPDATE: a number or a text, or what increments take
\* for nothing.
KVSet(o) == /\ OnCell(o, "run") /\ RowFree
            /\ \E v \in {<<o>>, <<>>} : CommitRow(o, RowOf(v))
            /\ UNCHANGED <<tableVars, rowLock>>

\* BugLockRow reads the row without FOR UPDATE.
BugLockRow(o) ==
    /\ OnCell(o, "run")
    /\ dataOp' = [dataOp EXCEPT ![o].pc = IF dataRow.present THEN "locked" ELSE "absent",
                                ![o].read = dataRow.value]
    /\ UNCHANGED <<tableVars, dataRow, rowLock>>
\* The SELECT ... FOR UPDATE of KVIncrement and TextAppend.
LockRow(o) ==
    /\ OnCell(o, "run") /\ RowFree
    /\ dataOp' = [dataOp EXCEPT ![o].pc = IF dataRow.present THEN "locked" ELSE "absent",
                                ![o].read = dataRow.value]
    /\ rowLock' = IF dataRow.present THEN o ELSE NoOp
    /\ UNCHANGED <<tableVars, dataRow>>

UpdateRow(o) ==
    /\ OnCell(o, "locked")
    /\ CommitRow(o, RowOf(Append(dataOp[o].read, o)))
    /\ rowLock' = NoOp
    /\ UNCHANGED tableVars

\* A row that was not there may be by now: the unique index then refuses the insert.
InsertRow(o) ==
    /\ OnCell(o, "absent")
    /\ IF dataRow.present THEN GoesTo(o, "failed") /\ UNCHANGED dataRow
       ELSE CommitRow(o, RowOf(<<o>>))
    /\ UNCHANGED <<tableVars, rowLock>>

KVDelete(o) == /\ OnCell(o, "run") /\ RowFree
               /\ CommitRow(o, NoDataRow)
               /\ UNCHANGED <<tableVars, rowLock>>

\* ClearDataStore of a cell tells nobody.
ClearCell(o) == /\ OnCell(o, "run") /\ RowFree
                /\ dataRow' = NoDataRow /\ GoesTo(o, "done")
                /\ UNCHANGED <<tableVars, rowLock>>

-----------------------------------------------------------------------------
(* Collections: one statement each, then publishCount.                     *)

OnRecords(o) == storeKind = "collection" /\ DataAt(o, "run")
SetRecords(v) == dataRow' = [dataRow EXCEPT !.value = v]
WithoutRecord(i) == SubSeq(dataRow.value, 1, i - 1)
                    \o SubSeq(dataRow.value, i + 1, Len(dataRow.value))

RecordAppend(o) == /\ OnRecords(o)
                   /\ SetRecords(Append(dataRow.value, o)) /\ GoesTo(o, "count")
                   /\ UNCHANGED <<tableVars, rowLock>>

\* An id that is not there, any more or at all, is an error.  The fields of a record
\* are not told apart.
NoSuchRecord(o) == /\ OnRecords(o) /\ GoesTo(o, "failed")
                   /\ UNCHANGED <<tableVars, dataRow, rowLock>>
RecordUpdate(o) == /\ OnRecords(o) /\ dataRow.value # <<>> /\ GoesTo(o, "count")
                   /\ UNCHANGED <<tableVars, dataRow, rowLock>>
RecordDelete(o) == /\ OnRecords(o) /\ GoesTo(o, "count")
                   /\ \E i \in DOMAIN dataRow.value : SetRecords(WithoutRecord(i))
                   /\ UNCHANGED <<tableVars, rowLock>>

RecordClear(o) == /\ OnRecords(o)
                  /\ CommitRow(o, [dataRow EXCEPT !.value = <<>>])
                  /\ UNCHANGED <<tableVars, rowLock>>

\* publishCount counts again: by then other operations may have changed the number.
RecordCount(o) == /\ DataAt(o, "count")
                  /\ dataOp' = [dataOp EXCEPT ![o].pc = "publish", ![o].note = dataRow.value]
                  /\ UNCHANGED <<tableVars, dataRow, rowLock>>

-----------------------------------------------------------------------------

\* hub.Data.Publish, in no particular order; a canvas whose channel is full misses it.
Publish(o) == /\ DataAt(o, "publish") /\ GoesTo(o, "done")
              /\ shown' \in {shown, dataOp[o].note}
              /\ UNCHANGED <<storeKind, storeLive, deleting, dataRow, rowLock>>

\* An error or a crash before the commit rolls back; after it, the canvas is not told.
FailOp(o) ==
    /\ \/ dataOp[o].pc \in {"run", "absent", "locked"} /\ GoesTo(o, "failed")
       \/ dataOp[o].pc \in {"count", "publish"} /\ GoesTo(o, "done")
    /\ rowLock' = IF rowLock = o THEN NoOp ELSE rowLock
    /\ UNCHANGED <<tableVars, dataRow>>

\* DeleteDataStore: entries, then the store; no error of either is looked at.
LoadStore == /\ deleting = "no" /\ deleting' = "empty"
             /\ UNCHANGED <<storeKind, storeLive, dataRow, rowLock, dataOp, shown>>
DeleteEntries == /\ deleting = "empty" /\ RowFree /\ deleting' = "drop"
                 /\ dataRow' \in {dataRow, NoDataRow}
                 /\ UNCHANGED <<storeKind, storeLive, rowLock, dataOp, shown>>
DeleteStoreRow == /\ deleting = "drop" /\ deleting' = "done"
                  /\ storeLive' \in {TRUE, FALSE}
                  /\ UNCHANGED <<storeKind, dataRow, rowLock, dataOp, shown>>

CellStep(o) == \/ KVSet(o) \/ LockRow(o) \/ UpdateRow(o) \/ InsertRow(o) \/ KVDelete(o)
               \/ ClearCell(o)
RecordStep(o) == \/ RecordAppend(o) \/ NoSuchRecord(o) \/ RecordUpdate(o) \/ RecordDelete(o)
                 \/ RecordClear(o)
DeleteDataStore == LoadStore \/ DeleteEntries \/ DeleteStoreRow

NextStores == \/ DeleteDataStore
              \/ \E o \in DataOps : \/ GetStore(o) \/ CellStep(o) \/ RecordStep(o)
                                    \/ RecordCount(o) \/ Publish(o) \/ FailOp(o)

StoresSpec == InitStores /\ [][NextStores]_storeVars

-----------------------------------------------------------------------------

\* The state is well formed.
StoresTypeOK ==
    /\ storeKind \in {"cell", "collection"} /\ storeLive \in BOOLEAN
    /\ dataRow \in [present : BOOLEAN, value : Seq(DataOps)]
    /\ rowLock \in DataOps \cup {NoOp}
    /\ dataOp \in [DataOps -> [pc : DataPcs, read : Seq(DataOps), note : Seq(DataOps)]]
    /\ deleting \in {"no", "empty", "drop", "done"} /\ shown \in Seq(DataOps)

\* A durable store behaves like the in-memory one behind the same interface
\* (storeBackend): an increment, an append or an edit that was acknowledged took
\* effect at one instant, whatever overlapped it, one that failed took none, and a
\* canvas is only told what a committed operation left or counted.
AtomicStatus(o) == CASE dataOp[o].pc \in {"count", "publish", "done"} -> "done"
                     [] dataOp[o].pc = "failed" -> "failed"
                     [] OTHER -> "pending"
Atomic == INSTANCE AtomicStore WITH
              content <- dataRow.value,
              status <- [o \in DataOps |-> AtomicStatus(o)],
              note <- [o \in DataOps |-> dataOp[o].note]
ImplementsAtomicStore == Atomic!Spec
=============================================================================
