-------------------------------- MODULE Audit --------------------------------
(***************************************************************************)
(* The audit recorder of the daemon (pkg/audit/recorder.go) and its store  *)
(* (pkg/audit/sqlstore.go).  Record never blocks; one goroutine writes;    *)
(* Close lets it finish before it closes the store.  Record and the first  *)
(* half of Close exclude each other by the recorder's mutex and are atomic.*)
(***************************************************************************)
EXTENDS Sequences, Naturals

CONSTANTS
  QueueSize,   \* capacity of the queue
  Closers      \* goroutines that call Close

ASSUME AuditAssumption == QueueSize \in Nat \ {0}

VARIABLES
  queue,
  closed,
  writer,    \* run: "off", "idle", "saving", "done"
  saving,    \* the record in its hands, as a sequence
  store,     \* "none", "open", "closed"
  closing,   \* where each Close is, and whether it was the first
  kept,      \* the records that were let into the queue
  passed     \* the records that were passed to the store

auditVars == <<queue, closed, writer, saving, store, closing, kept, passed>>

AuditInit ==
  /\ queue = <<>>
  /\ closed = FALSE
  /\ writer = "off"
  /\ saving = <<>>
  /\ store = "none"
  /\ closing = [c \in Closers |-> "no"]
  /\ kept = <<>>
  /\ passed = <<>>

\* newAuditor: OpenSQL, with the schema, and NewRecorder.  Without a store the daemon
\* does not start.
OpenStore ==
  /\ store = "none"
  /\ store' = "open"
  /\ writer' = "idle"
  /\ UNCHANGED <<queue, closed, saving, closing, kept, passed>>

\* Record: ignored after Close, dropped when the queue is full.
Record(rec) ==
  IF closed \/ Len(queue) >= QueueSize THEN UNCHANGED auditVars
  ELSE /\ queue' = Append(queue, rec)
       /\ kept' = Append(kept, rec)
       /\ UNCHANGED <<closed, writer, saving, store, closing, passed>>

\* run: the next record, or the end of a closed queue.
TakeRecord ==
  /\ writer = "idle"
  /\ \/ /\ queue # <<>>
        /\ saving' = <<Head(queue)>>
        /\ queue' = Tail(queue)
        /\ writer' = "saving"
     \/ /\ queue = <<>> /\ closed
        /\ writer' = "done"
        /\ UNCHANGED <<queue, saving>>
  /\ UNCHANGED <<closed, store, closing, kept, passed>>

\* save: when the store fails, or takes too long, that is logged and nothing else.
SaveRecord ==
  /\ writer = "saving"
  /\ passed' = passed \o saving
  /\ saving' = <<>>
  /\ writer' = "idle"
  /\ UNCHANGED <<queue, closed, store, closing, kept>>

\* Close, under the mutex.
CloseQueue(c) ==
  /\ store # "none"
  /\ closing[c] = "no"
  /\ closing' = [closing EXCEPT ![c] = IF closed THEN "waits" ELSE "drains"]
  /\ closed' = TRUE
  /\ UNCHANGED <<queue, writer, saving, store, kept, passed>>

\* Closes the store without waiting for the writer.
MutCloseAtOnce(c) ==
  /\ closing[c] \in {"waits", "drains"}
  /\ store' = IF closing[c] = "drains" THEN "closed" ELSE store
  /\ closing' = [closing EXCEPT ![c] = "returned"]
  /\ UNCHANGED <<queue, closed, writer, saving, kept, passed>>

\* Close waits for the writer, and the first one closes the store.
CloseStore(c) ==
  /\ closing[c] \in {"waits", "drains"}
  /\ writer = "done"
  /\ store' = IF closing[c] = "drains" THEN "closed" ELSE store
  /\ closing' = [closing EXCEPT ![c] = "returned"]
  /\ UNCHANGED <<queue, closed, writer, saving, kept, passed>>

WriterStep == TakeRecord \/ SaveRecord
AuditStep == OpenStore \/ WriterStep \/ \E c \in Closers : CloseQueue(c) \/ CloseStore(c)

-----------------------------------------------------------------------------
(* Properties *)

\* Close: when it returns, every record that was let in has been passed to the
\* store once and in order, and none is left for a store that is closed.
DrainedBeforeClose ==
  store = "closed" \/ (\E c \in Closers : closing[c] = "returned") => passed = kept
=============================================================================
