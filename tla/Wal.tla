----------------------------------- MODULE Wal -----------------------------------
(* The write-ahead log of internal/storage/wal.go as its writers see it: a    *)
(* sequence of records and one operation, append. Writers are serialised by   *)
(* WAL.mu, so an append is one step.                                          *)
(* An append may return an error: the write failed and left nothing, or the   *)
(* write succeeded and only the Sync failed, so the record is there although  *)
(* the caller is told that it is not. A write that leaves half a record is    *)
(* outside this module. REQUEST records are left out: recovery ignores them.  *)
EXTENDS OrionTasks, Sequences

CONSTANT MaxWalErrors  \* bound: failed appends in one behaviour
ASSUME WalAssumption == MaxWalErrors \in Nat

VARIABLES
    wal,       \* the records of the file, oldest first
    walErrors  \* how many appends have returned an error
walVars == <<wal, walErrors>>

(* Constructors of WalEntry; "CASCADE" is a FAIL record with is_cascade.      *)
IngestRecord(b) == [type |-> "INGEST", tasks |-> b]
StartRecord(t) == [type |-> "START", task |-> t]
CompleteRecord(t) == [type |-> "COMPLETE", task |-> t]
FailRecord(t) == [type |-> "FAIL", task |-> t]
CascadeRecord(t) == [type |-> "CASCADE", task |-> t]

Record == [type : {"INGEST"}, tasks : Batches]
          \cup [type : {"START", "COMPLETE", "FAIL", "CASCADE"}, task : Tasks]

WalTypeOK == wal \in Seq(Record) /\ walErrors \in 0 .. MaxWalErrors

WalInit == wal = << >> /\ walErrors = 0

(* append returns nil.                                                        *)
AppendOk(r) == wal' = Append(wal, r) /\ UNCHANGED walErrors

(* append returns an error.                                                   *)
AppendError(r) ==
    /\ walErrors < MaxWalErrors
    /\ walErrors' = walErrors + 1
    /\ \/ UNCHANGED wal              \* file.Write failed
       \/ wal' = Append(wal, r)      \* only file.Sync failed

(* The caller goes on in the same way whether append succeeded or not.        *)
AppendIgnoringErrors(r) == AppendOk(r) \/ AppendError(r)

(* The places of the log that hold record r.                                  *)
Places(r) == {i \in DOMAIN wal : wal[i] = r}
Logged(r) == Places(r) # {}

(* RecoveryState.InProgressTasks: the tasks whose START record is followed by *)
(* no record that ends the attempt.                                           *)
InProgress ==
    LET ends(t) == Places(CompleteRecord(t)) \cup Places(FailRecord(t))
                   \cup Places(CascadeRecord(t))
    IN  {t \in Tasks : \E i \in Places(StartRecord(t)) : \A j \in ends(t) : j < i}

(* RecoveryState.FailedTasks: every task of which some attempt has failed.    *)
FailedTasks == {t \in Tasks : Logged(FailRecord(t)) \/ Logged(CascadeRecord(t))}
=============================================================================
