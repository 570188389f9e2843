---------------------------- MODULE LegacyImport ----------------------------
(***************************************************************************)
(* The upgrade from 2.5, whose AP2 holds live in a file of their own       *)
(* (src/authorization/ap2/replay-store.ts), to the receipt database        *)
(* (src/storage/receipts/legacy-import.ts): migration, the import once per *)
(* source, the lock on the old file, what `doctor` foretells of a start,   *)
(* and backup and restore.  Mandates are bought with before, during and    *)
(* after it; a checkout must not be paid once under each version.          *)
(*                                                                         *)
(* Operators follow docs/storage.md: while a 2.5 gateway runs, the key     *)
(* names its file.  Either gateway may stop or crash at any time.          *)
(***************************************************************************)
EXTENDS HoldStore, Naturals, FiniteSets

CONSTANTS
    Path,          \* files that the deprecated key may name
    OldPath,       \* the one that the 2.5 gateway uses
    Unset,         \* the key is not configured
    InMemory,      \* the key is ":memory:"
    Presented,     \* the mandates that buyers present
    MaxBuys        \* bound on purchases

ASSUME LegacyConstants ==
    /\ OldPath \in Path /\ {Unset, InMemory, "none"} \cap Path = {} /\ Unset # "none"
    /\ Presented \subseteq Mandate
    /\ MaxBuys \in Nat

VARIABLES
    db,        \* the authorization_holds table of the receipt database
    file,      \* the deprecated files
    lock,      \* the file the new gateway holds in an exclusive transaction
    marker,    \* the row of legacy_imports: none, Unset for a NULL path, or a path
    schema,    \* user_version of the receipt database
    used,      \* the receipt database shows that AP2 was used
    old, new,  \* the two gateways
    buys,      \* purchases, each under a mandate and by one of the gateways
    charged,   \* purchases whose transfer was made
    saved,     \* the backup
    lossy,     \* the operator accepted the loss of the old records
    late       \* purchases held in a file of 2.5 that was imported already

databaseVars == <<db, marker, schema, used>>
fileVars == <<file, lock>>
purchaseVars == <<buys, charged>>
importVars == <<databaseVars, fileVars, old, new, purchaseVars, saved, lossy, late>>

Holds == INSTANCE HoldStore WITH holds <- db

KeySetting == Path \cup {Unset, InMemory}
OldSchema == 4
CurrentSchema == 5
NoRows == [m \in Mandate |-> NoHold]
NoBuy == [m |-> NoRequest, by |-> "none", at |-> "idle"]
NoBackup == [at |-> "none"]

ImportInit ==
    /\ Holds!HoldInit
    /\ file = [p \in Path |-> [exists |-> p = OldPath, rows |-> NoRows]]
    /\ lock = Unset
    /\ marker = "none"
    /\ schema = OldSchema
    /\ used = FALSE
    /\ old = "up"
    /\ new = "down"
    /\ buys = [r \in Request |-> NoBuy]
    /\ charged = {}
    /\ saved = NoBackup
    /\ lossy = FALSE
    /\ late = {}

-----------------------------------------------------------------------------
(* The file store of the 2.5 gateway.                                      *)

FileLive(rows, m) == rows[m].state \notin {"absent", "released"}

\* reserve: by reference, and by another live reference to the checkout.
FileReserves(m, r) ==
    LET rows == file[OldPath].rows
    IN  /\ lock # OldPath
        /\ \A n \in Mandate : BindingOf[n] = BindingOf[m] => ~FileLive(rows, n)
        /\ file' = [file EXCEPT ![OldPath].rows[m] = [state |-> "reserved", req |-> r]]

\* A locked file answers SQLITE_BUSY and the row stays as it was.
FileMoves(m, to, r) ==
    LET row == file[OldPath].rows[m]
    IN  file' = IF lock # OldPath /\ row.state \in {"reserved", "uncertain"} /\ row.req = r
                THEN [file EXCEPT ![OldPath].rows[m].state = to]
                ELSE file

-----------------------------------------------------------------------------
(* Purchases: hold, journal and transfer, hold again.                      *)

Buy(r, m, by) ==
    /\ buys[r].at = "idle"
    /\ Cardinality({q \in Request : buys[q].at # "idle"}) < MaxBuys
    /\ buys' = [buys EXCEPT ![r] = [m |-> m, by |-> by, at |-> "held"]]
    /\ UNCHANGED <<lock, marker, schema, used, old, new, charged, saved, lossy>>

\* The new gateway never learns of a row that follows the import.
OldBuys(r, m) ==
    /\ old = "up"
    /\ FileReserves(m, r)
    /\ Buy(r, m, "old")
    /\ late' = IF marker \in Path THEN late \cup {r} ELSE late
    /\ UNCHANGED db

NewBuys(r, m) ==
    /\ new = "up"
    /\ Holds!ReserveHold(m, r)
    /\ Buy(r, m, "new")
    /\ UNCHANGED <<file, late>>

\* The journal row with the mandate is written before the transfer is tried.
Settle(r) ==
    /\ buys[r].at = "held"
    /\ used' = TRUE
    /\ \/ buys' = [buys EXCEPT ![r].at = "paid"] /\ charged' = charged \cup {r}
       \/ buys' = [buys EXCEPT ![r].at = "failed"] /\ UNCHANGED charged
    /\ UNCHANGED <<db, marker, schema, fileVars, old, new, saved, lossy, late>>

\* A paid mandate is consumed, or uncertain when no verdict arrived.
Targets(at) == IF at = "paid" THEN {"consumed", "uncertain"} ELSE {"released", "uncertain"}

Finalize(r) ==
    /\ buys[r].at \in {"paid", "failed"}
    /\ \E to \in Targets(buys[r].at) :
        IF buys[r].by = "old"
        THEN FileMoves(buys[r].m, to, r) /\ UNCHANGED db
        ELSE Holds!TransitionHold(buys[r].m, to, r) /\ UNCHANGED file
    /\ buys' = [buys EXCEPT ![r].at = "done"]
    /\ UNCHANGED <<lock, marker, schema, used, old, new, charged, saved, lossy, late>>

\* A process that ends forgets its purchases; one without a journal row is dropped.
Ended(g) ==
    [r \in Request |->
        IF buys[r].by # g THEN buys[r]
        ELSE [buys[r] EXCEPT !.at = IF @ \in {"held", "dropped"} THEN "dropped" ELSE "done"]]

-----------------------------------------------------------------------------
(* The 2.5 gateway and the operator's hands on its file.                   *)

OldStops ==
    /\ old = "up"
    /\ old' = "down"
    /\ buys' = Ended("old")
    /\ UNCHANGED <<databaseVars, fileVars, new, charged, saved, lossy, late>>

\* init refuses a database of any other schema.
OldStarts ==
    /\ old = "down"
    /\ schema = OldSchema
    /\ file[OldPath].exists
    /\ old' = "up"
    /\ UNCHANGED <<databaseVars, fileVars, new, purchaseVars, saved, lossy, late>>

FileIsMislaid ==
    /\ old = "down" /\ lock # OldPath /\ file[OldPath].exists
    /\ file' = [file EXCEPT ![OldPath] = [exists |-> FALSE, rows |-> NoRows]]
    /\ UNCHANGED <<databaseVars, lock, old, new, purchaseVars, saved, lossy, late>>

\* An empty file accepts the loss.
EmptyFile(p) ==
    /\ ~file[p].exists
    /\ file' = [file EXCEPT ![p].exists = TRUE]
    /\ lossy' = TRUE
    /\ UNCHANGED <<databaseVars, lock, old, new, purchaseVars, saved, late>>

-----------------------------------------------------------------------------
(* A start of the new gateway: open and migrate, then import.              *)

Open ==
    /\ new = "down"
    /\ new' = "opened"
    /\ schema' = CurrentSchema
    /\ UNCHANGED <<db, marker, used, fileVars, old, purchaseVars, saved, lossy, late>>

HasFile(key) == key \in Path /\ file[key].exists

\* Mutant: past use is not looked for.
ForgottenNever(key, ap2) == FALSE

\* No file, no earlier import or check, and AP2 was used on this database.
Forgotten(key, ap2) == marker = "none" /\ ap2 /\ key # InMemory /\ used

\* The key names another file than the one imported, or its records are missed.
Refused(key, ap2) ==
    \/ key \in Path /\ marker \in Path /\ marker # key
    \/ ~HasFile(key) /\ Forgotten(key, ap2)

\* What a start is configured with; AP2 disabled hides its key.
Configured(key, ap2) ==
    /\ ~ap2 => key = Unset
    /\ old = "up" => ap2 /\ key = OldPath

StartFails(key, ap2) ==
    /\ new = "opened"
    /\ Configured(key, ap2)
    /\ Refused(key, ap2) \/ (HasFile(key) /\ marker \notin Path)
    /\ new' = "down"
    /\ UNCHANGED <<databaseVars, fileVars, old, purchaseVars, saved, lossy, late>>

Serving(ap2) == IF ap2 THEN "up" ELSE "plain"

\* Nothing to import: a check that passed is recorded with a NULL path.
StartWithoutFile(key, ap2) ==
    /\ new = "opened"
    /\ Configured(key, ap2)
    /\ ~HasFile(key) /\ ~Refused(key, ap2)
    /\ marker' = IF marker = "none" /\ ap2 THEN Unset ELSE marker
    /\ lossy' = (lossy \/ (key = InMemory /\ marker = "none"))
    /\ new' = Serving(ap2)
    /\ UNCHANGED <<db, schema, used, fileVars, old, purchaseVars, saved, late>>

\* A reference that is already blocked stays as it is.
Imported(rows) ==
    [m \in Mandate |->
        IF rows[m].state = "absent" \/ Holds!LiveHold(m) THEN db[m] ELSE rows[m]]

\* Rows and marker in one transaction, under a lock that is kept.  A later
\* source may fail: the locks go, what was imported stays.
Import(key) ==
    /\ new = "opened"
    /\ Configured(key, TRUE)
    /\ HasFile(key)
    /\ marker \notin Path
    /\ db' = Imported(file[key].rows)
    /\ marker' = key
    /\ \/ lock' = key /\ new' = "up"
       \/ new' = "down" /\ UNCHANGED lock
    /\ UNCHANGED <<schema, used, file, old, purchaseVars, saved, lossy, late>>

\* Imported before: the file is locked, or cannot be opened any more.
Relock(key) ==
    /\ new = "opened"
    /\ Configured(key, TRUE)
    /\ HasFile(key)
    /\ marker = key
    /\ lock' = key \/ UNCHANGED lock
    /\ new' = "up"
    /\ UNCHANGED <<databaseVars, file, old, purchaseVars, saved, lossy, late>>

\* A clean stop or a crash, at any point: every lock goes with the process.
NewEnds ==
    /\ new # "down"
    /\ new' = "down"
    /\ lock' = Unset
    /\ buys' = Ended("new")
    /\ UNCHANGED <<databaseVars, file, old, charged, saved, lossy, late>>

\* `reconcile` runs on a current schema with an imported file and releases
\* holds of requests that never reached their journal row.
ReleaseOrphan(key, m) ==
    /\ schema = CurrentSchema
    /\ ~(HasFile(key) /\ marker \notin Path)
    /\ db[m].state = "reserved"
    /\ buys[db[m].req].at = "dropped"
    /\ Holds!TransitionHold(m, "released", db[m].req)
    /\ UNCHANGED <<marker, schema, used, fileVars, old, new, purchaseVars, saved, lossy, late>>

-----------------------------------------------------------------------------
(* Backup beside running gateways, and restore with all of them stopped.   *)

\* The receipt database first.
BackupReceipts(key) ==
    /\ saved.at = "none"
    /\ Configured(key, TRUE)
    /\ saved' = [at |-> "receipts", key |-> key, db |-> db, marker |-> marker,
                 schema |-> schema, used |-> used, buys |-> buys, charged |-> charged,
                 late |-> late, rows |-> NoRows]
    /\ UNCHANGED <<databaseVars, fileVars, old, new, purchaseVars, lossy, late>>

\* Then the file, unless the copied database has it imported.
Copies(b) == HasFile(b.key) /\ b.marker \notin Path

BackupFile ==
    /\ saved.at = "receipts"
    /\ saved' = IF Copies(saved)
                THEN [saved EXCEPT !.at = "both", !.rows = file[saved.key].rows]
                ELSE [saved EXCEPT !.at = "alone"]
    /\ UNCHANGED <<databaseVars, fileVars, old, new, purchaseVars, lossy, late>>

\* Records after the snapshot are lost, as documented.
Restore ==
    /\ saved.at \in {"both", "alone"}
    /\ old = "down" /\ new = "down"
    /\ db' = saved.db
    /\ marker' = saved.marker
    /\ schema' = saved.schema
    /\ used' = saved.used
    /\ file' = IF saved.at = "both"
               THEN [file EXCEPT ![saved.key] = [exists |-> TRUE, rows |-> saved.rows]]
               ELSE file
    /\ buys' = [r \in Request |->
                  [saved.buys[r] EXCEPT !.at = IF @ = "held" THEN "dropped"
                                              ELSE IF @ \in {"paid", "failed"} THEN "done"
                                              ELSE @]]
    /\ charged' = saved.charged
    /\ late' = saved.late
    /\ saved' = [at |-> "restored"]
    /\ UNCHANGED <<lock, old, new, lossy>>

-----------------------------------------------------------------------------
(* `doctor`, read-only and on either schema.                                *)

\* Recorded file imports; a database that was not migrated has none.
DoctorImports == IF schema = CurrentSchema THEN {marker} \cap Path ELSE {}

\* Mutant: a check that passed is not counted as recorded.
DoctorMissingUnlessImported == used /\ marker \notin Path

\* Past use and no recorded import or check.
DoctorMissing == used /\ (schema = CurrentSchema => marker = "none")

\* legacyStoreCheck: an import names another file, or its records are missed.
DoctorFails(key) ==
    IF DoctorImports # {} THEN key \in Path /\ key \notin DoctorImports
    ELSE key # InMemory /\ ~HasFile(key) /\ DoctorMissing

-----------------------------------------------------------------------------
ImportNext ==
    \/ \E r \in Request :
        \/ \E m \in Presented : OldBuys(r, m) \/ NewBuys(r, m)
        \/ Settle(r)
        \/ Finalize(r)
    \/ OldStops \/ OldStarts \/ FileIsMislaid
    \/ \E p \in Path : EmptyFile(p) \/ Import(p) \/ Relock(p)
    \/ Open \/ NewEnds
    \/ \E key \in KeySetting :
        \/ \E ap2 \in BOOLEAN : StartFails(key, ap2) \/ StartWithoutFile(key, ap2)
        \/ \E m \in Presented : ReleaseOrphan(key, m)
        \/ BackupReceipts(key)
    \/ BackupFile \/ Restore

ImportSpec == ImportInit /\ [][ImportNext]_importVars

-----------------------------------------------------------------------------
\* A checkout is paid at most once, whichever version its mandates were held
\* under, whatever failed, crashed or was restored between them
\* (importLegacyStores, the file store's lock and the copies of `backup`).
\* Two things are beyond the import: the operator accepted the loss of the old
\* records, and what a 2.5 gateway reserves in its file after the import, once
\* the lock is gone with a start that failed or a gateway that ended.
CheckoutPaidOnceAcrossVersions ==
    ~lossy =>
        \A q, r \in charged \ late :
            q # r => BindingOf[buys[q].m] # BindingOf[buys[r].m]

\* `doctor` reports FAIL for exactly the settings that the next start refuses
\* (legacyStoreCheck beside importLegacyStores), before and after migration.
DoctorForetellsStart ==
    \A key \in KeySetting : DoctorFails(key) <=> Refused(key, TRUE)
=============================================================================
