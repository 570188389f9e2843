---------------------------- MODULE ReceiptProofs ----------------------------
(***************************************************************************)
(* Proofs about the receipt database: the upgrade from 2.5 (LegacyImport)  *)
(* pays no checkout twice and fails where doctor says it will; the lists   *)
(* of the journal (TransactionJournal) miss no transaction.                *)
(***************************************************************************)
EXTENDS LegacyImport, TransactionJournal, FiniteSetTheorems, WellFoundedInduction, TLAPS

-----------------------------------------------------------------------------
(* The inductive invariant of the upgrade.                                 *)

BuyPlace == {"idle", "held", "paid", "failed", "done", "dropped"}
Buys == [Request -> [m : Mandate \cup {NoRequest}, by : {"none", "old", "new"}, at : BuyPlace]]
Rows == [Mandate -> Hold]
Markers == Path \cup {"none", Unset}

UpgradeTypeOK ==
    /\ db \in Rows
    /\ file \in [Path -> [exists : BOOLEAN, rows : Rows]]
    /\ lock \in {Unset, OldPath} /\ marker \in {"none", Unset, OldPath}
    /\ schema \in {OldSchema, CurrentSchema}
    /\ old \in {"up", "down"} /\ new \in {"up", "plain", "opened", "down"}
    /\ buys \in Buys /\ charged \subseteq Request

\* A live row of r under its mandate.
HeldIn(rows, m, r) == m \in Mandate /\ FileLive(rows, m) /\ rows[m].req = r

\* r moved money or still may, under a hold that the import could see.
Engaged(r) == r \notin late /\ (r \in charged \/ buys[r].at \in {"held", "paid"})

\* Where the holds are at each stage of the upgrade: the marker tells whether
\* the table is in use; a 2.5 gateway that is still up has its file, imported or
\* not.
StageOK ==
    /\ \A p \in Path : file[p].exists => p = OldPath
    /\ schema = OldSchema => marker = "none" /\ new = "down"
    /\ marker = "none" => db = NoRows /\ new # "up"
    /\ new \in {"down", "opened"} => lock = Unset
    /\ lock = OldPath => marker = OldPath
    /\ old = "up" => /\ file[OldPath].exists
                     /\ marker = "none" \/ marker = OldPath
    /\ charged # {} => used

\* Every purchase that may be paid has its live row where the next reservation
\* for the checkout will look.
PurchaseOK(r) ==
    /\ r \in charged => buys[r].at \in {"paid", "done"}
    /\ buys[r].at \in {"held", "paid", "failed"} =>
          buys[r].by \in {"old", "new"} /\ buys[r].m \in Mandate
    /\ buys[r].at \in {"held", "paid", "failed"} /\ buys[r].by = "old" => old = "up"
    /\ buys[r].at \in {"held", "paid", "failed"} /\ buys[r].by = "new" => new = "up"
    /\ Engaged(r) => buys[r].by \in {"old", "new"} /\ buys[r].m \in Mandate
    /\ Engaged(r) /\ buys[r].by = "new" => HeldIn(db, buys[r].m, r)
    /\ Engaged(r) /\ buys[r].by = "old" =>
          /\ marker # Unset
          /\ marker = OldPath => HeldIn(db, buys[r].m, r)
          /\ file[OldPath].exists => HeldIn(file[OldPath].rows, buys[r].m, r)

OnePerCheckout ==
    \A q, r \in Request :
        Engaged(q) /\ Engaged(r) /\ q # r => BindingOf[buys[q].m] # BindingOf[buys[r].m]

\* A backup is a state that the database was in; its file has every row that the
\* purchases of the copied database need.
Snapshot == saved.at \in {"receipts", "both", "alone"}

SavedOK ==
    /\ saved.at \in {"none", "receipts", "both", "alone", "restored"}
    /\ Snapshot =>
        /\ saved = [at |-> saved.at, key |-> saved.key, db |-> saved.db, marker |-> saved.marker,
                    schema |-> saved.schema, used |-> saved.used, buys |-> saved.buys,
                    charged |-> saved.charged, late |-> saved.late, rows |-> saved.rows]
        /\ saved.db \in Rows /\ saved.rows \in Rows /\ saved.buys \in Buys
        /\ saved.marker \in {"none", Unset, OldPath}
        /\ saved.schema \in {OldSchema, CurrentSchema}
        /\ saved.schema = OldSchema => saved.marker = "none"
        /\ saved.marker = "none" => saved.db = NoRows
        /\ saved.charged \subseteq charged
        /\ saved.charged # {} => saved.used
        /\ saved.at = "both" => saved.key = OldPath
        /\ \A r \in saved.charged :
              /\ saved.buys[r].m = buys[r].m /\ saved.buys[r].by = buys[r].by
              /\ saved.buys[r].at \in {"paid", "done"}
              /\ r \in late => r \in saved.late
              /\ r \notin saved.late /\ buys[r].by = "new" => HeldIn(saved.db, buys[r].m, r)
              /\ r \notin saved.late /\ buys[r].by = "old" =>
                    /\ saved.marker # Unset
                    /\ saved.marker = OldPath => HeldIn(saved.db, buys[r].m, r)
                    /\ saved.at = "both" => HeldIn(saved.rows, buys[r].m, r)

UpgradeInv ==
    /\ UpgradeTypeOK /\ StageOK /\ OnePerCheckout /\ SavedOK
    /\ \A r \in Request : PurchaseOK(r)

-----------------------------------------------------------------------------
(* What steps have in common.                                              *)

\* No purchase becomes engaged, so no checkout has two.
LEMMA CheckoutsStay ==
    ASSUME OnePerCheckout,
           \A r \in Request : Engaged(r)' => Engaged(r) /\ buys'[r].m = buys[r].m
    PROVE  OnePerCheckout'
  <1> SUFFICES ASSUME NEW q \in Request, NEW r \in Request, Engaged(q)', Engaged(r)', q # r
               PROVE  BindingOf[buys'[q].m] # BindingOf[buys'[r].m]
    BY DEF OnePerCheckout
  <1>1. Engaged(q) /\ Engaged(r) /\ buys'[q].m = buys[q].m /\ buys'[r].m = buys[r].m
    OBVIOUS
  <1> QED BY <1>1 DEF OnePerCheckout

\* A backup stays good while charged purchases stay as they are.
LEMMA BackupStays ==
    ASSUME SavedOK, saved' = saved, charged \subseteq charged', late' \cap charged \subseteq late,
           \A r \in charged : buys'[r].m = buys[r].m /\ buys'[r].by = buys[r].by
    PROVE  SavedOK'
  <1>1. CASE Snapshot
    <2>1. \A r \in saved.charged : r \in charged
      BY <1>1 DEF SavedOK
    <2> QED BY <1>1, <2>1 DEF SavedOK, Snapshot
  <1>2. CASE ~Snapshot
    BY <1>2 DEF SavedOK, Snapshot
  <1> QED BY <1>1, <1>2

\* Steps that leave every table and every purchase alone.
LEMMA TablesStay ==
    ASSUME UpgradeInv, UNCHANGED <<db, file, buys, charged, saved, late>>,
           \A r \in Request : buys[r].at \in {"held", "paid", "failed"} =>
              /\ buys[r].by = "old" => old' = "up"
              /\ buys[r].by = "new" => new' = "up",
           marker' # marker =>
              marker' = Unset /\ \A r \in Request : ~(Engaged(r) /\ buys[r].by = "old")
    PROVE  OnePerCheckout' /\ SavedOK' /\ \A r \in Request : PurchaseOK(r)'
  <1>1. \A r : Engaged(r)' <=> Engaged(r)
    BY DEF Engaged
  <1>2. OnePerCheckout'
    BY <1>1, CheckoutsStay DEF UpgradeInv
  <1>3. SavedOK'
    BY BackupStays DEF UpgradeInv
  <1>4. ASSUME NEW r \in Request
        PROVE  PurchaseOK(r)'
    <2>1. PurchaseOK(r)
      BY DEF UpgradeInv
    <2>2. OldPath # Unset
      BY LegacyConstants
    <2>3. CASE marker' = marker
      BY <1>1, <2>1, <2>3 DEF PurchaseOK, HeldIn, FileLive
    <2>4. CASE marker' # marker
      <3>1. ~(Engaged(r) /\ buys[r].by = "old")
        BY <2>4
      <3> QED BY <1>1, <2>1, <3>1 DEF PurchaseOK, HeldIn, FileLive
    <2> QED BY <2>3, <2>4
  <1> QED BY <1>2, <1>3, <1>4

-----------------------------------------------------------------------------
(* Starts.                                                                 *)

\* Starts that record nothing.
LEMMA StartsKeep ==
    ASSUME UpgradeInv, OldStarts \/ Open \/ \E key \in KeySetting, ap2 \in BOOLEAN : StartFails(key, ap2)
    PROVE  UpgradeInv'
  <1>0. /\ UpgradeTypeOK /\ StageOK /\ \A r \in Request : PurchaseOK(r)
    BY DEF UpgradeInv
  <1>1. CASE OldStarts
    <2>1. UpgradeTypeOK' /\ StageOK'
      BY <1>0, <1>1 DEF OldStarts, UpgradeTypeOK, StageOK, databaseVars, fileVars, purchaseVars
    <2>2. OnePerCheckout' /\ SavedOK' /\ \A r \in Request : PurchaseOK(r)'
      BY <1>0, <1>1, TablesStay DEF OldStarts, PurchaseOK, databaseVars, fileVars, purchaseVars
    <2> QED BY <2>1, <2>2 DEF UpgradeInv
  <1>2. CASE Open
    <2>1. UpgradeTypeOK' /\ StageOK'
      BY <1>0, <1>2 DEF Open, UpgradeTypeOK, StageOK, fileVars, purchaseVars, OldSchema, CurrentSchema
    <2>2. OnePerCheckout' /\ SavedOK' /\ \A r \in Request : PurchaseOK(r)'
      BY <1>0, <1>2, TablesStay DEF Open, PurchaseOK, fileVars, purchaseVars
    <2> QED BY <2>1, <2>2 DEF UpgradeInv
  <1>3. ASSUME NEW key, NEW ap2, StartFails(key, ap2)
        PROVE  UpgradeInv'
    <2>1. UpgradeTypeOK' /\ StageOK'
      BY <1>0, <1>3 DEF StartFails, UpgradeTypeOK, StageOK, databaseVars, fileVars, purchaseVars
    <2>2. OnePerCheckout' /\ SavedOK' /\ \A r \in Request : PurchaseOK(r)'
      BY <1>0, <1>3, TablesStay DEF StartFails, PurchaseOK, databaseVars, fileVars, purchaseVars
    <2> QED BY <2>1, <2>2 DEF UpgradeInv
  <1> QED BY <1>1, <1>2, <1>3

\* Without a file the new gateway serves AP2 only where nothing was bought under
\* 2.5, or the operator wrote the old records off.
LEMMA StartWithoutFileKeeps ==
    ASSUME UpgradeInv, NEW key \in KeySetting, NEW ap2 \in BOOLEAN, StartWithoutFile(key, ap2), ~lossy'
    PROVE  UpgradeInv'
  <1>0. /\ UpgradeTypeOK /\ StageOK /\ \A r \in Request : PurchaseOK(r)
        /\ OldPath \in Path /\ Unset # OldPath /\ Unset # "none" /\ OldPath # "none"
    BY LegacyConstants DEF UpgradeInv
  <1>1. /\ new = "opened" /\ Configured(key, ap2) /\ ~HasFile(key) /\ ~Refused(key, ap2)
        /\ marker' = (IF marker = "none" /\ ap2 THEN Unset ELSE marker)
        /\ lossy' = (lossy \/ (key = InMemory /\ marker = "none"))
        /\ new' = (IF ap2 THEN "up" ELSE "plain")
        /\ UNCHANGED <<db, schema, used, file, lock, old, buys, charged, saved, late>>
    BY DEF StartWithoutFile, Serving, fileVars, purchaseVars
  <1>2. old # "up"
    BY <1>0, <1>1 DEF Configured, HasFile, StageOK
  <1>3. marker = "none" /\ ap2 => charged = {}
    <2>1. marker = "none" => key # InMemory
      BY <1>1
    <2> QED BY <1>0, <1>1, <2>1 DEF Refused, Forgotten, StageOK
  <1>4. marker = "none" /\ ap2 => \A r \in Request : ~(Engaged(r) /\ buys[r].by = "old")
    BY <1>0, <1>2, <1>3 DEF Engaged, PurchaseOK
  <1>5. UpgradeTypeOK'
    BY <1>0, <1>1 DEF UpgradeTypeOK
  <1>6. StageOK'
    BY <1>0, <1>1, <1>2 DEF StageOK, UpgradeTypeOK
  <1>7. marker' # marker => marker' = Unset /\ \A r \in Request : ~(Engaged(r) /\ buys[r].by = "old")
    BY <1>1, <1>4
  <1>8. OnePerCheckout' /\ SavedOK' /\ \A r \in Request : PurchaseOK(r)'
    BY <1>0, <1>1, <1>2, <1>7, TablesStay DEF PurchaseOK
  <1> QED BY <1>5, <1>6, <1>8 DEF UpgradeInv

\* A later start locks the imported file again.
LEMMA RelockKeeps ==
    ASSUME UpgradeInv, NEW key \in Path, Relock(key)
    PROVE  UpgradeInv'
  <1>0. /\ UpgradeTypeOK /\ StageOK /\ \A r \in Request : PurchaseOK(r)
        /\ OldPath \in Path /\ Unset # OldPath /\ OldPath # "none" /\ Unset # "none"
        /\ Unset \notin Path /\ "none" \notin Path
    BY LegacyConstants DEF UpgradeInv
  <1>1. /\ new = "opened" /\ marker = key /\ new' = "up" /\ key = OldPath
        /\ lock' = key \/ lock' = lock
        /\ UNCHANGED <<db, marker, schema, used, file, old, buys, charged, saved, late>>
    BY <1>0 DEF Relock, HasFile, StageOK, databaseVars, purchaseVars
  <1>2. UpgradeTypeOK' /\ StageOK'
    BY <1>0, <1>1 DEF UpgradeTypeOK, StageOK
  <1>3. OnePerCheckout' /\ SavedOK' /\ \A r \in Request : PurchaseOK(r)'
    BY <1>0, <1>1, TablesStay DEF PurchaseOK
  <1> QED BY <1>2, <1>3 DEF UpgradeInv

-----------------------------------------------------------------------------
(* Ends.                                                                   *)

\* What the end of a process makes of its purchases.
LEMMA EndedBuys ==
    ASSUME UpgradeTypeOK, NEW g \in {"old", "new"}
    PROVE  /\ Ended(g) \in Buys
           /\ \A r \in Request :
                 /\ Ended(g)[r].m = buys[r].m /\ Ended(g)[r].by = buys[r].by
                 /\ buys[r].by # g => Ended(g)[r].at = buys[r].at
                 /\ buys[r].by = g => Ended(g)[r].at \in {"dropped", "done"}
                 /\ buys[r].by = g /\ buys[r].at \in {"paid", "done"} => Ended(g)[r].at = "done"
  <1>1. ASSUME NEW r \in Request
        PROVE  /\ Ended(g)[r] \in [m : Mandate \cup {NoRequest}, by : {"none", "old", "new"}, at : BuyPlace]
               /\ Ended(g)[r].m = buys[r].m /\ Ended(g)[r].by = buys[r].by
               /\ buys[r].by # g => Ended(g)[r].at = buys[r].at
               /\ buys[r].by = g => Ended(g)[r].at \in {"dropped", "done"}
               /\ buys[r].by = g /\ buys[r].at \in {"paid", "done"} => Ended(g)[r].at = "done"
    <2>1. buys[r] \in [m : Mandate \cup {NoRequest}, by : {"none", "old", "new"}, at : BuyPlace]
      BY DEF UpgradeTypeOK, Buys
    <2>2. CASE buys[r].by # g
      <3>1. Ended(g)[r] = buys[r]
        BY <2>2 DEF Ended
      <3> QED BY <2>1, <2>2, <3>1
    <2>3. CASE buys[r].by = g
      <3>1. PICK a : a = IF buys[r].at \in {"held", "dropped"} THEN "dropped" ELSE "done"
        OBVIOUS
      <3>2. Ended(g)[r] = [buys[r] EXCEPT !.at = a]
        BY <2>3, <3>1 DEF Ended
      <3>3. PICK x : x = [buys[r] EXCEPT !.at = a]
        OBVIOUS
      <3>4. a \in {"dropped", "done"} /\ (buys[r].at \in {"paid", "done"} => a = "done")
        BY <3>1
      <3>5. x.m = buys[r].m /\ x.by = buys[r].by /\ x.at = a
        BY <2>1, <3>3
      <3>6. x \in [m : Mandate \cup {NoRequest}, by : {"none", "old", "new"}, at : BuyPlace]
        BY <2>1, <3>3, <3>4 DEF BuyPlace
      <3>7. Ended(g)[r] = x
        BY <3>2, <3>3
      <3> HIDE <3>2, <3>3
      <3> QED BY <2>3, <3>4, <3>5, <3>6, <3>7
    <2> QED BY <2>2, <2>3
  <1>2. Ended(g) \in Buys
    BY <1>1 DEF Ended, Buys
  <1> QED BY <1>1, <1>2

\* The end of either process leaves every table as it is.
LEMMA EndsKeep ==
    ASSUME UpgradeInv, OldStops \/ NewEnds
    PROVE  UpgradeInv'
  <1>0. /\ UpgradeTypeOK /\ StageOK /\ OnePerCheckout /\ SavedOK /\ \A r \in Request : PurchaseOK(r)
    BY DEF UpgradeInv
  <1>1. PICK g \in {"old", "new"} :
           /\ buys' = Ended(g)
           /\ g = "old" => old' = "down" /\ UNCHANGED <<new, lock>>
           /\ g = "new" => new' = "down" /\ lock' = Unset /\ old' = old
    BY DEF OldStops, NewEnds, fileVars
  <1>2. UNCHANGED <<db, marker, schema, used, file, charged, saved, late>>
    BY DEF OldStops, NewEnds, databaseVars, fileVars
  <1>3. \A r \in Request : Engaged(r)' => Engaged(r) /\ buys'[r].m = buys[r].m
    <2>1. \A r \in Request : buys'[r].at \in {"held", "paid"} => buys[r].at \in {"held", "paid"}
      BY <1>0, <1>1, EndedBuys
    <2> QED BY <1>0, <1>1, <1>2, <2>1, EndedBuys DEF Engaged
  <1>4. UpgradeTypeOK'
    BY <1>0, <1>1, <1>2, EndedBuys DEF UpgradeTypeOK
  <1>5. StageOK'
    <2>1. CASE g = "old"
      BY <1>0, <1>1, <1>2, <2>1 DEF StageOK, UpgradeTypeOK
    <2>2. CASE g = "new"
      BY <1>0, <1>1, <1>2, <2>2, LegacyConstants DEF StageOK, UpgradeTypeOK
    <2> QED BY <1>1, <2>1, <2>2
  <1>6. OnePerCheckout'
    BY <1>0, <1>3, CheckoutsStay
  <1>7. SavedOK'
    <2>1. charged \subseteq charged' /\ \A r \in charged : r \in Request
      BY <1>0, <1>2 DEF UpgradeTypeOK
    <2> QED BY <1>0, <1>1, <1>2, <2>1, EndedBuys, BackupStays
  <1>8. ASSUME NEW r \in Request
        PROVE  PurchaseOK(r)'
    <2>1. /\ buys'[r].m = buys[r].m /\ buys'[r].by = buys[r].by
          /\ buys[r].by # g => buys'[r].at = buys[r].at
          /\ buys[r].by = g => buys'[r].at \in {"dropped", "done"}
          /\ buys[r].by = g /\ buys[r].at \in {"paid", "done"} => buys'[r].at = "done"
      BY <1>0, <1>1, EndedBuys
    <2>2. PurchaseOK(r) /\ (Engaged(r)' => Engaged(r))
      BY <1>0, <1>3
    <2>3. HeldIn(db, buys[r].m, r)' <=> HeldIn(db, buys[r].m, r)
      BY <1>2, <2>1 DEF HeldIn, FileLive
    <2>4. HeldIn(file[OldPath].rows, buys[r].m, r)' <=> HeldIn(file[OldPath].rows, buys[r].m, r)
      BY <1>2, <2>1 DEF HeldIn, FileLive
    <2> QED BY <1>1, <1>2, <2>1, <2>2, <2>3, <2>4 DEF PurchaseOK
  <1> QED BY <1>4, <1>5, <1>6, <1>7, <1>8 DEF UpgradeInv

-----------------------------------------------------------------------------
(* Purchases.                                                              *)

\* A reservation adds one purchase; its checkout is one that nothing else is
\* engaged in, unless it comes late.
LEMMA BuyKeeps ==
    ASSUME UpgradeInv, NEW r \in Request, NEW m \in Mandate, NEW by \in {"old", "new"}, Buy(r, m, by),
           late \subseteq late', late' \subseteq late \cup {r},
           r \notin late' => \A q \in Request : Engaged(q) => BindingOf[buys[q].m] # BindingOf[m]
    PROVE  /\ OnePerCheckout' /\ SavedOK' /\ buys' \in Buys
           /\ r \notin charged /\ buys'[r] = [m |-> m, by |-> by, at |-> "held"]
           /\ \A q \in Request : q # r => buys'[q] = buys[q] /\ (Engaged(q)' <=> Engaged(q))
           /\ UNCHANGED <<lock, marker, schema, used, old, new, charged, saved>>
  <1>0. /\ UpgradeTypeOK /\ StageOK /\ OnePerCheckout /\ SavedOK /\ \A q \in Request : PurchaseOK(q)
    BY DEF UpgradeInv
  <1>1. /\ buys[r].at = "idle" /\ buys' = [buys EXCEPT ![r] = [m |-> m, by |-> by, at |-> "held"]]
        /\ UNCHANGED <<lock, marker, schema, used, old, new, charged, saved>>
    BY DEF Buy
  <1>2. /\ buys'[r] = [m |-> m, by |-> by, at |-> "held"]
        /\ \A q \in Request : q # r => buys'[q] = buys[q]
    BY <1>0, <1>1 DEF UpgradeTypeOK, Buys
  <1>3. buys' \in Buys
    BY <1>0, <1>1 DEF UpgradeTypeOK, Buys, BuyPlace
  <1>4. r \notin charged
    BY <1>0, <1>1 DEF PurchaseOK
  <1>5. /\ \A q \in Request : q # r => (Engaged(q)' <=> Engaged(q))
        /\ Engaged(r)' => r \notin late'
    BY <1>1, <1>2 DEF Engaged
  <1>6. OnePerCheckout'
    <2> SUFFICES ASSUME NEW p \in Request, NEW q \in Request, Engaged(p)', Engaged(q)', p # q
                 PROVE  BindingOf[buys'[p].m] # BindingOf[buys'[q].m]
      BY DEF OnePerCheckout
    <2>1. buys'[r].m = m
      BY <1>2
    <2>2. CASE p = r
      BY <1>2, <1>5, <2>1, <2>2
    <2>3. CASE q = r
      BY <1>2, <1>5, <2>1, <2>3
    <2>4. CASE p # r /\ q # r
      BY <1>0, <1>2, <1>5, <2>4 DEF OnePerCheckout
    <2> QED BY <2>2, <2>3, <2>4
  <1>7. SavedOK'
    <2>1. charged \subseteq charged' /\ \A q \in charged : q \in Request /\ q # r
      BY <1>0, <1>1, <1>4 DEF UpgradeTypeOK
    <2> QED BY <1>0, <1>1, <1>2, <2>1, BackupStays
  <1> QED BY <1>1, <1>2, <1>3, <1>4, <1>5, <1>6, <1>7

\* Before the import the table is empty and the file has every row; what 2.5
\* holds after it is late.
LEMMA OldBuysKeeps ==
    ASSUME UpgradeInv, NEW r \in Request, NEW m \in Mandate, OldBuys(r, m)
    PROVE  UpgradeInv'
  <1>0. /\ UpgradeTypeOK /\ StageOK /\ \A q \in Request : PurchaseOK(q)
        /\ OldPath \in Path /\ Unset # OldPath /\ OldPath # "none" /\ Unset # "none"
    BY LegacyConstants DEF UpgradeInv
  <1>1. /\ old = "up" /\ lock # OldPath /\ db' = db /\ Buy(r, m, "old")
        /\ \A n \in Mandate : BindingOf[n] = BindingOf[m] => ~FileLive(file[OldPath].rows, n)
        /\ file' = [file EXCEPT ![OldPath].rows[m] = [state |-> "reserved", req |-> r]]
        /\ late' = IF marker \in Path THEN late \cup {r} ELSE late
    BY DEF OldBuys, FileReserves
  <1>2. /\ file[OldPath].exists /\ marker \in {"none", OldPath} /\ (marker = "none" => db = NoRows)
        /\ r \notin late' => marker = "none"
    BY <1>0, <1>1 DEF StageOK
  <1>3. \A q \in Request : Engaged(q) /\ buys[q].by = "old" =>
            HeldIn(file[OldPath].rows, buys[q].m, q) /\ BindingOf[buys[q].m] # BindingOf[m]
    BY <1>0, <1>1, <1>2 DEF PurchaseOK, HeldIn
  <1>4. r \notin late' => \A q \in Request : Engaged(q) => buys[q].by = "old"
    <2>1. marker = "none" => \A n, q : ~HeldIn(db, n, q)
      BY <1>2 DEF HeldIn, FileLive, NoRows, NoHold
    <2> QED BY <1>0, <1>2, <2>1 DEF PurchaseOK
  <1>5. /\ OnePerCheckout' /\ SavedOK' /\ buys' \in Buys
        /\ r \notin charged /\ buys'[r] = [m |-> m, by |-> "old", at |-> "held"]
        /\ \A q \in Request : q # r => buys'[q] = buys[q] /\ (Engaged(q)' <=> Engaged(q))
        /\ UNCHANGED <<lock, marker, schema, used, old, new, charged, saved>>
    BY <1>1, <1>3, <1>4, BuyKeeps
  <1>6. /\ file' \in [Path -> [exists : BOOLEAN, rows : Rows]]
        /\ \A p \in Path : file'[p].exists = file[p].exists
        /\ file'[OldPath].rows = [file[OldPath].rows EXCEPT ![m] = [state |-> "reserved", req |-> r]]
    <2>1. [state |-> "reserved", req |-> r] \in Hold
      BY DEF Hold, HoldState
    <2> QED BY <1>0, <1>1, <2>1 DEF UpgradeTypeOK, Rows
  <1>7. /\ \A n \in Mandate : n # m => file'[OldPath].rows[n] = file[OldPath].rows[n]
        /\ file'[OldPath].rows[m] = [state |-> "reserved", req |-> r]
    BY <1>0, <1>6 DEF UpgradeTypeOK, Rows
  <1>8. UpgradeTypeOK'
    BY <1>0, <1>1, <1>5, <1>6 DEF UpgradeTypeOK
  <1>9. StageOK'
    BY <1>0, <1>1, <1>5, <1>6 DEF StageOK
  <1>10. PurchaseOK(r)'
    <2>1. HeldIn(file'[OldPath].rows, m, r)
      BY <1>7 DEF HeldIn, FileLive
    <2>2. /\ buys'[r].m = m /\ buys'[r].by = "old" /\ buys'[r].at = "held"
      BY <1>5
    <2>3. Engaged(r)' => marker' = "none"
      BY <1>2, <1>5 DEF Engaged
    <2> QED BY <1>0, <1>1, <1>2, <1>5, <2>1, <2>2, <2>3 DEF PurchaseOK
  <1>11. ASSUME NEW q \in Request, q # r
         PROVE  PurchaseOK(q)'
    <2>1. PurchaseOK(q) /\ buys'[q] = buys[q] /\ (Engaged(q)' <=> Engaged(q))
      BY <1>0, <1>5, <1>11
    <2>2. Engaged(q) /\ buys[q].by = "old" => HeldIn(file'[OldPath].rows, buys[q].m, q)
      BY <1>3, <1>7 DEF HeldIn, FileLive
    <2>3. HeldIn(db, buys[q].m, q)' <=> HeldIn(db, buys[q].m, q)
      BY <1>1, <2>1 DEF HeldIn, FileLive
    <2> QED BY <1>1, <1>2, <1>5, <2>1, <2>2, <2>3 DEF PurchaseOK
  <1> QED BY <1>5, <1>8, <1>9, <1>10, <1>11 DEF UpgradeInv

\* The new gateway reserves only once the old rows are in its table.
LEMMA NewBuysKeeps ==
    ASSUME UpgradeInv, NEW r \in Request, NEW m \in Mandate, NewBuys(r, m)
    PROVE  UpgradeInv'
  <1>0. /\ UpgradeTypeOK /\ StageOK /\ \A q \in Request : PurchaseOK(q)
        /\ OldPath \in Path /\ Unset # OldPath /\ OldPath # "none"
    BY LegacyConstants DEF UpgradeInv
  <1>1. /\ new = "up" /\ file' = file /\ late' = late /\ Buy(r, m, "new")
        /\ \A n \in Mandate : BindingOf[n] = BindingOf[m] => ~FileLive(db, n)
        /\ db' = [db EXCEPT ![m] = [state |-> "reserved", req |-> r]]
    BY DEF NewBuys, Holds!ReserveHold, Holds!HoldReplayed, Holds!LiveHold, FileLive
  <1>2. marker \in {Unset, OldPath} /\ marker # "none"
    BY <1>0, <1>1 DEF StageOK, UpgradeTypeOK
  <1>3. \A q \in Request : Engaged(q) => HeldIn(db, buys[q].m, q)
    BY <1>0, <1>2 DEF PurchaseOK
  <1>4. \A q \in Request : Engaged(q) => BindingOf[buys[q].m] # BindingOf[m]
    BY <1>1, <1>3 DEF HeldIn
  <1>5. /\ OnePerCheckout' /\ SavedOK' /\ buys' \in Buys
        /\ r \notin charged /\ buys'[r] = [m |-> m, by |-> "new", at |-> "held"]
        /\ \A q \in Request : q # r => buys'[q] = buys[q] /\ (Engaged(q)' <=> Engaged(q))
        /\ UNCHANGED <<lock, marker, schema, used, old, new, charged, saved>>
    BY <1>1, <1>4, BuyKeeps
  <1>6. db' \in Rows
    <2>1. [state |-> "reserved", req |-> r] \in Hold
      BY DEF Hold, HoldState
    <2> QED BY <1>0, <1>1, <2>1 DEF UpgradeTypeOK, Rows
  <1>7. /\ \A n \in Mandate : n # m => db'[n] = db[n]
        /\ db'[m] = [state |-> "reserved", req |-> r]
    BY <1>0, <1>1 DEF UpgradeTypeOK, Rows
  <1>8. UpgradeTypeOK'
    BY <1>0, <1>1, <1>5, <1>6 DEF UpgradeTypeOK
  <1>9. StageOK'
    BY <1>0, <1>1, <1>2, <1>5 DEF StageOK
  <1>10. PurchaseOK(r)'
    <2>1. HeldIn(db', m, r)
      BY <1>7 DEF HeldIn, FileLive
    <2>2. /\ buys'[r].m = m /\ buys'[r].by = "new" /\ buys'[r].at = "held"
      BY <1>5
    <2> QED BY <1>1, <1>5, <2>1, <2>2 DEF PurchaseOK
  <1>11. ASSUME NEW q \in Request, q # r
         PROVE  PurchaseOK(q)'
    <2>1. PurchaseOK(q) /\ buys'[q] = buys[q] /\ (Engaged(q)' <=> Engaged(q))
      BY <1>0, <1>5, <1>11
    <2>2. Engaged(q) => HeldIn(db', buys[q].m, q)
      BY <1>3, <1>4, <1>7 DEF HeldIn, FileLive
    <2> QED BY <1>1, <1>2, <1>3, <1>5, <2>1, <2>2 DEF PurchaseOK
  <1> QED BY <1>5, <1>8, <1>9, <1>10, <1>11 DEF UpgradeInv

\* Only a purchase that holds its mandate goes on to a transfer.
LEMMA SettleKeeps ==
    ASSUME UpgradeInv, NEW r \in Request, Settle(r)
    PROVE  UpgradeInv'
  <1>0. /\ UpgradeTypeOK /\ StageOK /\ OnePerCheckout /\ SavedOK /\ \A q \in Request : PurchaseOK(q)
    BY DEF UpgradeInv
  <1>1. PICK to \in {"paid", "failed"} :
           /\ buys' = [buys EXCEPT ![r].at = to]
           /\ charged' = IF to = "paid" THEN charged \cup {r} ELSE charged
    BY DEF Settle
  <1>2. buys[r].at = "held" /\ used' = TRUE /\ UNCHANGED <<db, marker, schema, file, lock, old, new, saved, late>>
    BY DEF Settle, fileVars
  <1>3. /\ \A q \in Request : buys'[q].m = buys[q].m /\ buys'[q].by = buys[q].by
        /\ \A q \in Request : q # r => buys'[q].at = buys[q].at
        /\ buys'[r].at = to
    BY <1>0, <1>1 DEF UpgradeTypeOK, Buys
  <1>4. buys' \in Buys
    BY <1>0, <1>1 DEF UpgradeTypeOK, Buys, BuyPlace
  <1>5. charged \subseteq charged' /\ charged' \subseteq Request /\ \A q \in Request : q # r => (q \in charged' <=> q \in charged)
    BY <1>0, <1>1 DEF UpgradeTypeOK
  <1>6. \A q \in Request : Engaged(q)' => Engaged(q) /\ buys'[q].m = buys[q].m
    BY <1>2, <1>3, <1>5 DEF Engaged
  <1>7. UpgradeTypeOK'
    BY <1>0, <1>2, <1>4, <1>5 DEF UpgradeTypeOK
  <1>8. StageOK'
    BY <1>0, <1>2 DEF StageOK
  <1>9. OnePerCheckout'
    BY <1>0, <1>6, CheckoutsStay
  <1>10. SavedOK'
    <2>1. \A q \in charged : q \in Request
      BY <1>0 DEF UpgradeTypeOK
    <2> QED BY <1>0, <1>2, <1>3, <1>5, <2>1, BackupStays
  <1>11. ASSUME NEW q \in Request
         PROVE  PurchaseOK(q)'
    <2>1. PurchaseOK(q) /\ (Engaged(q)' => Engaged(q))
      BY <1>0, <1>6
    <2>2. buys'[q].m = buys[q].m /\ buys'[q].by = buys[q].by
      BY <1>3
    <2>3. /\ buys'[q].at \in {"held", "paid", "failed"} => buys[q].at \in {"held", "paid", "failed"}
          /\ q \in charged' => buys'[q].at \in {"paid", "done"}
      <3>1. CASE q = r
        <4>1. r \notin charged
          BY <1>2, <2>1, <3>1 DEF PurchaseOK
        <4> QED BY <1>1, <1>2, <1>3, <3>1, <4>1
      <3>2. CASE q # r
        BY <1>3, <1>5, <2>1, <3>2 DEF PurchaseOK
      <3> QED BY <3>1, <3>2
    <2>4. HeldIn(db, buys[q].m, q)' <=> HeldIn(db, buys[q].m, q)
      BY <1>2, <2>2 DEF HeldIn, FileLive
    <2>5. HeldIn(file[OldPath].rows, buys[q].m, q)' <=> HeldIn(file[OldPath].rows, buys[q].m, q)
      BY <1>2, <2>2 DEF HeldIn, FileLive
    <2> QED BY <1>2, <2>1, <2>2, <2>3, <2>4, <2>5 DEF PurchaseOK
  <1> QED BY <1>7, <1>8, <1>9, <1>10, <1>11 DEF UpgradeInv

\* The transition of either store: a row moves for the request that holds it.
Moved(rows, m, to, r) ==
    IF rows[m].state \in {"reserved", "uncertain"} /\ rows[m].req = r
    THEN [rows EXCEPT ![m].state = to] ELSE rows

\* It leaves the rows of other requests.
LEMMA RowMoves ==
    ASSUME NEW rows \in Rows, NEW rows2, NEW m \in Mandate, NEW to \in HoldTarget, NEW r,
           rows2 = Moved(rows, m, to, r)
    PROVE  /\ rows2 \in Rows
           /\ \A q, n : q # r /\ HeldIn(rows, n, q) => HeldIn(rows2, n, q)
           /\ to # "released" => \A n : HeldIn(rows, n, r) => HeldIn(rows2, n, r)
  <1>1. rows2 \in Rows
    BY DEF Moved, Rows, Hold, HoldState, HoldTarget
  <1>2. /\ \A n \in Mandate : n # m => rows2[n] = rows[n]
        /\ rows2[m].req = rows[m].req /\ rows2[m].state \in {rows[m].state, to}
        /\ rows[m].req # r => rows2[m].state = rows[m].state
    BY DEF Moved, Rows, Hold
  <1>3. ASSUME NEW q, NEW n, HeldIn(rows, n, q), q # r \/ to # "released"
        PROVE  HeldIn(rows2, n, q)
    <2>1. CASE n # m
      BY <1>2, <1>3, <2>1 DEF HeldIn, FileLive
    <2>2. CASE n = m
      BY <1>2, <1>3, <2>2 DEF HeldIn, FileLive, HoldTarget
    <2> QED BY <2>1, <2>2
  <1> QED BY <1>1, <1>3

\* What paid keeps a live row; what failed may give its row back.
LEMMA FinalizeKeeps ==
    ASSUME UpgradeInv, NEW r \in Request, Finalize(r)
    PROVE  UpgradeInv'
  <1>0. /\ UpgradeTypeOK /\ StageOK /\ OnePerCheckout /\ SavedOK /\ \A q \in Request : PurchaseOK(q)
        /\ OldPath \in Path
    BY LegacyConstants DEF UpgradeInv
  <1>1. PICK to \in Targets(buys[r].at) :
           IF buys[r].by = "old" THEN FileMoves(buys[r].m, to, r) /\ db' = db
           ELSE Holds!TransitionHold(buys[r].m, to, r) /\ file' = file
    BY DEF Finalize
  <1>2. /\ buys[r].at \in {"paid", "failed"} /\ buys' = [buys EXCEPT ![r].at = "done"]
        /\ UNCHANGED <<lock, marker, schema, used, old, new, charged, saved, late>>
    BY DEF Finalize
  <1>3. /\ \A q \in Request : buys'[q].m = buys[q].m /\ buys'[q].by = buys[q].by
        /\ \A q \in Request : q # r => buys'[q].at = buys[q].at
        /\ buys'[r].at = "done"
    BY <1>0, <1>2 DEF UpgradeTypeOK, Buys
  <1>4. buys' \in Buys
    BY <1>0, <1>2 DEF UpgradeTypeOK, Buys, BuyPlace
  <1>5. /\ buys[r].m \in Mandate /\ to \in HoldTarget /\ (r \in charged => to # "released")
        /\ buys[r].by # "old" => new = "up"
    <2>1. PurchaseOK(r)
      BY <1>0
    <2> QED BY <1>1, <1>2, <2>1 DEF Targets, HoldTarget, PurchaseOK
  <1>6. \A q \in Request : Engaged(q)' => Engaged(q) /\ buys'[q].m = buys[q].m /\ (q = r => r \in charged)
    BY <1>2, <1>3 DEF Engaged
  <1>7. /\ db' \in Rows /\ \A q \in Request : \A n : Engaged(q)' /\ HeldIn(db, n, q) => HeldIn(db', n, q)
        /\ buys[r].by = "old" => db' = db
    <2>1. CASE buys[r].by = "old"
      BY <1>0, <1>1, <2>1 DEF UpgradeTypeOK
    <2>2. CASE buys[r].by # "old"
      <3>1. db' = Moved(db, buys[r].m, to, r)
        BY <1>1, <2>2 DEF Moved, Holds!TransitionHold, Holds!HoldMoves
      <3>2. db \in Rows
        BY <1>0 DEF UpgradeTypeOK
      <3> QED BY <1>5, <1>6, <2>2, <3>1, <3>2, RowMoves
    <2> QED BY <2>1, <2>2
  <1>8. /\ file' \in [Path -> [exists : BOOLEAN, rows : Rows]]
        /\ \A p \in Path : file'[p].exists = file[p].exists
        /\ \A q \in Request : \A n : Engaged(q)' /\ HeldIn(file[OldPath].rows, n, q) => HeldIn(file'[OldPath].rows, n, q)
    <2>1. file[OldPath].rows \in Rows
      BY <1>0 DEF UpgradeTypeOK
    <2>2. CASE file' = file
      BY <1>0, <2>2 DEF UpgradeTypeOK
    <2>3. CASE file' # file
      <3>1. /\ file' = [file EXCEPT ![OldPath].rows[buys[r].m].state = to]
            /\ file[OldPath].rows[buys[r].m].state \in {"reserved", "uncertain"}
            /\ file[OldPath].rows[buys[r].m].req = r
        BY <1>1, <2>3 DEF FileMoves
      <3>2. PICK rows2 : rows2 = [file[OldPath].rows EXCEPT ![buys[r].m].state = to]
        OBVIOUS
      <3>3. /\ rows2 \in Rows
            /\ \A q, n : q # r /\ HeldIn(file[OldPath].rows, n, q) => HeldIn(rows2, n, q)
            /\ to # "released" => \A n : HeldIn(file[OldPath].rows, n, r) => HeldIn(rows2, n, r)
        <4>1. rows2 = Moved(file[OldPath].rows, buys[r].m, to, r)
          BY <3>1, <3>2 DEF Moved
        <4> QED BY <1>5, <2>1, <4>1, RowMoves
      <3>4. /\ file'[OldPath].exists = file[OldPath].exists /\ file'[OldPath].rows = rows2
            /\ file'[OldPath] \in [exists : BOOLEAN, rows : Rows]
            /\ \A p \in Path : p # OldPath => file'[p] = file[p]
            /\ DOMAIN file' = Path
        BY <1>0, <3>1, <3>2, <3>3 DEF UpgradeTypeOK
      <3>5. file' \in [Path -> [exists : BOOLEAN, rows : Rows]]
        BY <1>0, <3>1, <3>2, <3>3 DEF UpgradeTypeOK
      <3> QED BY <1>5, <1>6, <3>3, <3>4, <3>5
    <2> QED BY <2>2, <2>3
  <1>9. UpgradeTypeOK'
    BY <1>0, <1>2, <1>4, <1>7, <1>8 DEF UpgradeTypeOK
  <1>10. StageOK'
    BY <1>0, <1>2, <1>5, <1>7, <1>8 DEF StageOK
  <1>11. OnePerCheckout'
    BY <1>0, <1>6, CheckoutsStay
  <1>12. SavedOK'
    <2>1. charged \subseteq charged' /\ \A q \in charged : q \in Request
      BY <1>0, <1>2 DEF UpgradeTypeOK
    <2> QED BY <1>0, <1>2, <1>3, <2>1, BackupStays
  <1>13. ASSUME NEW q \in Request
         PROVE  PurchaseOK(q)'
    <2>1. PurchaseOK(q) /\ (Engaged(q)' => Engaged(q))
      BY <1>0, <1>6
    <2>2. buys'[q].m = buys[q].m /\ buys'[q].by = buys[q].by
      BY <1>3
    <2>3. /\ buys'[q].at \in {"held", "paid", "failed"} => buys'[q].at = buys[q].at
          /\ q \in charged' => buys'[q].at \in {"paid", "done"}
      BY <1>2, <1>3, <2>1 DEF PurchaseOK
    <2>4. Engaged(q)' /\ HeldIn(db, buys[q].m, q) => HeldIn(db', buys'[q].m, q)
      BY <1>7, <2>2
    <2>5. Engaged(q)' /\ HeldIn(file[OldPath].rows, buys[q].m, q) => HeldIn(file'[OldPath].rows, buys'[q].m, q)
      BY <1>8, <2>2
    <2>6. file'[OldPath].exists = file[OldPath].exists
      BY <1>0, <1>8
    <2> QED BY <1>2, <2>1, <2>2, <2>3, <2>4, <2>5, <2>6 DEF PurchaseOK
  <1> QED BY <1>9, <1>10, <1>11, <1>12, <1>13 DEF UpgradeInv

\* `reconcile` gives back only rows of requests that never reached a transfer.
LEMMA ReleaseOrphanKeeps ==
    ASSUME UpgradeInv, NEW key, NEW m \in Mandate, ReleaseOrphan(key, m)
    PROVE  UpgradeInv'
  <1>0. /\ UpgradeTypeOK /\ StageOK /\ OnePerCheckout /\ SavedOK /\ \A q \in Request : PurchaseOK(q)
    BY DEF UpgradeInv
  <1>1. PICK r : r = db[m].req
    OBVIOUS
  <1>2. /\ db[m].state = "reserved" /\ buys[r].at = "dropped"
        /\ db' = Moved(db, m, "released", r)
        /\ UNCHANGED <<marker, schema, used, file, lock, old, new, buys, charged, saved, late>>
    BY <1>1 DEF ReleaseOrphan, Moved, Holds!TransitionHold, Holds!HoldMoves, fileVars, purchaseVars
  <1>3. \A q \in Request : (Engaged(q)' <=> Engaged(q)) /\ (Engaged(q) => q # r)
    BY <1>0, <1>2 DEF Engaged, PurchaseOK
  <1>4. db' \in Rows /\ \A q, n : q # r /\ HeldIn(db, n, q) => HeldIn(db', n, q)
    <2>1. db \in Rows /\ "released" \in HoldTarget
      BY <1>0 DEF UpgradeTypeOK, HoldTarget
    <2> QED BY <1>2, <2>1, RowMoves
  <1>5. marker # "none"
    BY <1>0, <1>2 DEF StageOK, NoRows, NoHold
  <1>6. UpgradeTypeOK'
    BY <1>0, <1>2, <1>4 DEF UpgradeTypeOK
  <1>7. StageOK'
    BY <1>0, <1>2, <1>5 DEF StageOK
  <1>8. OnePerCheckout'
    BY <1>0, <1>2, <1>3, CheckoutsStay
  <1>9. SavedOK'
    BY <1>0, <1>2, BackupStays
  <1>10. ASSUME NEW q \in Request
         PROVE  PurchaseOK(q)'
    <2>1. Engaged(q) /\ HeldIn(db, buys[q].m, q) => HeldIn(db', buys[q].m, q)
      BY <1>3, <1>4
    <2>2. PurchaseOK(q) /\ (Engaged(q)' <=> Engaged(q))
      BY <1>0, <1>3
    <2> QED BY <1>2, <2>1, <2>2 DEF PurchaseOK
  <1> QED BY <1>6, <1>7, <1>8, <1>9, <1>10 DEF UpgradeInv

-----------------------------------------------------------------------------
(* The file, and the import of its rows.                                   *)

\* Without the file, the table or the marker stands in for it.
LEMMA FileIsMislaidKeeps ==
    ASSUME UpgradeInv, FileIsMislaid
    PROVE  UpgradeInv'
  <1>0. /\ UpgradeTypeOK /\ StageOK /\ OnePerCheckout /\ SavedOK /\ \A q \in Request : PurchaseOK(q)
        /\ OldPath \in Path
    BY LegacyConstants DEF UpgradeInv
  <1>1. /\ old = "down" /\ file' = [file EXCEPT ![OldPath] = [exists |-> FALSE, rows |-> NoRows]]
        /\ UNCHANGED <<db, marker, schema, used, lock, old, new, buys, charged, saved, late>>
    BY DEF FileIsMislaid, databaseVars, purchaseVars
  <1>2. NoRows \in Rows
    BY DEF NoRows, NoHold, Rows, Hold, HoldState
  <1>3. /\ file' \in [Path -> [exists : BOOLEAN, rows : Rows]]
        /\ ~file'[OldPath].exists /\ \A p \in Path : file'[p].exists => file[p].exists
    BY <1>0, <1>1, <1>2 DEF UpgradeTypeOK
  <1>4. UpgradeTypeOK'
    BY <1>0, <1>1, <1>3 DEF UpgradeTypeOK
  <1>5. StageOK'
    BY <1>0, <1>1, <1>3 DEF StageOK
  <1>6. \A q \in Request : Engaged(q)' <=> Engaged(q)
    BY <1>1 DEF Engaged
  <1>7. OnePerCheckout'
    BY <1>0, <1>1, <1>6, CheckoutsStay
  <1>8. SavedOK'
    BY <1>0, <1>1, BackupStays
  <1>9. ASSUME NEW q \in Request
        PROVE  PurchaseOK(q)'
    <2>1. PurchaseOK(q)
      BY <1>0
    <2>2. HeldIn(db, buys[q].m, q)' <=> HeldIn(db, buys[q].m, q)
      BY <1>1 DEF HeldIn, FileLive
    <2> QED BY <1>1, <1>3, <1>6, <2>1, <2>2 DEF PurchaseOK
  <1> QED BY <1>4, <1>5, <1>7, <1>8, <1>9 DEF UpgradeInv

\* The import brings every live row of the file into an empty table, and keeps
\* the live rows of a table in use.
LEMMA ImportKeeps ==
    ASSUME UpgradeInv, NEW key \in Path, Import(key)
    PROVE  UpgradeInv'
  <1>0. /\ UpgradeTypeOK /\ StageOK /\ OnePerCheckout /\ SavedOK /\ \A q \in Request : PurchaseOK(q)
        /\ OldPath \in Path /\ Unset # OldPath /\ OldPath # "none" /\ Unset # "none"
    BY LegacyConstants DEF UpgradeInv
  <1>1. /\ key = OldPath /\ file[OldPath].exists /\ new = "opened"
        /\ marker \in {"none", Unset}
    BY <1>0 DEF Import, HasFile, StageOK, UpgradeTypeOK
  <1>2. /\ db' = Imported(file[OldPath].rows) /\ marker' = OldPath
        /\ \/ lock' = OldPath /\ new' = "up"
           \/ new' = "down" /\ lock' = lock
        /\ UNCHANGED <<schema, used, file, old, buys, charged, saved, late>>
    BY <1>1 DEF Import, purchaseVars
  <1>3. \A n \in Mandate :
           db'[n] = IF file[OldPath].rows[n].state = "absent" \/ FileLive(db, n) THEN db[n]
                    ELSE file[OldPath].rows[n]
    BY <1>2 DEF Imported, Holds!LiveHold, FileLive
  <1>4. db' \in Rows
    BY <1>0, <1>2 DEF Imported, UpgradeTypeOK, Rows
  <1>5. \A q, n : HeldIn(db, n, q) => HeldIn(db', n, q)
    BY <1>3 DEF HeldIn, FileLive
  <1>6. marker = "none" => \A q, n : ~HeldIn(db, n, q) /\ (HeldIn(file[OldPath].rows, n, q) => HeldIn(db', n, q))
    <2>1. marker = "none" => \A n \in Mandate : ~FileLive(db, n)
      BY <1>0 DEF StageOK, NoRows, NoHold, FileLive
    <2> QED BY <1>3, <2>1 DEF HeldIn, FileLive
  <1>7. \A q \in Request : Engaged(q)' <=> Engaged(q)
    BY <1>2 DEF Engaged
  <1>8. UpgradeTypeOK'
    BY <1>0, <1>2, <1>4 DEF UpgradeTypeOK
  <1>9. StageOK'
    <2>1. lock = Unset
      BY <1>0, <1>1 DEF StageOK
    <2> QED BY <1>0, <1>1, <1>2, <2>1 DEF StageOK
  <1>10. OnePerCheckout'
    BY <1>0, <1>2, <1>7, CheckoutsStay
  <1>11. SavedOK'
    BY <1>0, <1>2, BackupStays
  <1>12. ASSUME NEW q \in Request
         PROVE  PurchaseOK(q)'
    <2>1. PurchaseOK(q) /\ (Engaged(q)' <=> Engaged(q))
      BY <1>0, <1>7
    <2>2. Engaged(q) => HeldIn(db', buys[q].m, q)
      BY <1>1, <1>5, <1>6, <2>1 DEF PurchaseOK
    <2>3. ~(buys[q].at \in {"held", "paid", "failed"} /\ buys[q].by = "new")
      BY <1>1, <2>1 DEF PurchaseOK
    <2> QED BY <1>0, <1>2, <2>1, <2>2, <2>3 DEF PurchaseOK
  <1> QED BY <1>8, <1>9, <1>10, <1>11, <1>12 DEF UpgradeInv

-----------------------------------------------------------------------------
(* Backup and restore.                                                     *)

\* The copy of the database is the database.
LEMMA BackupReceiptsKeeps ==
    ASSUME UpgradeInv, NEW key, BackupReceipts(key)
    PROVE  UpgradeInv'
  <1>0. /\ UpgradeTypeOK /\ StageOK /\ OnePerCheckout /\ SavedOK /\ \A q \in Request : PurchaseOK(q)
    BY DEF UpgradeInv
  <1>1. /\ saved' = [at |-> "receipts", key |-> key, db |-> db, marker |-> marker,
                     schema |-> schema, used |-> used, buys |-> buys, charged |-> charged,
                     late |-> late, rows |-> NoRows]
        /\ UNCHANGED <<db, marker, schema, used, file, lock, old, new, buys, charged, late>>
    BY DEF BackupReceipts, databaseVars, fileVars, purchaseVars
  <1>2. PICK s : s = saved'
    OBVIOUS
  <1>3. /\ s.at = "receipts" /\ s.db = db /\ s.marker = marker /\ s.schema = schema /\ s.used = used
        /\ s.buys = buys /\ s.charged = charged /\ s.late = late /\ s.rows = NoRows
        /\ s = [at |-> s.at, key |-> s.key, db |-> s.db, marker |-> s.marker,
                schema |-> s.schema, used |-> s.used, buys |-> s.buys,
                charged |-> s.charged, late |-> s.late, rows |-> s.rows]
    BY <1>1, <1>2
  <1>4. NoRows \in Rows
    BY DEF NoRows, NoHold, Rows, Hold, HoldState
  <1>5. /\ s.db \in Rows /\ s.rows \in Rows /\ s.buys \in Buys
        /\ s.marker \in {"none", Unset, OldPath} /\ s.schema \in {OldSchema, CurrentSchema}
    BY <1>0, <1>3, <1>4 DEF UpgradeTypeOK
  <1>6. /\ s.schema = OldSchema => s.marker = "none"
        /\ s.marker = "none" => s.db = NoRows
        /\ s.charged # {} => s.used
    BY <1>0, <1>3 DEF StageOK
  <1>7. ASSUME NEW r \in charged
        PROVE  /\ buys[r].at \in {"paid", "done"}
               /\ r \notin late /\ buys[r].by = "new" => HeldIn(db, buys[r].m, r)
               /\ r \notin late /\ buys[r].by = "old" =>
                     marker # Unset /\ (marker = OldPath => HeldIn(db, buys[r].m, r))
    <2>1. PurchaseOK(r) /\ (r \notin late => Engaged(r))
      BY <1>0 DEF UpgradeTypeOK, Engaged
    <2> QED BY <2>1 DEF PurchaseOK
  <1>8. SavedOK'
    BY <1>1, <1>2, <1>3, <1>5, <1>6, <1>7 DEF SavedOK, Snapshot
  <1>9. UpgradeTypeOK' /\ StageOK'
    BY <1>0, <1>1 DEF UpgradeTypeOK, StageOK
  <1>10. \A q \in Request : Engaged(q)' <=> Engaged(q)
    BY <1>1 DEF Engaged
  <1>11. OnePerCheckout'
    BY <1>0, <1>1, <1>10, CheckoutsStay
  <1>12. \A q \in Request : PurchaseOK(q)'
    BY <1>0, <1>1, <1>10 DEF PurchaseOK, HeldIn, FileLive
  <1> QED BY <1>8, <1>9, <1>11, <1>12 DEF UpgradeInv

\* The copied file is read after the database, and still has the rows of every
\* purchase that the copied database shows as paid.
LEMMA BackupFileKeeps ==
    ASSUME UpgradeInv, BackupFile
    PROVE  UpgradeInv'
  <1>0. /\ UpgradeTypeOK /\ StageOK /\ OnePerCheckout /\ SavedOK /\ \A q \in Request : PurchaseOK(q)
    BY DEF UpgradeInv
  <1>1. /\ saved.at = "receipts"
        /\ saved' = IF Copies(saved)
                    THEN [saved EXCEPT !.at = "both", !.rows = file[saved.key].rows]
                    ELSE [saved EXCEPT !.at = "alone"]
        /\ UNCHANGED <<db, marker, schema, used, file, lock, old, new, buys, charged, late>>
    BY DEF BackupFile, databaseVars, fileVars, purchaseVars
  <1>2. PICK s : s = saved'
    OBVIOUS
  <1>3. /\ saved = [at |-> saved.at, key |-> saved.key, db |-> saved.db, marker |-> saved.marker,
                    schema |-> saved.schema, used |-> saved.used, buys |-> saved.buys,
                    charged |-> saved.charged, late |-> saved.late, rows |-> saved.rows]
        /\ saved.rows \in Rows /\ saved.charged \subseteq charged
    BY <1>0, <1>1 DEF SavedOK, Snapshot
  <1>4. /\ s.key = saved.key /\ s.db = saved.db /\ s.marker = saved.marker /\ s.schema = saved.schema
        /\ s.used = saved.used /\ s.buys = saved.buys /\ s.charged = saved.charged /\ s.late = saved.late
        /\ s.at = IF Copies(saved) THEN "both" ELSE "alone"
        /\ s.rows = IF Copies(saved) THEN file[saved.key].rows ELSE saved.rows
        /\ s = [at |-> s.at, key |-> s.key, db |-> s.db, marker |-> s.marker,
                schema |-> s.schema, used |-> s.used, buys |-> s.buys,
                charged |-> s.charged, late |-> s.late, rows |-> s.rows]
    <2>1. CASE Copies(saved)
      <3>1. s = [saved EXCEPT !.at = "both", !.rows = file[saved.key].rows]
        BY <1>1, <1>2, <2>1
      <3> QED BY <1>3, <2>1, <3>1
    <2>2. CASE ~Copies(saved)
      <3>1. s = [saved EXCEPT !.at = "alone"]
        BY <1>1, <1>2, <2>2
      <3> QED BY <1>3, <2>2, <3>1
    <2> QED BY <2>1, <2>2
  <1>5. Copies(saved) => saved.key = OldPath /\ file[OldPath].exists /\ file[OldPath].rows \in Rows
    BY <1>0 DEF Copies, HasFile, StageOK, UpgradeTypeOK
  <1>6. \A r \in s.charged :
            r \notin s.late /\ s.at = "both" /\ buys[r].by = "old" => HeldIn(s.rows, buys[r].m, r)
    <2> SUFFICES ASSUME NEW r \in saved.charged, r \notin saved.late, Copies(saved), buys[r].by = "old"
                 PROVE  HeldIn(file[OldPath].rows, buys[r].m, r)
      BY <1>4, <1>5
    <2>0. r \notin late
      BY <1>0, <1>1 DEF SavedOK, Snapshot
    <2>1. PurchaseOK(r) /\ Engaged(r)
      BY <1>0, <1>3, <2>0 DEF UpgradeTypeOK, Engaged
    <2> QED BY <1>5, <2>1 DEF PurchaseOK
  <1>7. SavedOK'
    <2>1. /\ s.rows \in Rows /\ (s.at = "both" => s.key = OldPath) /\ s.at \in {"both", "alone"}
      BY <1>3, <1>4, <1>5
    <2>2. /\ s.db \in Rows /\ s.buys \in Buys
          /\ s.marker \in {"none", Unset, OldPath} /\ s.schema \in {OldSchema, CurrentSchema}
          /\ s.schema = OldSchema => s.marker = "none"
          /\ s.marker = "none" => s.db = NoRows
          /\ s.charged \subseteq charged /\ (s.charged # {} => s.used)
      BY <1>0, <1>1, <1>4 DEF SavedOK, Snapshot
    <2>3. \A r \in s.charged :
              /\ s.buys[r].m = buys[r].m /\ s.buys[r].by = buys[r].by
              /\ s.buys[r].at \in {"paid", "done"}
              /\ r \in late => r \in s.late
              /\ r \notin s.late /\ buys[r].by = "new" => HeldIn(s.db, buys[r].m, r)
              /\ r \notin s.late /\ buys[r].by = "old" =>
                    s.marker # Unset /\ (s.marker = OldPath => HeldIn(s.db, buys[r].m, r))
      BY <1>0, <1>1, <1>4 DEF SavedOK, Snapshot
    <2>4. s = [at |-> s.at, key |-> s.key, db |-> s.db, marker |-> s.marker,
               schema |-> s.schema, used |-> s.used, buys |-> s.buys,
               charged |-> s.charged, late |-> s.late, rows |-> s.rows]
      BY <1>4
    <2>5. buys' = buys /\ charged' = charged /\ late' = late /\ saved' = s
      BY <1>1, <1>2
    <2> HIDE <1>1, <1>2
    <2> QED BY <1>6, <2>1, <2>2, <2>3, <2>4, <2>5 DEF SavedOK, Snapshot
  <1>9. UpgradeTypeOK' /\ StageOK'
    BY <1>0, <1>1 DEF UpgradeTypeOK, StageOK
  <1>10. \A q \in Request : Engaged(q)' <=> Engaged(q)
    BY <1>1 DEF Engaged
  <1>11. OnePerCheckout'
    BY <1>0, <1>1, <1>10, CheckoutsStay
  <1>12. \A q \in Request : PurchaseOK(q)'
    BY <1>0, <1>1, <1>10 DEF PurchaseOK, HeldIn, FileLive
  <1> QED BY <1>7, <1>9, <1>11, <1>12 DEF UpgradeInv

\* What a restored purchase looks like: in flight no more.
LEMMA RestoredBuy ==
    ASSUME NEW b \in [m : Mandate \cup {NoRequest}, by : {"none", "old", "new"}, at : BuyPlace], NEW x,
           x = [b EXCEPT !.at = IF @ = "held" THEN "dropped"
                                ELSE IF @ \in {"paid", "failed"} THEN "done" ELSE @]
    PROVE  /\ x \in [m : Mandate \cup {NoRequest}, by : {"none", "old", "new"}, at : BuyPlace]
           /\ x.m = b.m /\ x.by = b.by /\ x.at \notin {"held", "paid", "failed"}
           /\ b.at \in {"paid", "done"} => x.at = "done"
  <1>1. PICK a : a = IF b.at = "held" THEN "dropped"
                     ELSE IF b.at \in {"paid", "failed"} THEN "done" ELSE b.at
    OBVIOUS
  <1>2. x = [b EXCEPT !.at = a]
    BY <1>1
  <1>3. /\ a \in BuyPlace /\ a \notin {"held", "paid", "failed"}
        /\ b.at \in {"paid", "done"} => a = "done"
    BY <1>1 DEF BuyPlace
  <1>4. x.m = b.m /\ x.by = b.by /\ x.at = a
    BY <1>2
  <1>5. x \in [m : Mandate \cup {NoRequest}, by : {"none", "old", "new"}, at : BuyPlace]
    BY <1>2, <1>3
  <1> HIDE <1>2
  <1> QED BY <1>3, <1>4, <1>5

\* After a restore, what the database shows as paid has its row in the restored
\* table or in the file beside it.
LEMMA RestoreKeeps ==
    ASSUME UpgradeInv, Restore
    PROVE  UpgradeInv'
  <1>0. /\ UpgradeTypeOK /\ StageOK /\ OnePerCheckout /\ SavedOK /\ \A q \in Request : PurchaseOK(q)
        /\ OldPath \in Path /\ Unset # OldPath /\ OldPath # "none" /\ Unset # "none"
    BY LegacyConstants DEF UpgradeInv
  <1>1. /\ saved.at \in {"both", "alone"} /\ old = "down" /\ new = "down"
        /\ db' = saved.db /\ marker' = saved.marker /\ schema' = saved.schema /\ used' = saved.used
        /\ file' = IF saved.at = "both"
                   THEN [file EXCEPT ![saved.key] = [exists |-> TRUE, rows |-> saved.rows]] ELSE file
        /\ charged' = saved.charged /\ late' = saved.late /\ saved' = [at |-> "restored"]
        /\ UNCHANGED <<lock, old, new>>
    BY DEF Restore
  <1>2. buys' = [r \in Request |->
                  [saved.buys[r] EXCEPT !.at = IF @ = "held" THEN "dropped"
                                               ELSE IF @ \in {"paid", "failed"} THEN "done" ELSE @]]
    BY DEF Restore
  <1>3. /\ saved.db \in Rows /\ saved.rows \in Rows /\ saved.buys \in Buys
        /\ saved.marker \in {"none", Unset, OldPath} /\ saved.schema \in {OldSchema, CurrentSchema}
        /\ saved.schema = OldSchema => saved.marker = "none"
        /\ saved.marker = "none" => saved.db = NoRows
        /\ saved.charged \subseteq charged /\ (saved.charged # {} => saved.used)
        /\ saved.at = "both" => saved.key = OldPath
    BY <1>0, <1>1 DEF SavedOK, Snapshot
  <1>4. \A r \in saved.charged :
              /\ saved.buys[r].m = buys[r].m /\ saved.buys[r].by = buys[r].by
              /\ saved.buys[r].at \in {"paid", "done"}
              /\ r \in late => r \in saved.late
              /\ r \notin saved.late /\ buys[r].by = "new" => HeldIn(saved.db, buys[r].m, r)
              /\ r \notin saved.late /\ buys[r].by = "old" =>
                    /\ saved.marker # Unset
                    /\ saved.marker = OldPath => HeldIn(saved.db, buys[r].m, r)
                    /\ saved.at = "both" => HeldIn(saved.rows, buys[r].m, r)
    BY <1>0, <1>1 DEF SavedOK, Snapshot
  <1>5. ASSUME NEW r \in Request
        PROVE  /\ buys'[r] \in [m : Mandate \cup {NoRequest}, by : {"none", "old", "new"}, at : BuyPlace]
               /\ buys'[r].m = saved.buys[r].m /\ buys'[r].by = saved.buys[r].by
               /\ buys'[r].at \notin {"held", "paid", "failed"}
               /\ saved.buys[r].at \in {"paid", "done"} => buys'[r].at = "done"
    <2>1. buys'[r] = [saved.buys[r] EXCEPT !.at = IF @ = "held" THEN "dropped"
                                                  ELSE IF @ \in {"paid", "failed"} THEN "done" ELSE @]
      BY <1>2
    <2>2. saved.buys[r] \in [m : Mandate \cup {NoRequest}, by : {"none", "old", "new"}, at : BuyPlace]
      BY <1>3 DEF Buys
    <2> QED BY <2>1, <2>2, RestoredBuy
  <1>6. buys' \in Buys
    BY <1>2, <1>5 DEF Buys
  <1>7. /\ file' \in [Path -> [exists : BOOLEAN, rows : Rows]]
        /\ \A p \in Path : file'[p].exists => p = OldPath
        /\ saved.at = "both" => file'[OldPath].rows = saved.rows
        /\ saved.at # "both" => file' = file
    BY <1>0, <1>1, <1>3 DEF UpgradeTypeOK, StageOK
  <1>8. UpgradeTypeOK'
    BY <1>0, <1>1, <1>3, <1>6, <1>7 DEF UpgradeTypeOK
  <1>9. StageOK'
    BY <1>0, <1>1, <1>3, <1>7 DEF StageOK
  <1>10. \A r \in Request : Engaged(r)' => r \in saved.charged /\ r \in charged /\ Engaged(r)
    BY <1>1, <1>3, <1>4, <1>5 DEF Engaged
  <1>11. OnePerCheckout'
    <2>1. \A r \in Request : Engaged(r)' => Engaged(r) /\ buys'[r].m = buys[r].m
      BY <1>4, <1>5, <1>10
    <2> QED BY <1>0, <2>1, CheckoutsStay
  <1>12. SavedOK'
    BY <1>1 DEF SavedOK, Snapshot
  <1>13. ASSUME NEW r \in Request
         PROVE  PurchaseOK(r)'
    <2>1. CASE r \notin saved.charged
      <3>1. ~Engaged(r)' /\ r \notin charged'
        BY <1>1, <1>10, <2>1
      <3> QED BY <1>5, <3>1 DEF PurchaseOK
    <2>2. CASE r \in saved.late
      <3>1. ~Engaged(r)'
        BY <1>1, <2>2 DEF Engaged
      <3>2. r \in charged' => buys'[r].at = "done"
        BY <1>1, <1>4, <1>5
      <3> QED BY <1>5, <3>1, <3>2 DEF PurchaseOK
    <2>3. CASE r \in saved.charged /\ r \notin saved.late
      <3>1. PurchaseOK(r) /\ Engaged(r)
        BY <1>0, <1>3, <1>4, <2>3 DEF Engaged
      <3>2. buys'[r].m = buys[r].m /\ buys'[r].by = buys[r].by /\ buys'[r].at = "done"
        BY <1>4, <1>5, <2>3
      <3>3. buys[r].by = "old" /\ file'[OldPath].exists => HeldIn(file'[OldPath].rows, buys[r].m, r)
        BY <1>1, <1>4, <1>7, <2>3, <3>1 DEF PurchaseOK
      <3>4. buys[r].by \in {"old", "new"} /\ buys[r].m \in Mandate
        BY <3>1 DEF PurchaseOK
      <3> QED BY <1>1, <1>4, <2>3, <3>2, <3>3, <3>4 DEF PurchaseOK
    <2> QED BY <2>1, <2>2, <2>3
  <1> QED BY <1>8, <1>9, <1>11, <1>12, <1>13 DEF UpgradeInv

-----------------------------------------------------------------------------
(* The theorems of the upgrade.                                            *)

\* Nothing was bought at first.
LEMMA UpgradeStarts ==
    ASSUME ImportInit
    PROVE  UpgradeInv
  <1>0. OldPath \in Path /\ Unset # OldPath /\ OldPath # "none" /\ Unset # "none"
    BY LegacyConstants
  <1>1. db = NoRows /\ NoRows \in Rows
    BY DEF ImportInit, Holds!HoldInit, NoRows, NoHold, Holds!NoHold, Rows, Hold, HoldState
  <1>2. buys \in Buys /\ \A r \in Request : buys[r].at = "idle"
    BY DEF ImportInit, NoBuy, Buys, BuyPlace
  <1>3. file \in [Path -> [exists : BOOLEAN, rows : Rows]] /\ \A p \in Path : file[p].exists = (p = OldPath)
    BY <1>1 DEF ImportInit
  <1>4. UpgradeTypeOK
    BY <1>1, <1>2, <1>3 DEF ImportInit, UpgradeTypeOK
  <1>5. StageOK
    BY <1>0, <1>1, <1>3 DEF ImportInit, StageOK
  <1>6. \A r \in Request : ~Engaged(r)
    BY <1>2 DEF ImportInit, Engaged
  <1>7. OnePerCheckout
    BY <1>6 DEF OnePerCheckout
  <1>8. SavedOK
    BY DEF ImportInit, NoBackup, SavedOK, Snapshot
  <1>9. \A r \in Request : PurchaseOK(r)
    BY <1>2, <1>6 DEF ImportInit, PurchaseOK
  <1> QED BY <1>4, <1>5, <1>7, <1>8, <1>9 DEF UpgradeInv

\* Every step keeps the invariant, unless the operator accepts a loss.
LEMMA UpgradeSteps ==
    ASSUME lossy \/ UpgradeInv, [ImportNext]_importVars
    PROVE  (lossy \/ UpgradeInv)'
  <1>0. Presented \subseteq Mandate
    BY LegacyConstants
  <1>1. lossy => lossy'
    BY DEF ImportNext, importVars, OldBuys, NewBuys, Buy, Settle, Finalize, OldStops, OldStarts,
           FileIsMislaid, EmptyFile, Import, Relock, Open, NewEnds, StartFails, StartWithoutFile,
           ReleaseOrphan, BackupReceipts, BackupFile, Restore
  <1> SUFFICES ASSUME UpgradeInv, ~lossy'
               PROVE  UpgradeInv'
    BY <1>1
  <1>2. CASE UNCHANGED importVars
    <2>1. UNCHANGED <<db, marker, schema, used, file, lock, old, new, buys, charged, saved, late>>
      BY <1>2 DEF importVars, databaseVars, fileVars, purchaseVars
    <2>2. UpgradeTypeOK' /\ StageOK'
      BY <2>1 DEF UpgradeInv, UpgradeTypeOK, StageOK
    <2>3. OnePerCheckout' /\ SavedOK' /\ \A r \in Request : PurchaseOK(r)'
      BY <2>1, TablesStay DEF UpgradeInv, PurchaseOK
    <2> QED BY <2>2, <2>3 DEF UpgradeInv
  <1>3. ASSUME NEW r \in Request, NEW m \in Presented, OldBuys(r, m) \/ NewBuys(r, m)
        PROVE  UpgradeInv'
    BY <1>0, <1>3, OldBuysKeeps, NewBuysKeeps
  <1>4. ASSUME NEW r \in Request, Settle(r) \/ Finalize(r)
        PROVE  UpgradeInv'
    BY <1>4, SettleKeeps, FinalizeKeeps
  <1>5. ASSUME NEW p \in Path, EmptyFile(p) \/ Import(p) \/ Relock(p)
        PROVE  UpgradeInv'
    BY <1>5, ImportKeeps, RelockKeeps DEF EmptyFile
  <1>6. ASSUME NEW key \in KeySetting, NEW ap2 \in BOOLEAN, StartFails(key, ap2) \/ StartWithoutFile(key, ap2)
        PROVE  UpgradeInv'
    BY <1>6, StartsKeep, StartWithoutFileKeeps
  <1>7. ASSUME NEW key \in KeySetting, NEW m \in Presented, ReleaseOrphan(key, m)
        PROVE  UpgradeInv'
    BY <1>0, <1>7, ReleaseOrphanKeeps
  <1>8. ASSUME NEW key \in KeySetting, BackupReceipts(key)
        PROVE  UpgradeInv'
    BY <1>8, BackupReceiptsKeeps
  <1>9. CASE OldStops \/ OldStarts \/ FileIsMislaid \/ Open \/ NewEnds \/ BackupFile \/ Restore
    BY <1>9, EndsKeep, StartsKeep, FileIsMislaidKeeps, BackupFileKeeps, RestoreKeeps
  <1> QED BY <1>2, <1>3, <1>4, <1>5, <1>6, <1>7, <1>8, <1>9 DEF ImportNext

\* A checkout is paid at most once across the upgrade, for any number of requests,
\* mandates, files and purchases and whichever gateway fails or stops when; a loss
\* that the operator accepts and rows that 2.5 adds to an imported file are the
\* exceptions (importLegacyStores, the file store's lock, backup and restore).
THEOREM PaidOnceTheorem == ImportSpec => []CheckoutPaidOnceAcrossVersions
  <1>1. ImportInit => lossy \/ UpgradeInv
    BY UpgradeStarts
  <1>2. (lossy \/ UpgradeInv) /\ [ImportNext]_importVars => (lossy \/ UpgradeInv)'
    BY UpgradeSteps
  <1>3. lossy \/ UpgradeInv => CheckoutPaidOnceAcrossVersions
    <2> SUFFICES ASSUME UpgradeInv, NEW q \in charged \ late, NEW r \in charged \ late, q # r
                 PROVE  BindingOf[buys[q].m] # BindingOf[buys[r].m]
      BY DEF CheckoutPaidOnceAcrossVersions
    <2>1. q \in Request /\ r \in Request /\ Engaged(q) /\ Engaged(r)
      BY DEF UpgradeInv, UpgradeTypeOK, Engaged
    <2> QED BY <2>1 DEF UpgradeInv, OnePerCheckout
  <1> QED BY <1>1, <1>2, <1>3, PTL DEF ImportSpec

-----------------------------------------------------------------------------
(* What doctor foretells.                                                  *)

\* A database that was not migrated has no import on record, in use or in a backup.
\* No loss is accepted here: doctor and the start agree after a write-off too.
DoctorOK ==
    /\ schema \in {OldSchema, CurrentSchema}
    /\ schema = OldSchema => marker = "none"
    /\ new # "down" => schema = CurrentSchema
    /\ saved.at \in {"none", "receipts", "both", "alone", "restored"}
    /\ Snapshot =>
        /\ saved = [at |-> saved.at, key |-> saved.key, db |-> saved.db, marker |-> saved.marker,
                    schema |-> saved.schema, used |-> saved.used, buys |-> saved.buys,
                    charged |-> saved.charged, late |-> saved.late, rows |-> saved.rows]
        /\ saved.schema \in {OldSchema, CurrentSchema}
        /\ saved.schema = OldSchema => saved.marker = "none"

\* Every step keeps what doctor relies on.
LEMMA DoctorSteps ==
    ASSUME DoctorOK, [ImportNext]_importVars
    PROVE  DoctorOK'
  <1>0. OldSchema # CurrentSchema
    BY DEF OldSchema, CurrentSchema
  <1>1. CASE /\ UNCHANGED <<marker, schema, saved>>
             /\ new' \in {"down", new} \/ (new = "opened" /\ new' # "down")
    BY <1>0, <1>1 DEF DoctorOK, Snapshot
  <1>2. CASE new = "opened" /\ UNCHANGED <<schema, saved>>
    BY <1>0, <1>2 DEF DoctorOK, Snapshot
  <1>3. CASE Open
    BY <1>0, <1>3 DEF DoctorOK, Snapshot, Open
  <1>4. ASSUME NEW key, BackupReceipts(key)
        PROVE  DoctorOK'
    <2>1. /\ saved' = [at |-> "receipts", key |-> key, db |-> db, marker |-> marker,
                       schema |-> schema, used |-> used, buys |-> buys, charged |-> charged,
                       late |-> late, rows |-> NoRows]
          /\ UNCHANGED <<marker, schema, new>>
      BY <1>4 DEF BackupReceipts, databaseVars
    <2>2. PICK s : s = saved'
      OBVIOUS
    <2>3. /\ s.at = "receipts" /\ s.marker = marker /\ s.schema = schema
          /\ s = [at |-> s.at, key |-> s.key, db |-> s.db, marker |-> s.marker,
                  schema |-> s.schema, used |-> s.used, buys |-> s.buys,
                  charged |-> s.charged, late |-> s.late, rows |-> s.rows]
      BY <2>1, <2>2
    <2> QED BY <2>1, <2>2, <2>3 DEF DoctorOK, Snapshot
  <1>5. CASE BackupFile
    <2>1. /\ saved.at = "receipts"
          /\ saved' = IF Copies(saved)
                      THEN [saved EXCEPT !.at = "both", !.rows = file[saved.key].rows]
                      ELSE [saved EXCEPT !.at = "alone"]
          /\ UNCHANGED <<marker, schema, new>>
      BY <1>5 DEF BackupFile, databaseVars
    <2>2. PICK s : s = saved'
      OBVIOUS
    <2>3. saved = [at |-> saved.at, key |-> saved.key, db |-> saved.db, marker |-> saved.marker,
                   schema |-> saved.schema, used |-> saved.used, buys |-> saved.buys,
                   charged |-> saved.charged, late |-> saved.late, rows |-> saved.rows]
      BY <2>1 DEF DoctorOK, Snapshot
    <2>4. /\ s.at \in {"both", "alone"} /\ s.marker = saved.marker /\ s.schema = saved.schema
          /\ s = [at |-> s.at, key |-> s.key, db |-> s.db, marker |-> s.marker,
                  schema |-> s.schema, used |-> s.used, buys |-> s.buys,
                  charged |-> s.charged, late |-> s.late, rows |-> s.rows]
      BY <2>1, <2>2, <2>3
    <2> QED BY <2>1, <2>2, <2>4 DEF DoctorOK, Snapshot
  <1>6. CASE Restore
    <2>1. /\ saved.at \in {"both", "alone"} /\ new = "down" /\ new' = new
          /\ marker' = saved.marker /\ schema' = saved.schema /\ saved' = [at |-> "restored"]
      BY <1>6 DEF Restore
    <2> QED BY <2>1 DEF DoctorOK, Snapshot
  <1>7. CASE UNCHANGED importVars
    BY <1>1, <1>7 DEF importVars, databaseVars
  <1>8. ASSUME NEW r \in Request,
               (\E m \in Presented : OldBuys(r, m) \/ NewBuys(r, m)) \/ Settle(r) \/ Finalize(r)
        PROVE  DoctorOK'
    BY <1>1, <1>8 DEF OldBuys, NewBuys, Buy, Settle, Finalize
  <1>9. CASE OldStops \/ OldStarts \/ FileIsMislaid \/ NewEnds
    BY <1>1, <1>9 DEF OldStops, OldStarts, FileIsMislaid, NewEnds, databaseVars
  <1>10. ASSUME NEW p \in Path, EmptyFile(p) \/ Import(p) \/ Relock(p)
         PROVE  DoctorOK'
    BY <1>1, <1>2, <1>10 DEF EmptyFile, Import, Relock, databaseVars
  <1>11. ASSUME NEW key \in KeySetting, NEW ap2 \in BOOLEAN, StartFails(key, ap2) \/ StartWithoutFile(key, ap2)
         PROVE  DoctorOK'
    BY <1>2, <1>11 DEF StartFails, StartWithoutFile, databaseVars
  <1>12. ASSUME NEW key \in KeySetting, NEW m \in Presented, ReleaseOrphan(key, m)
         PROVE  DoctorOK'
    BY <1>1, <1>12 DEF ReleaseOrphan
  <1> QED BY <1>3, <1>4, <1>5, <1>6, <1>7, <1>8, <1>9, <1>10, <1>11, <1>12 DEF ImportNext

\* `doctor` fails exactly the settings that the next start refuses, on either schema
\* and in every state of upgrade, backup and restore (legacyStoreCheck beside
\* importLegacyStores).
THEOREM DoctorTheorem == ImportSpec => []DoctorForetellsStart
  <1>1. ImportInit => DoctorOK
    BY DEF ImportInit, DoctorOK, Snapshot, NoBackup
  <1>2. DoctorOK /\ [ImportNext]_importVars => DoctorOK'
    BY DoctorSteps
  <1>3. DoctorOK => DoctorForetellsStart
    <2> SUFFICES ASSUME DoctorOK, NEW key \in KeySetting
                 PROVE  DoctorFails(key) <=> Refused(key, TRUE)
      BY DEF DoctorForetellsStart
    <2>0. "none" \notin Path /\ OldSchema # CurrentSchema /\ InMemory \notin Path
      BY LegacyConstants DEF OldSchema, CurrentSchema
    <2>1. DoctorImports = {marker} \cap Path
      BY <2>0 DEF DoctorOK, DoctorImports
    <2>2. DoctorMissing <=> used /\ marker = "none"
      BY <2>0 DEF DoctorOK, DoctorMissing
    <2>3. CASE marker \in Path
      BY <2>0, <2>1, <2>3 DEF DoctorFails, Refused, Forgotten
    <2>4. CASE marker \notin Path
      <3>1. DoctorImports = {}
        BY <2>1, <2>4
      <3> QED BY <2>2, <2>4, <3>1 DEF DoctorFails, Refused, Forgotten
    <2> QED BY <2>3, <2>4
  <1> QED BY <1>1, <1>2, <1>3, PTL DEF ImportSpec

-----------------------------------------------------------------------------
(* The journal: least and greatest members of sets of rows, and pages.     *)

\* A set of naturals has a least member.
LEMMA LeastExists ==
    ASSUME NEW S \in SUBSET Nat, S # {}
    PROVE  \E x \in S : \A y \in S : x <= y
  <1>1. PICK x \in S : \A y \in S : ~(<<y, x>> \in OpToRel(<, Nat))
    BY NatLessThanWellFounded, WFMin
  <1>2. \A y \in S : y < x => <<y, x>> \in OpToRel(<, Nat)
    BY DEF OpToRel
  <1>3. \A y \in S : ~(y < x)
    BY <1>1, <1>2, Zenon
  <1>4. x \in Nat /\ \A y \in S : y \in Nat
    OBVIOUS
  <1> QED BY <1>3, <1>4

\* A bounded one has a greatest.
LEMMA GreatestExists ==
    ASSUME NEW n \in Nat, NEW S \in SUBSET (0 .. n), S # {}
    PROVE  \E x \in S : \A y \in S : y <= x
  <1> DEFINE T == {n - x : x \in S}
  <1>0. \A x \in S : x \in Int /\ n - x \in Nat
    OBVIOUS
  <1>1. T \in SUBSET Nat /\ T # {}
    BY <1>0
  <1>2. PICK t \in T : \A u \in T : t <= u
    BY <1>1, LeastExists
  <1>3. PICK x \in S : t = n - x
    BY <1>2
  <1>4. \A y \in S : n - x <= n - y
    BY <1>2, <1>3
  <1> QED BY <1>0, <1>4

-----------------------------------------------------------------------------
(* A page.                                                                 *)

Above(S, i) == {j \in S : j > i}

\* Rows are numbers, and the newest of some are some of them.
LEMMA Numbers ==
    ASSUME NEW n \in Nat, NEW S \in SUBSET (1 .. n)
    PROVE  (\A i \in S : i \in Nat /\ i \in Int /\ i \in 0 .. n) /\ Newest(S) \in SUBSET S
  <1>1. \A i \in 1 .. n : i \in Nat /\ i \in Int /\ i \in 0 .. n
    OBVIOUS
  <1> QED BY <1>1 DEF Newest

\* The rows above a cursor are finitely many.
LEMMA AboveIsFinite ==
    ASSUME NEW n \in Nat, NEW S \in SUBSET (1 .. n), NEW i
    PROVE  /\ IsFiniteSet(S) /\ IsFiniteSet(Above(S, i)) /\ Cardinality(Above(S, i)) \in Nat
           /\ Newest(S) = {j \in S : Cardinality(Above(S, j)) < Limit}
  <1>1. IsFiniteSet(1 .. n)
    BY FS_Interval
  <1>2. IsFiniteSet(S)
    BY <1>1, FS_Subset
  <1>3. IsFiniteSet(Above(S, i))
    BY <1>2, FS_Subset DEF Above
  <1> QED BY <1>2, <1>3, FS_CardinalityType DEF Newest, Above

\* What a page leaves out is below all of it.
LEMMA PageIsAbove ==
    ASSUME NEW n \in Nat, NEW S \in SUBSET (1 .. n), NEW i \in S \ Newest(S), NEW j \in Newest(S)
    PROVE  i < j
  <1>1. /\ j \in S /\ i \in S /\ i \in Int /\ j \in Int
        /\ Cardinality(Above(S, j)) < Limit /\ ~(Cardinality(Above(S, i)) < Limit)
        /\ Cardinality(Above(S, i)) \in Nat /\ Cardinality(Above(S, j)) \in Nat
        /\ IsFiniteSet(Above(S, j))
    <2>1. i \in S /\ j \in S /\ i \in Int /\ j \in Int
      BY Numbers
    <2>2. /\ Cardinality(Above(S, i)) \in Nat /\ Cardinality(Above(S, j)) \in Nat
          /\ IsFiniteSet(Above(S, j))
          /\ Newest(S) = {k \in S : Cardinality(Above(S, k)) < Limit}
      BY AboveIsFinite
    <2> QED BY <2>1, <2>2
  <1>2. CASE j <= i
    <2>1. Above(S, i) \in SUBSET Above(S, j)
      <3>1. \A k \in S : k \in Int /\ (k > i => k > j)
        BY <1>1, <1>2, Numbers
      <3> QED BY <3>1 DEF Above
    <2>2. Cardinality(Above(S, i)) <= Cardinality(Above(S, j))
      BY <1>1, <2>1, FS_Subset
    <2>3. Limit \in Nat
      BY JournalConstants
    <2> QED BY <1>1, <2>2, <2>3
  <1> QED BY <1>1, <1>2

\* A page that leaves something out is full.
LEMMA PageIsFull ==
    ASSUME NEW n \in Nat, NEW S \in SUBSET (1 .. n), NEW i \in S \ Newest(S)
    PROVE  Cardinality(Newest(S)) = Limit
  <1> DEFINE page == Newest(S)
  <1>0. Limit \in Nat /\ Limit > 0
    BY JournalConstants
  <1>1. page \subseteq S /\ IsFiniteSet(page) /\ Cardinality(page) \in Nat
    <2>1. page \in SUBSET S /\ IsFiniteSet(S)
      BY AboveIsFinite DEF Newest
    <2>2. IsFiniteSet(page)
      BY <2>1, FS_Subset
    <2> QED BY <2>1, <2>2, FS_CardinalityType
  <1>2. PICK m \in S \ page : \A y \in S \ page : y <= m
    <2>1. S \ page \in SUBSET (0 .. n) /\ S \ page # {}
      BY Numbers
    <2> HIDE DEF page
    <2> QED BY <2>1, GreatestExists
  <1>3. page = Above(S, m)
    <2>1. \A j \in page : j \in S /\ j > m
      <3>1. \A j \in page : m < j /\ j \in S /\ j \in Int /\ m \in Int
        BY <1>1, <1>2, PageIsAbove, Numbers
      <3> QED BY <3>1
    <2>2. \A j \in S : j > m => j \in page
      <3>1. \A j \in S : j \in Int /\ m \in Int
        BY <1>2, Numbers
      <3> QED BY <1>2, <3>1
    <2> HIDE DEF page
    <2> QED BY <2>1, <2>2 DEF Above
  <1>4. Cardinality(page) >= Limit
    <2>1. ~(Cardinality(Above(S, m)) < Limit)
      BY <1>2, AboveIsFinite
    <2> HIDE DEF page
    <2> QED BY <1>0, <1>1, <1>3, <2>1
  <1>5. page # {}
    BY <1>0, <1>4, FS_EmptySet
  <1>6. PICK p \in page : \A y \in page : p <= y
    <2>1. page \in SUBSET Nat
      BY <1>1, Numbers
    <2> QED BY <1>5, <2>1, LeastExists
  <1>7. Cardinality(page) <= Limit
    <2>1. page \ {p} \in SUBSET Above(S, p)
      <3>1. \A y \in page \ {p} : y \in S /\ p <= y /\ y # p /\ y \in Int /\ p \in Int
        BY <1>1, <1>6, Numbers
      <3> QED BY <3>1 DEF Above
    <2>2. Cardinality(page \ {p}) = Cardinality(page) - 1
      BY <1>1, <1>6, FS_RemoveElement
    <2>3. Cardinality(page \ {p}) <= Cardinality(Above(S, p)) /\ Cardinality(Above(S, p)) < Limit
          /\ Cardinality(Above(S, p)) \in Nat
      BY <1>6, <2>1, AboveIsFinite, FS_Subset
    <2> HIDE DEF page
    <2> QED BY <1>0, <1>1, <2>2, <2>3
  <1> HIDE DEF page
  <1>8. Cardinality(page) = Limit
    BY <1>0, <1>1, <1>4, <1>7
  <1> QED BY <1>8 DEF page

\* The cursor of the next page passes over nothing that this one left out.
LEMMA CursorSkipsNothing ==
    ASSUME NEW n \in Nat, NEW S \in SUBSET (1 .. n), NEW returned
    PROVE  /\ NextCursor(Newest(S), returned) \in Nat
           /\ \A i \in S \ Newest(S) : i < NextCursor(Newest(S), returned)
  <1> DEFINE page == Newest(S)
  <1>0. page \in SUBSET Nat
    BY Numbers
  <1>1. CASE Cardinality(page) = Limit
    <2>1. page # {}
      BY <1>1, JournalConstants, FS_EmptySet
    <2>2. \E x \in page : \A y \in page : x <= y
      BY <1>0, <2>1, LeastExists
    <2>3. Min(page) \in page
      <3> HIDE DEF page
      <3> QED BY <2>2 DEF Min
    <2>4. NextCursor(page, returned) = Min(page)
      BY <1>1 DEF NextCursor
    <2> QED BY <1>0, <2>3, <2>4, PageIsAbove
  <1>2. CASE Cardinality(page) # Limit
    BY <1>2, PageIsFull DEF NextCursor
  <1> QED BY <1>1, <1>2

-----------------------------------------------------------------------------
(* A row.                                                                  *)

Row ==
    [key : Key, status : Status, resolved : BOOLEAN, backend : BackendFact, deadline : Nat,
     completed : BOOLEAN, hold : HoldMark, cached : TransactionStates]

\* The cache holds what the row said at some time up to now.
Cached(row) == \E at \in 0 .. now : row.cached = Derived(row, at)

\* The clock does not settle a purchase: whether a row is resolved depends on
\* what was recorded.
LEMMA ResolvedForGood ==
    ASSUME NEW row \in Row, NEW a \in Nat, NEW b \in Nat
    PROVE  Derived(row, a) \in ResolvedStates <=> Derived(row, b) \in ResolvedStates
  BY DEF Derived, TransactionStateOf, ResolvedStates, Row, Status

\* The clock changes only the state of a row that waits for a deadline.
LEMMA StaleIsTimeDependent ==
    ASSUME NEW row \in Row, NEW a \in Nat, NEW b \in Nat, Derived(row, a) # Derived(row, b)
    PROVE  TimeDependent(row)
  <1>1. row.deadline \in Nat /\ row.completed \in BOOLEAN
    BY DEF Row
  <1>2. CASE row.completed
    BY <1>1, <1>2 DEF Derived, TransactionStateOf
  <1>3. CASE row.deadline = 0
    <2>1. ~(a < row.deadline) /\ ~(b < row.deadline)
      BY <1>3
    <2> QED BY <2>1 DEF Derived, TransactionStateOf
  <1> QED BY <1>1, <1>2, <1>3 DEF TimeDependent

\* So a filter selects what it keeps.
LEMMA KeptIsSelected ==
    ASSUME NEW row \in Row, Cached(row), now \in Nat, NEW f \in Filter
    PROVE  /\ (f.unresolved => row.cached \notin ResolvedStates)
                 <=> (f.unresolved => Derived(row, now) \notin ResolvedStates)
           /\ (f.state = "any" \/ Derived(row, now) = f.state)
                 => (f.state = "any" \/ row.cached = f.state \/ TimeDependent(row))
  <1>1. PICK at \in Nat : row.cached = Derived(row, at)
    BY DEF Cached
  <1>2. row.cached \in ResolvedStates <=> Derived(row, now) \in ResolvedStates
    BY <1>1, ResolvedForGood
  <1>3. row.cached # Derived(row, now) => TimeDependent(row)
    BY <1>1, StaleIsTimeDependent
  <1> QED BY <1>2, <1>3

-----------------------------------------------------------------------------
(* The inductive invariant.                                                *)

RowsOK ==
    /\ now \in Nat
    /\ journal \in Seq(Row) /\ Len(journal) <= MaxRows
    /\ \A i \in 1 .. Len(journal) : Cached(journal[i])

WalkTypeOK ==
    /\ walk = [on |-> walk.on, filter |-> walk.filter, cursor |-> walk.cursor, got |-> walk.got]
    /\ walk.filter \in Filter /\ walk.cursor \in Nat
    /\ walk.got \in Seq(SUBSET Nat)

Got(i) == \E n \in DOMAIN walk.got : i \in walk.got[n]

\* What matched all along was returned or is still ahead of the cursor.
WalkOK ==
    walk.on => /\ steady \subseteq Matching(walk.filter)
               /\ \A i \in steady : i < walk.cursor \/ Got(i)

JournalInv == RowsOK /\ WalkTypeOK /\ WalkOK

-----------------------------------------------------------------------------
(* Writes.                                                                 *)

\* A write caches the state of its own time.
LEMMA RefreshedIsCached ==
    ASSUME now \in Nat, NEW row \in Row
    PROVE  Refreshed(row) \in Row /\ Cached(Refreshed(row))
  <1>1. Derived(row, now) \in TransactionStates
    BY DEF Derived, TransactionStateOf, TransactionStates
  <1>2. PICK fresh : fresh = [row EXCEPT !.cached = Derived(row, now)]
    OBVIOUS
  <1>3. fresh \in Row
    BY <1>1, <1>2 DEF Row
  <1>4. /\ fresh.cached = Derived(row, now) /\ fresh.status = row.status /\ fresh.backend = row.backend
        /\ fresh.completed = row.completed /\ fresh.deadline = row.deadline
    BY <1>2 DEF Row
  <1>5. Derived(fresh, now) = Derived(row, now)
    BY <1>4 DEF Derived
  <1>6. Cached(fresh)
    BY <1>4, <1>5 DEF Cached
  <1> QED BY <1>2, <1>3, <1>6 DEF Refreshed

\* A write to one row leaves the others.
LEMMA RewriteKeepsRows ==
    ASSUME RowsOK, NEW i \in 1 .. Len(journal), NEW row \in Row,
           journal' = [journal EXCEPT ![i] = Refreshed(row)], now' = now
    PROVE  RowsOK'
  <1> DEFINE fresh == Refreshed(row)
  <1>1. fresh \in Row /\ Cached(fresh) /\ now \in Nat
    BY RefreshedIsCached DEF RowsOK
  <1> HIDE DEF fresh
  <1>2. journal' = [journal EXCEPT ![i] = fresh]
    BY DEF fresh
  <1>3. /\ journal' \in Seq(Row) /\ Len(journal') = Len(journal)
        /\ \A j \in 1 .. Len(journal) : journal'[j] \in {journal[j], fresh}
    BY <1>1, <1>2 DEF RowsOK
  <1>4. \A r : Cached(r)' <=> Cached(r)
    BY DEF Cached, Derived
  <1>5. \A j \in 1 .. Len(journal') : Cached(journal'[j])
    BY <1>1, <1>3 DEF RowsOK
  <1>6. \A j \in 1 .. Len(journal') : Cached(journal[j])'
    BY <1>4, <1>5 DEF Cached, Derived
  <1> QED BY <1>1, <1>3, <1>6 DEF RowsOK

\* A reservation adds a row.
LEMMA ReserveKeepsRows ==
    ASSUME RowsOK, NEW k \in Key, NEW hold \in NewHolds, Reserve(k, hold)
    PROVE  RowsOK'
  <1> DEFINE fresh == [key |-> k, status |-> "reserved", resolved |-> FALSE, backend |-> "none",
                     deadline |-> 0, completed |-> FALSE, hold |-> hold,
                     cached |-> "payment-pending"]
  <1>1. fresh \in Row
    BY JournalConstants DEF Row, Status, BackendFact, HoldMark, TransactionStates
  <1>2. Derived(fresh, now) = "payment-pending" /\ fresh.cached = "payment-pending"
    BY DEF Derived, TransactionStateOf
  <1>3. journal' = Append(journal, fresh) /\ now' = now /\ Len(journal) < MaxRows
    BY DEF Reserve
  <1> HIDE DEF fresh
  <1>4. now \in Nat /\ Cached(fresh)
    BY <1>2 DEF RowsOK, Cached
  <1>5. /\ journal' \in Seq(Row) /\ Len(journal') = Len(journal) + 1
        /\ \A j \in 1 .. Len(journal') : journal'[j] = IF j <= Len(journal) THEN journal[j] ELSE fresh
    BY <1>1, <1>3 DEF RowsOK
  <1>6. \A j \in 1 .. Len(journal') : Cached(journal'[j])
    BY <1>4, <1>5 DEF RowsOK
  <1>7. \A j \in 1 .. Len(journal') : Cached(journal[j])'
    BY <1>3, <1>6 DEF Cached, Derived
  <1>8. Len(journal') <= MaxRows
    BY <1>3, <1>5, JournalConstants DEF RowsOK
  <1> QED BY <1>3, <1>4, <1>5, <1>7, <1>8 DEF RowsOK

\* A recorded step rewrites one row.
LEMMA WriteKeepsRows ==
    ASSUME RowsOK, Write
    PROVE  RowsOK' /\ walk' = walk
  <1>0. DOMAIN journal = 1 .. Len(journal) /\ now \in Nat /\ \A i \in 1 .. Len(journal) : journal[i] \in Row
    BY DEF RowsOK
  <1>1. ASSUME NEW k \in Key, NEW hold \in NewHolds, Reserve(k, hold)
        PROVE  RowsOK' /\ walk' = walk
    BY <1>1, ReserveKeepsRows DEF Reserve
  <1>2. ASSUME NEW k \in Key, NEW status \in Status, Update(k, status)
        PROVE  RowsOK' /\ walk' = walk
    <2> DEFINE i == live[k]
    <2>1. journal' = [journal EXCEPT ![i] = Refreshed([journal[i] EXCEPT !.status = status])]
          /\ now' = now /\ walk' = walk
      BY <1>2 DEF Update
    <2>2. CASE i \in 1 .. Len(journal)
      <3>1. [journal[i] EXCEPT !.status = status] \in Row
        BY <1>0, <2>2 DEF Row
      <3> QED BY <2>1, <2>2, <3>1, RewriteKeepsRows
    <2>3. CASE i \notin 1 .. Len(journal)
      <3>1. journal' = journal
        BY <1>0, <2>1, <2>3 DEF RowsOK
      <3> QED BY <2>1, <3>1 DEF RowsOK, Cached, Derived
    <2> QED BY <2>2, <2>3
  <1>3. ASSUME NEW i \in 1 .. Len(journal), NEW row \in Row, Step(i, row)
        PROVE  RowsOK' /\ walk' = walk
    BY <1>3, RewriteKeepsRows DEF Step
  <1>4. ASSUME NEW i \in 1 .. Len(journal), NEW status \in {"settled", "rejected"}, Resolve(i, status)
        PROVE  RowsOK' /\ walk' = walk
    <2>1. PICK row : row = [journal[i] EXCEPT !.status = status, !.resolved = TRUE]
      OBVIOUS
    <2>2. row \in Row
      BY <1>0, <2>1 DEF Row, Status
    <2>3. journal' = [journal EXCEPT ![i] = Refreshed(row)] /\ now' = now /\ walk' = walk
      BY <1>4, <2>1 DEF Resolve
    <2> QED BY <2>2, <2>3, RewriteKeepsRows
  <1>5. ASSUME NEW i \in 1 .. Len(journal), NEW hold \in {"open", "closed"}, RecordHold(i, hold)
        PROVE  RowsOK' /\ walk' = walk
    <2>1. [journal[i] EXCEPT !.hold = hold] \in Row
      BY <1>0 DEF Row, HoldMark
    <2> QED BY <1>3, <1>5, <2>1 DEF RecordHold
  <1>6. ASSUME NEW i \in 1 .. Len(journal), RecordDispatch(i, now + 1)
        PROVE  RowsOK' /\ walk' = walk
    <2>0. PICK at \in Nat : at = now + 1
      BY <1>0
    <2>1. PICK row : row = [journal[i] EXCEPT !.backend = "pending", !.deadline = at]
      OBVIOUS
    <2>2. row \in Row
      BY <1>0, <2>1 DEF Row, BackendFact
    <2>3. Step(i, row)
      BY <1>6, <2>0, <2>1 DEF RecordDispatch
    <2> QED BY <1>3, <2>2, <2>3
  <1>7. ASSUME NEW i \in 1 .. Len(journal), NEW result \in {"zero", "ok", "error"}, RecordResult(i, result)
        PROVE  RowsOK' /\ walk' = walk
    <2>1. PICK at : at = IF journal[i].backend = "none" THEN now ELSE journal[i].deadline
      OBVIOUS
    <2>2. at \in Nat
      BY <1>0, <2>1 DEF Row
    <2>3. PICK row : row = [journal[i] EXCEPT !.backend = result, !.deadline = at]
      OBVIOUS
    <2>4. row \in Row
      BY <1>0, <2>2, <2>3 DEF Row, BackendFact
    <2>5. Step(i, row)
      BY <1>7, <2>1, <2>3 DEF RecordResult
    <2> QED BY <1>3, <2>4, <2>5
  <1>8. ASSUME NEW i \in 1 .. Len(journal), RecordCompleted(i)
        PROVE  RowsOK' /\ walk' = walk
    <2>1. [journal[i] EXCEPT !.completed = TRUE] \in Row
      BY <1>0 DEF Row
    <2> QED BY <1>3, <1>8, <2>1 DEF RecordCompleted
  <1> QED BY <1>0, <1>1, <1>2, <1>4, <1>5, <1>6, <1>7, <1>8 DEF Write

-----------------------------------------------------------------------------
(* The walk.                                                               *)

\* A filter's matches are among the rows its query selects.
LEMMA MatchesAreSelected ==
    ASSUME RowsOK, NEW f \in Filter, NEW i \in Matching(f)
    PROVE  i \in 1 .. Len(journal) /\ Selected(journal[i], f) /\ Kept(journal[i], f)
  <1>1. /\ i \in 1 .. Len(journal) /\ journal[i] \in Row /\ Cached(journal[i]) /\ now \in Nat
        /\ f.pendingHold => journal[i].hold = "open"
        /\ f.state = "any" \/ Derived(journal[i], now) = f.state
        /\ f.unresolved => Derived(journal[i], now) \notin ResolvedStates
    BY DEF Matching, RowsOK
  <1> QED BY <1>1, KeptIsSelected DEF Selected, Kept

\* Rows are written, time passes or a query is refused.
LEMMA OtherStepsKeepWalk ==
    ASSUME JournalInv, walk' = walk, steady' = steady \cap Matching(walk.filter)'
    PROVE  WalkTypeOK' /\ WalkOK'
  <1>1. WalkTypeOK'
    BY DEF JournalInv, WalkTypeOK
  <1>2. \A i : Got(i)' <=> Got(i)
    BY DEF Got
  <1> QED BY <1>1, <1>2 DEF JournalInv, WalkOK

\* Time passes and no cached state changes.
LEMMA TickKeepsRows ==
    ASSUME RowsOK, Tick
    PROVE  RowsOK'
  <1>1. now' = now + 1 /\ now \in Nat /\ journal' = journal
    BY DEF Tick, RowsOK
  <1>2. ASSUME NEW i \in 1 .. Len(journal)
        PROVE  Cached(journal[i])'
    <2>1. PICK at \in 0 .. now : journal[i].cached = Derived(journal[i], at)
      BY DEF RowsOK, Cached
    <2>2. at \in 0 .. now'
      BY <1>1
    <2> QED BY <1>1, <2>1, <2>2 DEF Cached, Derived
  <1> QED BY <1>1, <1>2 DEF RowsOK

\* A walk begins.
LEMMA OpenKeepsWalk ==
    ASSUME JournalInv, NEW f \in Query, OpenWalk(f), steady' = Matching(f)
    PROVE  JournalInv'
  <1>1. /\ walk' = [on |-> TRUE, filter |-> f, cursor |-> MaxRows + 1, got |-> <<>>]
        /\ UNCHANGED <<now, journal>> /\ f \in Filter /\ MaxRows \in Nat
    <2>1. walk' = [Idle EXCEPT !.on = TRUE, !.filter = f]
      BY DEF OpenWalk
    <2>2. walk' = [on |-> TRUE, filter |-> f, cursor |-> MaxRows + 1, got |-> <<>>]
      BY <2>1 DEF Idle
    <2> QED BY <2>2, JournalConstants DEF OpenWalk
  <1>2. RowsOK'
    BY <1>1 DEF JournalInv, RowsOK, Cached, Derived
  <1>3. walk'.filter = f /\ walk'.cursor = MaxRows + 1 /\ walk'.got = <<>>
    BY <1>1
  <1>4. WalkTypeOK'
    <2>1. <<>> \in Seq(SUBSET Nat)
      OBVIOUS
    <2> QED BY <1>1, <1>3, <2>1 DEF WalkTypeOK
  <1>5. Matching(walk.filter)' = Matching(f)
    BY <1>1, <1>3 DEF Matching, Derived
  <1>6. \A i \in Matching(f) : i < MaxRows + 1
    <2>1. \A i \in Matching(f) : i \in 1 .. Len(journal)
      BY DEF JournalInv, RowsOK, Matching
    <2>2. Len(journal) \in Nat /\ Len(journal) <= MaxRows
      BY DEF JournalInv, RowsOK
    <2> QED BY <1>1, <2>1, <2>2
  <1>7. WalkOK'
    BY <1>3, <1>5, <1>6 DEF WalkOK
  <1> QED BY <1>2, <1>4, <1>7 DEF JournalInv

\* A page is read.
LEMMA PageKeepsWalk ==
    ASSUME JournalInv, ReadPage, steady' = steady \cap Matching(walk.filter)'
    PROVE  JournalInv'
  <1> DEFINE n == Len(journal)
             S == {i \in DOMAIN journal : Beyond(i) /\ Selected(journal[i], walk.filter)}
             page == Newest(S)
             returned == {i \in page : Kept(journal[i], walk.filter)}
             cursor == NextCursor(page, returned)
  <1>0. /\ RowsOK /\ WalkTypeOK /\ WalkOK /\ DOMAIN journal = 1 .. n /\ n \in Nat
        /\ walk.on /\ UNCHANGED <<now, journal>> /\ walk.filter \in Filter
        /\ walk.got \in Seq(SUBSET Nat)
    BY DEF JournalInv, RowsOK, WalkTypeOK, ReadPage
  <1>1. S \in SUBSET (1 .. n)
    BY <1>0
  <1>2. walk' = [walk EXCEPT !.got = Append(walk.got, returned), !.cursor = cursor]
    BY DEF ReadPage
  <1> HIDE DEF S
  <1>3. cursor \in Nat /\ \A i \in S \ page : i < cursor
    BY <1>0, <1>1, CursorSkipsNothing
  <1>4. returned \in SUBSET Nat
    BY <1>0, <1>1, Numbers
  <1> HIDE DEF cursor, returned, n
  <1>5. walk' = [on |-> walk.on, filter |-> walk.filter, cursor |-> cursor,
                 got |-> Append(walk.got, returned)]
    BY <1>0, <1>2 DEF WalkTypeOK
  <1>6. /\ walk'.filter = walk.filter /\ walk'.cursor = cursor /\ walk'.got = Append(walk.got, returned)
    BY <1>5
  <1>7. /\ walk'.got \in Seq(SUBSET Nat)
        /\ \A i : Got(i) \/ i \in returned => Got(i)'
    <2>1. /\ walk'.got \in Seq(SUBSET Nat) /\ Len(walk'.got) = Len(walk.got) + 1
          /\ Len(walk.got) \in Nat
          /\ \A k \in 1 .. Len(walk.got) : walk'.got[k] = walk.got[k]
          /\ walk'.got[Len(walk.got) + 1] = returned
          /\ DOMAIN walk.got = 1 .. Len(walk.got) /\ DOMAIN walk'.got = 1 .. Len(walk.got) + 1
      BY <1>0, <1>4, <1>6
    <2>2. /\ \A k \in DOMAIN walk.got : k \in DOMAIN walk'.got
          /\ Len(walk.got) + 1 \in DOMAIN walk'.got
      BY <2>1
    <2> QED BY <2>1, <2>2 DEF Got
  <1>8. RowsOK'
    BY <1>0 DEF RowsOK, Cached, Derived
  <1>9. WalkTypeOK'
    BY <1>0, <1>3, <1>5, <1>6, <1>7 DEF WalkTypeOK
  <1>10. ASSUME NEW i \in steady'
         PROVE  i < walk'.cursor \/ Got(i)'
    <2>1. i \in steady /\ i \in Matching(walk.filter)
      BY <1>0 DEF WalkOK
    <2>2. CASE Got(i)
      BY <1>7, <2>2
    <2>3. CASE i < walk.cursor
      <3>1. i \in DOMAIN journal /\ Selected(journal[i], walk.filter) /\ Kept(journal[i], walk.filter)
        BY <1>0, <2>1, MatchesAreSelected
      <3>2. i \in S
        BY <2>3, <3>1 DEF S, Beyond
      <3>3. i \in page => i \in returned
        BY <3>1 DEF returned
      <3> QED BY <1>3, <1>6, <1>7, <3>2, <3>3
    <2> QED BY <1>0, <2>1, <2>2, <2>3 DEF WalkOK
  <1>11. WalkOK'
    BY <1>10 DEF WalkOK
  <1> QED BY <1>8, <1>9, <1>11 DEF JournalInv

-----------------------------------------------------------------------------
(* The specification.                                                      *)

\* A walk that has not begun.
LEMMA IdleIsTyped ==
    ASSUME walk = Idle
    PROVE  WalkTypeOK /\ ~walk.on
  <1>1. walk = [on |-> FALSE, filter |-> NoFilter, cursor |-> MaxRows + 1, got |-> <<>>]
    BY DEF Idle
  <1>2. walk.on = FALSE /\ walk.filter = NoFilter /\ walk.cursor = MaxRows + 1 /\ walk.got = <<>>
    BY <1>1
  <1>3. NoFilter \in Filter /\ MaxRows + 1 \in Nat /\ <<>> \in Seq(SUBSET Nat)
    BY JournalConstants DEF NoFilter, Filter
  <1>4. walk = [on |-> walk.on, filter |-> walk.filter, cursor |-> walk.cursor, got |-> walk.got]
    BY <1>1
  <1> QED BY <1>2, <1>3, <1>4 DEF WalkTypeOK

\* The journal is empty at first.
LEMMA JournalStarts ==
    ASSUME Init
    PROVE  JournalInv
  <1>1. RowsOK
    BY JournalConstants DEF Init, RowsOK
  <1> QED BY <1>1, IdleIsTyped DEF Init, JournalInv, WalkOK

\* Every step keeps the invariant.
LEMMA JournalSteps ==
    ASSUME JournalInv, [Next]_vars
    PROVE  JournalInv'
  <1>1. ASSUME NEW f \in Query, OpenWalk(f), steady' = Matching(f)
        PROVE  JournalInv'
    BY <1>1, OpenKeepsWalk
  <1>2. CASE Write /\ steady' = steady \cap Matching(walk.filter)'
    BY <1>2, WriteKeepsRows, OtherStepsKeepWalk DEF JournalInv
  <1>3. CASE Tick /\ steady' = steady \cap Matching(walk.filter)'
    <2>1. walk' = walk
      BY <1>3 DEF Tick
    <2> QED BY <1>3, <2>1, TickKeepsRows, OtherStepsKeepWalk DEF JournalInv
  <1>4. CASE ReadPage /\ steady' = steady \cap Matching(walk.filter)'
    BY <1>4, PageKeepsWalk
  <1>5. CASE RefuseQuery /\ steady' = steady \cap Matching(walk.filter)'
    <2>1. UNCHANGED <<now, journal, walk>>
      BY <1>5 DEF RefuseQuery
    <2>2. RowsOK'
      BY <2>1 DEF JournalInv, RowsOK, Cached, Derived
    <2> QED BY <1>5, <2>1, <2>2, OtherStepsKeepWalk DEF JournalInv
  <1>6. CASE CloseWalk
    <2>1. walk' = Idle /\ UNCHANGED <<now, journal>>
      BY <1>6 DEF CloseWalk
    <2>2. RowsOK'
      BY <2>1 DEF JournalInv, RowsOK, Cached, Derived
    <2>3. walk' = [on |-> FALSE, filter |-> NoFilter, cursor |-> MaxRows + 1, got |-> <<>>]
      BY <2>1 DEF Idle
    <2>4. walk'.on = FALSE /\ walk'.filter = NoFilter /\ walk'.cursor = MaxRows + 1 /\ walk'.got = <<>>
      BY <2>3
    <2>5. NoFilter \in Filter /\ MaxRows + 1 \in Nat /\ <<>> \in Seq(SUBSET Nat)
      BY JournalConstants DEF NoFilter, Filter
    <2>6. WalkTypeOK'
      BY <2>3, <2>4, <2>5 DEF WalkTypeOK
    <2> QED BY <2>2, <2>4, <2>6 DEF JournalInv, WalkOK
  <1>7. CASE UNCHANGED vars
    <2>1. UNCHANGED <<now, journal, walk, steady>>
      BY <1>7 DEF vars
    <2>2. RowsOK' /\ WalkTypeOK'
      BY <2>1 DEF JournalInv, RowsOK, Cached, Derived, WalkTypeOK
    <2>3. WalkOK'
      BY <2>1 DEF JournalInv, WalkOK, Got, Matching, Derived
    <2> QED BY <2>2, <2>3 DEF JournalInv
  <1> QED BY <1>1, <1>2, <1>3, <1>4, <1>5, <1>6, <1>7 DEF Next

\* The invariant holds of every behaviour.
LEMMA JournalIsKept == Spec => []JournalInv
  BY JournalStarts, JournalSteps, PTL DEF Spec

\* A row's cached state is what the row said at its last write.  However far the
\* clock went on since, the lists' query selects every row whose state by now
\* matches, and none too many where only resolved purchases are left out.
THEOREM CacheTheorem == Spec => []CacheHidesNothing
  <1>1. JournalInv => CacheHidesNothing
    <2> SUFFICES ASSUME JournalInv PROVE CacheHidesNothing
      OBVIOUS
    <2>0. RowsOK /\ DOMAIN journal = 1 .. Len(journal)
          /\ \A i \in DOMAIN journal : journal[i] \in Row /\ Cached(journal[i]) /\ now \in Nat
      BY DEF JournalInv, RowsOK
    <2> DEFINE Candidates(f) == {i \in DOMAIN journal : Selected(journal[i], f)}
               unresolved == [NoFilter EXCEPT !.unresolved = TRUE]
    <2>1. unresolved \in Filter /\ unresolved.state = "any" /\ unresolved.unresolved
          /\ ~unresolved.pendingHold
      BY DEF NoFilter, Filter
    <2>2. Candidates(unresolved) = Matching(unresolved)
      <3> HIDE DEF unresolved
      <3>1. \A i \in DOMAIN journal :
               Selected(journal[i], unresolved) <=>
                  (unresolved.unresolved => journal[i].cached \notin ResolvedStates)
        BY <2>1 DEF Selected
      <3>2. \A i \in DOMAIN journal :
               (unresolved.unresolved => journal[i].cached \notin ResolvedStates) <=>
               (unresolved.unresolved => Derived(journal[i], now) \notin ResolvedStates)
        BY <2>0, <2>1, KeptIsSelected
      <3> QED BY <2>1, <3>1, <3>2 DEF Matching
    <2>3. ASSUME NEW s \in TransactionStates
          PROVE  Matching([NoFilter EXCEPT !.state = s]) \subseteq Candidates([NoFilter EXCEPT !.state = s])
      <3>1. PICK f : f = [NoFilter EXCEPT !.state = s]
        OBVIOUS
      <3>2. f \in Filter
        BY <3>1 DEF NoFilter, Filter
      <3>3. Matching(f) \subseteq Candidates(f)
        BY <2>0, <3>2, MatchesAreSelected
      <3> QED BY <3>1, <3>3
    <2> QED BY <2>2, <2>3 DEF CacheHidesNothing
  <1> QED BY <1>1, JournalIsKept, PTL

\* With any page size, filter and number of rows, a walk to the end returns every
\* purchase that matched from its first page to its last, whatever is written,
\* reserved or timed out between the pages (listTransactions, nextCursor).
THEOREM WalkTheorem == Spec => []WalkMissesNothing
  <1>1. JournalInv => WalkMissesNothing
    <2> SUFFICES ASSUME JournalInv, walk.on, walk.cursor = 0, NEW i \in steady
                 PROVE  i \in UNION {walk.got[n] : n \in DOMAIN walk.got}
      BY DEF WalkMissesNothing
    <2>1. i \in DOMAIN journal /\ DOMAIN journal = 1 .. Len(journal)
      BY DEF JournalInv, WalkOK, Matching, RowsOK
    <2>2. ~(i < walk.cursor)
      BY <2>1
    <2> QED BY <2>2 DEF JournalInv, WalkOK, Got
  <1> QED BY <1>1, JournalIsKept, PTL
=============================================================================
