------------------------------ MODULE MCStores ------------------------------
(* The hold table and the attempt tables for TLC, under arbitrary callers, *)
(* and the upgrade of the hold table from its file.  A behaviour exercises *)
(* one of the three; once the operator has accepted a loss, only starts    *)
(* are followed.                                                           *)
EXTENDS LegacyImport, AttemptStore, TLC
CONSTANTS m1, m2, m3
VARIABLE table

\* Two mandates of one checkout and a third one of its own.
TwoCheckouts == (m1 :> "c") @@ (m2 :> "c") @@ (m3 :> "d")

attemptVars == <<attempts, history>>

StoresInit ==
    /\ table \in {"holds", "attempts", "upgrade"}
    /\ HoldInit
    /\ ImportInit
    /\ AttemptInit

StoresNext ==
    /\ \/ table = "holds" /\ HoldNext /\ UNCHANGED <<attemptVars, importVars>>
       \/ table = "attempts" /\ AttemptNext /\ UNCHANGED <<holds, importVars>>
       \/ /\ table = "upgrade"
          /\ ImportNext
          /\ lossy => UNCHANGED <<purchaseVars, saved>>
          /\ UNCHANGED <<holds, attemptVars>>
    /\ UNCHANGED table

StoresSpec == StoresInit /\ [][StoresNext]_<<table, holds, attemptVars, importVars>>

Symmetry == Permutations(Request) \cup Permutations(Key) \cup Permutations({m1, m2})
=============================================================================
