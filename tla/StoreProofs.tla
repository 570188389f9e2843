---------------------------- MODULE StoreProofs ----------------------------
(***************************************************************************)
(* The hold table and the attempt tables keep their promises for any       *)
(* number of mandates, checkouts, replay keys and requests, whatever the   *)
(* callers ask for and in whatever order.                                  *)
(***************************************************************************)
EXTENDS HoldStore, AttemptStore, TLAPS

-----------------------------------------------------------------------------
(* The hold table.                                                         *)

\* Reservations and transitions write only rows of the schema's shape.
LEMMA HoldTypeStep == HoldTypeOK /\ [HoldNext]_holds => HoldTypeOK'
<1> SUFFICES ASSUME HoldTypeOK, [HoldNext]_holds PROVE HoldTypeOK'
  OBVIOUS
<1> USE DEF HoldTypeOK, Hold, HoldState
<1>1. CASE UNCHANGED holds
  BY <1>1
<1>2. CASE HoldNext
  <2> PICK m \in Mandate, r \in Request :
        \/ ReserveHold(m, r)
        \/ \E to \in HoldTarget : TransitionHold(m, to, r)
    BY <1>2 DEF HoldNext
  <2>1. CASE ReserveHold(m, r)
    BY <2>1 DEF ReserveHold
  <2>2. ASSUME NEW to \in HoldTarget, TransitionHold(m, to, r)
        PROVE  HoldTypeOK'
    BY <2>2 DEF TransitionHold, HoldTarget
  <2> QED
    BY <2>1, <2>2
<1> QED
  BY <1>1, <1>2

\* Every row of the hold table always has the schema's shape (holds.ts HoldRow).
THEOREM HoldTypeCorrect == HoldSpec => []HoldTypeOK
<1>1. HoldInit => HoldTypeOK
  BY DEF HoldInit, HoldTypeOK, Hold, HoldState, NoHold
<1> QED
  BY <1>1, HoldTypeStep, PTL DEF HoldSpec

\* A reservation finds every other mandate of its checkout free, and a
\* transition never brings a released row back to life.
LEMMA OneLiveStep ==
    HoldTypeOK /\ OneLiveHoldPerBinding /\ [HoldNext]_holds => OneLiveHoldPerBinding'
<1> SUFFICES ASSUME HoldTypeOK, OneLiveHoldPerBinding, [HoldNext]_holds,
                    NEW m \in Mandate, NEW n \in Mandate,
                    m # n, BindingOf[m] = BindingOf[n],
                    LiveHold(m)', LiveHold(n)'
             PROVE  FALSE
  BY DEF OneLiveHoldPerBinding
<1> USE DEF HoldTypeOK, Hold
<1>1. CASE UNCHANGED holds
  BY <1>1 DEF LiveHold, OneLiveHoldPerBinding
<1>2. CASE HoldNext
  <2> PICK p \in Mandate, r \in Request :
        \/ ReserveHold(p, r)
        \/ \E to \in HoldTarget : TransitionHold(p, to, r)
    BY <1>2 DEF HoldNext
  <2>1. CASE ReserveHold(p, r)
    <3>1. \A q \in Mandate \ {p} : LiveHold(q)' => LiveHold(q)
      BY <2>1 DEF ReserveHold, LiveHold
    <3>2. \A q \in Mandate \ {p} : BindingOf[q] = BindingOf[p] => ~LiveHold(q)
      BY <2>1 DEF ReserveHold, HoldReplayed
    <3> QED
      BY <3>1, <3>2 DEF OneLiveHoldPerBinding
  <2>2. ASSUME NEW to \in HoldTarget, TransitionHold(p, to, r)
        PROVE  FALSE
    <3>1. \A q \in Mandate : LiveHold(q)' => LiveHold(q)
      BY <2>2 DEF TransitionHold, HoldMoves, LiveHold
    <3> QED
      BY <3>1 DEF OneLiveHoldPerBinding
  <2> QED
    BY <2>1, <2>2
<1> QED
  BY <1>1, <1>2

\* No history of reservations and transitions makes two mandates of one checkout
\* live together (selectLiveBinding in holds.ts reserve).
THEOREM OneCheckoutOneHold == HoldSpec => []OneLiveHoldPerBinding
<1>1. HoldInit => OneLiveHoldPerBinding
  BY DEF HoldInit, OneLiveHoldPerBinding, LiveHold, NoHold
<1> QED
  BY <1>1, HoldTypeCorrect, OneLiveStep, PTL DEF HoldSpec

\* A hold changes hands only after a release, and a consumed one never changes
\* (the request guard of `transition`, the state guard of `reserve`).
THEOREM HoldsAreHandedOver == HoldSpec => HoldHandover
<1> DEFINE Handover ==
      \A m \in Mandate :
         /\ holds[m].state = "consumed" => holds'[m] = holds[m]
         /\ holds'[m].req # holds[m].req =>
              /\ holds[m].state \in {"absent", "released"}
              /\ holds'[m].state = "reserved"
<1>1. HoldTypeOK /\ [HoldNext]_holds => [Handover]_holds
  <2> SUFFICES ASSUME HoldTypeOK, HoldNext PROVE Handover
    OBVIOUS
  <2> USE DEF HoldTypeOK, Hold
  <2> PICK p \in Mandate, r \in Request :
        \/ ReserveHold(p, r)
        \/ \E to \in HoldTarget : TransitionHold(p, to, r)
    BY DEF HoldNext
  <2>1. CASE ReserveHold(p, r)
    BY <2>1 DEF ReserveHold, HoldReplayed, LiveHold
  <2>2. ASSUME NEW to \in HoldTarget, TransitionHold(p, to, r)
        PROVE  Handover
    BY <2>2 DEF TransitionHold, HoldMoves
  <2> QED
    BY <2>1, <2>2
<1> QED
  BY <1>1, HoldTypeCorrect, PTL DEF HoldSpec, HoldHandover

-----------------------------------------------------------------------------
(* The attempt tables.                                                     *)

\* A reservation writes a row of the schema's shape.
LEMMA ReserveKeepsType ==
    ASSUME AttemptTypeOK, NEW r \in Request, NEW k \in Key, NEW rail \in Rail,
           NEW reclaim \in BOOLEAN, ReserveAttempt(r, k, rail, reclaim)
    PROVE  AttemptTypeOK'
BY DEF ReserveAttempt, AttemptTypeOK, Row, Archived, AttemptStatus

\* So does an update.
LEMMA UpdateKeepsType ==
    ASSUME AttemptTypeOK, NEW k \in Key, NEW status \in AttemptStatus,
           UpdateAttempt(k, status)
    PROVE  AttemptTypeOK'
BY DEF UpdateAttempt, AttemptTypeOK, Row

\* So does a resolution.
LEMMA ResolveKeepsType ==
    ASSUME AttemptTypeOK, NEW k \in Key, NEW id, NEW expected,
           NEW status \in ResolvedStatus, NEW method \in Method,
           ResolveAttempt(k, id, expected, status, method)
    PROVE  AttemptTypeOK'
BY DEF ResolveAttempt, AttemptTypeOK, Row, ResolvedStatus, AttemptStatus

\* Both tables always hold rows of the schema's shape.
THEOREM AttemptTypeCorrect == AttemptSpec => []AttemptTypeOK
<1>1. AttemptInit => AttemptTypeOK
  BY DEF AttemptInit, AttemptTypeOK, Row, NoRow, Rail
<1>2. AttemptTypeOK /\ [AttemptNext]_<<attempts, history>> => AttemptTypeOK'
  <2> SUFFICES ASSUME AttemptTypeOK, AttemptNext PROVE AttemptTypeOK'
    BY DEF AttemptTypeOK
  <2> PICK k \in Key : AttemptStep(k)
    BY DEF AttemptNext
  <2>1. UpdateStatus \subseteq AttemptStatus
    BY DEF UpdateStatus
  <2> QED
    BY <2>1, ReserveKeepsType, UpdateKeepsType, ResolveKeepsType DEF AttemptStep
<1> QED
  BY <1>1, <1>2, PTL DEF AttemptSpec

\* What a reservation archives was rejected (reclaimRejected in `reserve`).
LEMMA ReserveArchivesRejected ==
    ASSUME NEW r, NEW k \in Key, NEW rail, NEW reclaim,
           ReserveAttempt(r, k, rail, reclaim)
    PROVE  \/ attempts[k].status = "absent" /\ history' = history
           \/ /\ attempts[k].status = "rejected"
              /\ history' = history \cup {[key |-> k, row |-> attempts[k]]}
BY DEF ReserveAttempt, Replayed, Reclaimable

\* Only rejected attempts are superseded: an authorization that is reserved,
\* uncertain or settled is never handed to a second purchase.
THEOREM OnlyRejectedSuperseded == AttemptSpec => []SupersededWereRejected
<1>1. AttemptInit => SupersededWereRejected
  BY DEF AttemptInit, SupersededWereRejected
<1>2. SupersededWereRejected /\ [AttemptNext]_<<attempts, history>> => SupersededWereRejected'
  <2> SUFFICES ASSUME SupersededWereRejected, AttemptNext PROVE SupersededWereRejected'
    BY DEF SupersededWereRejected
  <2> PICK k \in Key : AttemptStep(k)
    BY DEF AttemptNext
  <2>1. \/ history' = history
        \/ /\ attempts[k].status = "rejected"
           /\ history' = history \cup {[key |-> k, row |-> attempts[k]]}
    BY ReserveArchivesRejected DEF AttemptStep, UpdateAttempt, ResolveAttempt
  <2> QED
    BY <2>1 DEF SupersededWereRejected
<1> QED
  BY <1>1, <1>2, PTL DEF AttemptSpec

\* An update leaves the identity of every attempt alone.
LEMMA UpdateKeepsIds ==
    ASSUME AttemptTypeOK, NEW k \in Key, NEW status, UpdateAttempt(k, status)
    PROVE  history' = history /\ \A j \in Key : attempts'[j].id = attempts[j].id
BY DEF UpdateAttempt, AttemptTypeOK, Row

\* So does a resolution.
LEMMA ResolveKeepsIds ==
    ASSUME AttemptTypeOK, NEW k \in Key, NEW id, NEW expected, NEW status, NEW method,
           ResolveAttempt(k, id, expected, status, method)
    PROVE  history' = history /\ \A j \in Key : attempts'[j].id = attempts[j].id
BY DEF ResolveAttempt, AttemptTypeOK, Row

\* Every reservation has exactly one row, current or archived (`reserve` archives
\* and replaces in one transaction).
THEOREM OneRowForEachAttempt == AttemptSpec => []OneRowPerAttempt
<1>1. AttemptInit => OneRowPerAttempt
  BY RequestConstants DEF AttemptInit, OneRowPerAttempt, NoRow
<1>2. AttemptTypeOK /\ OneRowPerAttempt /\ [AttemptNext]_<<attempts, history>>
        => OneRowPerAttempt'
  <2> SUFFICES ASSUME AttemptTypeOK, OneRowPerAttempt, AttemptNext
               PROVE  OneRowPerAttempt'
    BY DEF OneRowPerAttempt
  <2> PICK k \in Key : AttemptStep(k)
    BY DEF AttemptNext
  <2>1. ASSUME NEW r \in Request \ AttemptIds, NEW rail \in Rail,
               NEW reclaim \in BOOLEAN, ReserveAttempt(r, k, rail, reclaim)
        PROVE  OneRowPerAttempt'
    <3> DEFINE new == [key |-> k, row |-> attempts[k]]
    <3>1. /\ \A j \in Key : attempts[j].id # r
          /\ \A h \in history : h.row.id # r
      BY <2>1 DEF AttemptIds
    <3>2. /\ attempts'[k].id = r
          /\ \A j \in Key \ {k} : attempts'[j].id = attempts[j].id
          /\ \/ history' = history
             \/ history' = history \cup {new}
      BY <2>1 DEF ReserveAttempt, AttemptTypeOK
    <3>3. new.row.id = attempts[k].id
      OBVIOUS
    <3> QED
      BY <3>1, <3>2, <3>3 DEF OneRowPerAttempt
  <2>2. CASE history' = history /\ \A j \in Key : attempts'[j].id = attempts[j].id
    BY <2>2 DEF OneRowPerAttempt
  <2> QED
    BY <2>1, <2>2, UpdateKeepsIds, ResolveKeepsIds DEF AttemptStep
<1> QED
  BY <1>1, <1>2, AttemptTypeCorrect, PTL DEF AttemptSpec

\* A key without a row has no resolution either.
UnusedKeysAreEmpty ==
    \A k \in Key : attempts[k].status = "absent" => attempts[k].resolution = "none"

\* The strengthening that finality needs: an unused key carries no resolution.
LEMMA UnusedStayEmpty == AttemptSpec => []UnusedKeysAreEmpty
<1>1. AttemptInit => UnusedKeysAreEmpty
  BY DEF AttemptInit, UnusedKeysAreEmpty, NoRow
<1>2. AttemptTypeOK /\ UnusedKeysAreEmpty /\ [AttemptNext]_<<attempts, history>>
        => UnusedKeysAreEmpty'
  <2> SUFFICES ASSUME AttemptTypeOK, UnusedKeysAreEmpty, AttemptNext
               PROVE  UnusedKeysAreEmpty'
    BY DEF UnusedKeysAreEmpty
  <2> PICK k \in Key : AttemptStep(k)
    BY DEF AttemptNext
  <2>1. ASSUME NEW r, NEW rail, NEW reclaim, ReserveAttempt(r, k, rail, reclaim)
        PROVE  UnusedKeysAreEmpty'
    BY <2>1 DEF ReserveAttempt, UnusedKeysAreEmpty, AttemptTypeOK
  <2>2. ASSUME NEW status \in UpdateStatus, UpdateAttempt(k, status)
        PROVE  UnusedKeysAreEmpty'
    BY <2>2 DEF UpdateAttempt, Updatable, UnusedKeysAreEmpty, AttemptTypeOK, Row
  <2>3. ASSUME NEW id, NEW expected, NEW status \in ResolvedStatus, NEW method,
               ResolveAttempt(k, id, expected, status, method)
        PROVE  UnusedKeysAreEmpty'
    BY <2>3 DEF ResolveAttempt, ResolvedStatus, UnusedKeysAreEmpty, AttemptTypeOK, Row
  <2> QED
    BY <2>1, <2>2, <2>3 DEF AttemptStep
<1> QED
  BY <1>1, <1>2, AttemptTypeCorrect, PTL DEF AttemptSpec

\* No late update and no competing resolver changes a resolved row; only a
\* reclaim replaces it, and archives it first.
THEOREM ResolutionsAreFinal == AttemptSpec => ResolutionIsFinal
<1> DEFINE Final ==
      \A k \in Key :
         (attempts[k].resolution # "none" /\ attempts'[k] # attempts[k]) =>
            /\ attempts[k].status = "rejected"
            /\ [key |-> k, row |-> attempts[k]] \in history'
<1>1. AttemptTypeOK /\ UnusedKeysAreEmpty /\ [AttemptNext]_<<attempts, history>>
        => [Final]_<<attempts, history>>
  <2> SUFFICES ASSUME AttemptTypeOK, UnusedKeysAreEmpty, AttemptNext, NEW j \in Key,
                      attempts[j].resolution # "none", attempts'[j] # attempts[j]
               PROVE  /\ attempts[j].status = "rejected"
                      /\ [key |-> j, row |-> attempts[j]] \in history'
    OBVIOUS
  <2> PICK k \in Key : AttemptStep(k)
    BY DEF AttemptNext
  <2>1. ASSUME NEW r, NEW rail, NEW reclaim, ReserveAttempt(r, k, rail, reclaim)
        PROVE  /\ attempts[j].status = "rejected"
               /\ [key |-> j, row |-> attempts[j]] \in history'
    <3>1. k = j
      BY <2>1 DEF ReserveAttempt, AttemptTypeOK
    <3> QED
      BY <2>1, <3>1, ReserveArchivesRejected DEF UnusedKeysAreEmpty
  <2>2. ASSUME NEW status, UpdateAttempt(k, status)
        PROVE  FALSE
    BY <2>2 DEF UpdateAttempt, Updatable, AttemptTypeOK
  <2>3. ASSUME NEW id, NEW expected, NEW status, NEW method,
               ResolveAttempt(k, id, expected, status, method)
        PROVE  FALSE
    BY <2>3 DEF ResolveAttempt, Resolvable, AttemptTypeOK
  <2> QED
    BY <2>1, <2>2, <2>3 DEF AttemptStep
<1> QED
  BY <1>1, AttemptTypeCorrect, UnusedStayEmpty, PTL DEF AttemptSpec, ResolutionIsFinal
=============================================================================
