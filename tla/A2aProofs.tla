------------------------------ MODULE A2aProofs ------------------------------
(***************************************************************************)
(* The purchases that wait for an x402 payment, for any number of messages *)
(* and mandates, any store size, expiries, stops, crashes and storage      *)
(* errors: a task is paid for once, under its own mandate.                 *)
(***************************************************************************)
EXTENDS A2aTasks, FiniteSetTheorems, TLAPS

-----------------------------------------------------------------------------
(* The inductive invariant.                                                *)

AnyMandate == Mandate \cup {NoMandate}

\* The positions of a message that has not opened a task.
Opening == {"new", "read", "executing", "holding"}

TypeInv ==
    /\ now \in Nat /\ epoch \in Nat
    /\ rows \in [Message -> Nat]
    /\ mandates \in [Message -> AnyMandate]
    /\ asked \in [Message -> Asked]
    /\ pc \in [Message -> Running \cup {"new", "done", "cut"}]
    /\ proof \in [Message -> AnyMandate]
    /\ offers \in [Message -> [until : Nat, mandate : AnyMandate, epoch : Nat]]
    /\ bought \subseteq Message
    /\ takers \in [Message -> SUBSET [by : Message, at : Nat]]

\* A waiting task is the one its message opened, and nobody has taken it.
TaskOK(t) ==
    /\ rows[t] > 0 => rows[t] = offers[t].until /\ takers[t] = {} /\ pc[t] = "done"
    /\ pc[t] \in Opening => takers[t] = {}
    /\ takers[t] = {} \/ \E k \in takers[t] : takers[t] = {k} /\ k.at < offers[t].until

\* The process that opened a task keeps the task's mandate while it waits.
MandateOK(t) ==
    /\ mandates[t] # NoMandate => mandates[t] = offers[t].mandate
    /\ takers[t] = {} /\ offers[t].until > now /\ offers[t].epoch = epoch
          => mandates[t] = offers[t].mandate
    /\ offers[t].epoch <= epoch

\* The positions of a follow-up whose task was there.
Resuming == {"found", "checked", "taken", "paying"}

\* A task without a mandate of its own, or whose process has ended.
Unmandated(o) == o.mandate = NoMandate \/ o.epoch < epoch

\* A follow-up brings its own mandate past the checks only where none was kept:
\* otherwise the task is gone, or has expired.
CheckedOK(m) ==
    LET t == asked[m].task
    IN  /\ proof[m] \in {NoMandate, asked[m].mandate}
        /\ proof[m] = NoMandate \/ Unmandated(offers[t]) \/ offers[t].until <= now
              \/ takers[t] # {}

\* Between its take and its claim a handler alone disposes of the task's mandate.
TakenOK(m) ==
    LET t == asked[m].task
    IN  /\ \E k \in takers[t] : takers[t] = {k} /\ k.by = m
        /\ proof[m] \in {NoMandate, asked[m].mandate}
        /\ proof[m] = NoMandate \/ Unmandated(offers[t])
        /\ mandates[t] = offers[t].mandate \/ Unmandated(offers[t]) \/ offers[t].until <= now

\* A purchase is paid under its mandate if that is known.
PayingOK(m) ==
    LET o == offers[asked[m].task]
    IN  \/ proof[m] = o.mandate
        \/ Unmandated(o) /\ proof[m] \in {NoMandate, asked[m].mandate}
        \/ o.until <= now /\ proof[m] = NoMandate

HandlerOK(m) ==
    /\ m \in bought => asked[m].task = NoMessage /\ pc[m] # "new"
    /\ pc[m] \in Resuming => asked[m].task \in Message /\ pc[asked[m].task] = "done"
    /\ pc[m] = "checked" => CheckedOK(m)
    /\ pc[m] = "taken" => TakenOK(m)
    /\ pc[m] = "paying" => PayingOK(m)

TaskInv ==
    /\ TypeInv
    /\ \A m \in Message : TaskOK(m) /\ MandateOK(m) /\ HandlerOK(m)

-----------------------------------------------------------------------------
(* Operators.                                                              *)

\* The lesser of two numbers.
LEMMA MinOfTwo ==
    ASSUME NEW a \in Nat, NEW b \in Nat
    PROVE  Min({a, b}) = IF a <= b THEN a ELSE b
  BY DEF Min

\* An expiry is a time.
LEMMA ExpiriesAreTimes ==
    ASSUME now \in Nat
    PROVE  Expiries \subseteq Nat
  <1>1. DefaultTtl \in Nat /\ MaxTtl \in Nat /\ MaxTime \in Nat
    BY A2aConstants
  <1>2. ASSUME NEW at \in Requested
        PROVE  now + Min({IF at > now THEN at - now ELSE 0, MaxTtl}) \in Nat
    <2> DEFINE left == IF at > now THEN at - now ELSE 0
    <2>1. left \in Nat
      BY <1>1 DEF Requested
    <2> HIDE DEF left
    <2>2. Min({left, MaxTtl}) \in Nat
      BY <1>1, <2>1, MinOfTwo
    <2>3. now + Min({left, MaxTtl}) \in Nat
      BY <2>2
    <2> QED BY <2>3 DEF left
  <1>3. ASSUME NEW e \in Expiries
        PROVE  e = now + DefaultTtl \/ \E at \in Requested :
                  e = now + Min({IF at > now THEN at - now ELSE 0, MaxTtl})
    BY <1>3, Zenon DEF Expiries
  <1>4. now + DefaultTtl \in Nat
    BY <1>1
  <1> QED BY <1>2, <1>3, <1>4

\* Sweeping and purging keep what is live.
LEMMA Cleared ==
    ASSUME TaskInv
    PROVE  /\ Swept \in [Message -> Nat] /\ Purged \in [Message -> AnyMandate]
           /\ \A t \in Message :
                 /\ Swept[t] = IF rows[t] > now THEN rows[t] ELSE 0
                 /\ Purged[t] = mandates[t] \/ (Purged[t] = NoMandate /\ offers[t].until <= now)
  <1>1. /\ now \in Nat /\ rows \in [Message -> Nat] /\ mandates \in [Message -> AnyMandate]
        /\ \A t \in Message : offers[t].until \in Nat
    BY DEF TaskInv, TypeInv
  <1>2. Swept \in [Message -> Nat]
        /\ \A t \in Message : Swept[t] = IF rows[t] > now THEN rows[t] ELSE 0
    BY <1>1 DEF Swept, Live
  <1>3. Purged \in [Message -> AnyMandate]
        /\ \A t \in Message :
              Purged[t] = mandates[t] \/ (Purged[t] = NoMandate /\ offers[t].until <= now)
    BY <1>1 DEF Purged, AnyMandate
  <1> QED BY <1>2, <1>3

\* A handler that a step does not move: its task stays opened, a taker stays,
\* and a taken task's mandate is lost only to the clock or to a restart.
LEMMA BystanderKeeps ==
    ASSUME TaskInv, NEW m \in Message,
           pc'[m] = pc[m], proof'[m] = proof[m], asked'[m] = asked[m],
           m \in bought' => m \in bought,
           now' \in Nat, now <= now', epoch' \in Nat, epoch <= epoch',
           \A t \in Message : pc[t] = "done" => pc'[t] = "done" /\ offers'[t] = offers[t],
           \A t \in Message : takers[t] # {} => takers'[t] = takers[t],
           pc[m] = "taken" =>
               \/ mandates'[asked[m].task] = mandates[asked[m].task]
               \/ offers[asked[m].task].until <= now'
               \/ offers[asked[m].task].epoch < epoch'
    PROVE  HandlerOK(m)'
  <1> DEFINE t == asked[m].task
  <1>0. HandlerOK(m)
    BY DEF TaskInv
  <1>1. CASE pc[m] \notin Resuming
    BY <1>0, <1>1 DEF HandlerOK, Resuming
  <1>2. CASE pc[m] \in Resuming
    <2>0. /\ t \in Message /\ pc[t] = "done"
          /\ asked'[m].task = t /\ offers'[t] = offers[t] /\ pc'[t] = "done"
      BY <1>0, <1>2 DEF HandlerOK
    <2>1. /\ now \in Nat /\ epoch \in Nat /\ offers[t].until \in Nat /\ offers[t].epoch \in Nat
      BY <2>0 DEF TaskInv, TypeInv
    <2>2. /\ Unmandated(offers[t]) => Unmandated(offers[t])'
          /\ offers[t].until <= now => offers[t].until <= now'
      BY <2>0, <2>1 DEF Unmandated
    <2>3. pc[m] = "checked" => CheckedOK(m)'
      BY <1>0, <2>0, <2>2 DEF HandlerOK, CheckedOK
    <2>4. pc[m] = "taken" => TakenOK(m)'
      <3>1. offers[t].epoch < epoch' => Unmandated(offers[t])'
        BY <2>0 DEF Unmandated
      <3>2. pc[m] = "taken" => TakenOK(m) /\ takers[t] # {}
        BY <1>0 DEF HandlerOK, TakenOK
      <3>3. pc[m] = "taken" => takers'[t] = takers[t]
        BY <2>0, <3>2
      <3> QED BY <2>0, <2>2, <3>1, <3>2, <3>3 DEF TakenOK
    <2>5. pc[m] = "paying" => PayingOK(m)'
      BY <1>0, <2>0, <2>2 DEF HandlerOK, PayingOK
    <2>6. m \in bought' => asked'[m].task = NoMessage /\ pc'[m] # "new"
      BY <1>0 DEF HandlerOK
    <2> QED BY <2>0, <2>3, <2>4, <2>5, <2>6 DEF HandlerOK
  <1> QED BY <1>1, <1>2

\* A handler that is not, or no longer, resuming a task.
LEMMA OutsideKeeps ==
    ASSUME NEW m \in Message, pc'[m] \notin Resuming,
           m \in bought' => asked'[m].task = NoMessage /\ pc'[m] # "new"
    PROVE  HandlerOK(m)'
  BY DEF HandlerOK, Resuming

-----------------------------------------------------------------------------
(* Steps that leave the tasks alone.                                       *)

\* A handler is at another place, and nothing else changed.
Moves(m, from, to) ==
    /\ m \in Message /\ pc[m] \in from /\ pc' = [pc EXCEPT ![m] = to]
    /\ UNCHANGED <<now, taskVars, asked, proof, history>>

\* An answer ends a handler.
LEMMA AnswerKeeps ==
    ASSUME TaskInv, NEW m, NEW from, Moves(m, from, "done")
    PROVE  TaskInv'
  <1>1. TypeInv'
    BY DEF TaskInv, TypeInv, Moves, taskVars, history
  <1>2. ASSUME NEW t \in Message
        PROVE  TaskOK(t)' /\ MandateOK(t)' /\ HandlerOK(t)'
    <2>1. pc'[t] = pc[t] \/ pc'[t] = "done"
      BY DEF Moves, TaskInv, TypeInv
    <2>2. /\ UNCHANGED <<now, rows, mandates, asked, proof, offers, bought, takers, epoch>>
          /\ TaskOK(t) /\ MandateOK(t) /\ HandlerOK(t)
      BY DEF Moves, taskVars, history, TaskInv
    <2>3. TaskOK(t)'
      BY <2>1, <2>2 DEF TaskOK, Opening
    <2>4. MandateOK(t)'
      BY <2>2 DEF MandateOK
    <2>5. HandlerOK(t)'
      <3>1. CASE pc'[t] = pc[t]
        <4>1. /\ now \in Nat /\ epoch \in Nat
              /\ \A u \in Message : pc[u] = "done" => pc'[u] = "done"
          BY DEF Moves, TaskInv, TypeInv
        <4>2. now <= now' /\ epoch <= epoch'
          BY <2>2, <4>1
        <4> QED BY <2>2, <3>1, <4>1, <4>2, BystanderKeeps
      <3>2. CASE pc'[t] = "done"
        BY <2>2, <3>2, OutsideKeeps DEF HandlerOK, Resuming
      <3> QED BY <2>1, <3>1, <3>2
    <2> QED BY <2>3, <2>4, <2>5
  <1> QED BY <1>1, <1>2 DEF TaskInv

\* A message that ends without opening or taking a task changes nothing else.
LEMMA RefusalKeeps ==
    ASSUME TaskInv, NEW m \in Message,
           \/ RefuseHttp(m) \/ RefuseFrame(m) \/ RefuseMethod(m) \/ RefuseEnvelope(m)
           \/ RefuseSkill(m) \/ HoldFails(m) \/ ResumeFails(m) \/ PaySettled(m) \/ PayFails(m)
    PROVE  TaskInv'
  <1>1. \E from : Moves(m, from, "done")
    <2>1. Moves(m, {pc[m]}, "done")
      BY DEF Moves, RefuseHttp, RefuseFrame, RefuseMethod, RefuseEnvelope, RefuseSkill, HoldFails,
             ResumeFails, PaySettled, PayFails, Pay, Answer, Goto
    <2> QED BY <2>1
  <1> QED BY <1>1, AnswerKeeps

\* The pipeline asks for a payment, or is through.
LEMMA ExecutedKeeps ==
    ASSUME TaskInv, NEW m \in Message, Executed(m)
    PROVE  TaskInv'
  <1>1. CASE Moves(m, {pc[m]}, "done")
    BY <1>1, AnswerKeeps
  <1>2. CASE Moves(m, {"executing"}, "holding")
    <2>0. pc[m] = "executing"
      BY <1>2 DEF Moves
    <2>1. TypeInv'
      BY <1>2 DEF TaskInv, TypeInv, Moves, taskVars, history, Running
    <2>2. ASSUME NEW t \in Message
          PROVE  TaskOK(t)' /\ MandateOK(t)' /\ HandlerOK(t)'
      <3>1. pc'[t] = pc[t] \/ (t = m /\ pc'[t] = "holding")
        BY <1>2 DEF Moves, TaskInv, TypeInv
      <3>2. /\ UNCHANGED <<now, rows, mandates, asked, proof, offers, bought, takers, epoch>>
            /\ TaskOK(t) /\ MandateOK(t) /\ HandlerOK(t)
        BY <1>2 DEF Moves, taskVars, history, TaskInv
      <3>3. TaskOK(t)'
        BY <2>0, <3>1, <3>2 DEF TaskOK, Opening
      <3>4. MandateOK(t)'
        BY <3>2 DEF MandateOK
      <3>5. HandlerOK(t)'
        <4>1. CASE pc'[t] = pc[t]
          <5>1. /\ now \in Nat /\ epoch \in Nat
                /\ \A u \in Message : pc[u] = "done" => pc'[u] = "done"
            BY <1>2 DEF Moves, TaskInv, TypeInv
          <5>2. now <= now' /\ epoch <= epoch'
            BY <3>2, <5>1
          <5> QED BY <3>2, <4>1, <5>1, <5>2, BystanderKeeps
        <4>2. CASE pc'[t] = "holding"
          BY <3>2, <4>2, OutsideKeeps DEF HandlerOK, Resuming
        <4> QED BY <3>1, <4>1, <4>2
      <3> QED BY <3>3, <3>4, <3>5
    <2> QED BY <2>1, <2>2 DEF TaskInv
  <1> QED BY <1>1, <1>2 DEF Executed, Moves, Answer, Goto

\* What a message asks is fixed when it is read.
LEMMA ReceiveKeeps ==
    ASSUME TaskInv, NEW m \in Message, NEW t \in Message \cup {NoMessage}, NEW d \in AnyMandate,
           NEW x \in BOOLEAN, NEW form \in Form, Receive(m, t, d, x, form)
    PROVE  TaskInv'
  <1>0. /\ pc[m] = "new" /\ pc' = [pc EXCEPT ![m] = "read"]
        /\ asked' = [asked EXCEPT ![m] = [task |-> t, mandate |-> d, extension |-> x, form |-> form]]
        /\ UNCHANGED <<now, rows, mandates, proof, offers, bought, takers, epoch>>
    BY DEF Receive, Goto, taskVars, history
  <1>1. TypeInv'
    <2>1. [task |-> t, mandate |-> d, extension |-> x, form |-> form] \in Asked
      BY DEF Asked, AnyMandate
    <2> QED BY <1>0, <2>1 DEF TaskInv, TypeInv, Running
  <1>2. ASSUME NEW u \in Message
        PROVE  TaskOK(u)' /\ MandateOK(u)' /\ HandlerOK(u)'
    <2>1. (pc'[u] = pc[u] /\ asked'[u] = asked[u]) \/ (u = m /\ pc'[u] = "read")
      BY <1>0 DEF TaskInv, TypeInv
    <2>2. TaskOK(u) /\ MandateOK(u) /\ HandlerOK(u)
      BY DEF TaskInv
    <2>3. TaskOK(u)'
      BY <1>0, <2>1, <2>2 DEF TaskOK, Opening
    <2>4. MandateOK(u)'
      BY <1>0, <2>2 DEF MandateOK
    <2>5. HandlerOK(u)'
      <3>1. CASE u # m
        <4>1. /\ now \in Nat /\ epoch \in Nat /\ pc'[u] = pc[u] /\ asked'[u] = asked[u]
              /\ \A v \in Message : pc[v] = "done" => pc'[v] = "done"
              /\ u \in bought' => u \in bought
          BY <1>0, <3>1 DEF TaskInv, TypeInv
        <4>2. now <= now' /\ epoch <= epoch'
          BY <1>0, <4>1
        <4> QED BY <1>0, <4>1, <4>2, BystanderKeeps
      <3>2. CASE u = m
        <4>1. pc'[u] = "read" /\ u \notin bought'
          BY <1>0, <2>2, <3>2 DEF HandlerOK, TaskInv, TypeInv
        <4> QED BY <4>1, OutsideKeeps DEF Resuming
      <3> QED BY <3>1, <3>2
    <2> QED BY <2>3, <2>4, <2>5
  <1> QED BY <1>1, <1>2 DEF TaskInv

\* A purchase enters the pipeline.
LEMMA ExecuteKeeps ==
    ASSUME TaskInv, NEW m \in Message, Execute(m)
    PROVE  TaskInv'
  <1>0. /\ pc[m] = "read" /\ asked[m].task = NoMessage /\ pc' = [pc EXCEPT ![m] = "executing"]
        /\ bought' = bought \cup {m}
        /\ UNCHANGED <<now, rows, mandates, asked, proof, offers, takers, epoch>>
    BY DEF Execute, Goto, taskVars
  <1>1. TypeInv'
    BY <1>0 DEF TaskInv, TypeInv, Running
  <1>2. ASSUME NEW u \in Message
        PROVE  TaskOK(u)' /\ MandateOK(u)' /\ HandlerOK(u)'
    <2>1. (pc'[u] = pc[u] /\ u # m) \/ (u = m /\ pc'[u] = "executing")
      BY <1>0 DEF TaskInv, TypeInv
    <2>2. TaskOK(u) /\ MandateOK(u) /\ HandlerOK(u)
      BY DEF TaskInv
    <2>3. TaskOK(u)'
      BY <1>0, <2>1, <2>2 DEF TaskOK, Opening
    <2>4. MandateOK(u)'
      BY <1>0, <2>2 DEF MandateOK
    <2>5. HandlerOK(u)'
      <3>1. CASE u # m
        <4>1. /\ now \in Nat /\ epoch \in Nat /\ pc'[u] = pc[u] /\ asked'[u] = asked[u]
              /\ \A v \in Message : pc[v] = "done" => pc'[v] = "done"
              /\ u \in bought' => u \in bought
          BY <1>0, <3>1 DEF TaskInv, TypeInv
        <4>2. now <= now' /\ epoch <= epoch'
          BY <1>0, <4>1
        <4> QED BY <1>0, <4>1, <4>2, BystanderKeeps
      <3>2. CASE u = m
        <4>1. pc'[u] = "executing" /\ (u \in bought' => asked'[u].task = NoMessage)
          BY <1>0, <2>1, <2>2, <3>2 DEF HandlerOK
        <4> QED BY <4>1, OutsideKeeps DEF Resuming
      <3> QED BY <3>1, <3>2
    <2> QED BY <2>3, <2>4, <2>5
  <1> QED BY <1>1, <1>2 DEF TaskInv

-----------------------------------------------------------------------------
(* Steps on the tasks.                                                     *)

\* Tasks and mandates may be dropped where they are not live; a handler with no
\* claim on them goes on to an answer.
LEMMA DroppingKeeps ==
    ASSUME TaskInv,
           rows' \in [Message -> Nat], mandates' \in [Message -> AnyMandate],
           \A t \in Message : rows'[t] \in {rows[t], 0},
           \A t \in Message :
               mandates'[t] = mandates[t] \/ (mandates'[t] = NoMandate /\ offers[t].until <= now),
           pc' \in [Message -> Running \cup {"new", "done", "cut"}],
           \A t \in Message : pc'[t] \in {pc[t], "done"},
           UNCHANGED <<now, asked, proof, offers, bought, takers, epoch>>
    PROVE  TaskInv'
  <1>1. TypeInv'
    BY DEF TaskInv, TypeInv
  <1>2. ASSUME NEW t \in Message
        PROVE  TaskOK(t)' /\ MandateOK(t)' /\ HandlerOK(t)'
    <2>1. /\ TaskOK(t) /\ MandateOK(t) /\ HandlerOK(t) /\ rows[t] \in Nat /\ now \in Nat
          /\ epoch \in Nat /\ offers[t].until \in Nat
          /\ rows'[t] \in {rows[t], 0} /\ pc'[t] \in {pc[t], "done"}
      BY DEF TaskInv, TypeInv
    <2>2. TaskOK(t)'
      BY <2>1 DEF TaskOK, Opening
    <2>3. MandateOK(t)'
      BY <2>1 DEF MandateOK
    <2>4. HandlerOK(t)'
      <3>1. CASE pc'[t] = pc[t]
        <4>1. \A u \in Message : pc[u] = "done" => pc'[u] = "done"
          OBVIOUS
        <4>2. now <= now' /\ epoch <= epoch' /\ now' \in Nat /\ epoch' \in Nat
          BY <2>1
        <4>3. pc[t] = "taken" => asked[t].task \in Message
          BY <2>1 DEF HandlerOK, Resuming
        <4>4. pc[t] = "taken" =>
                 \/ mandates'[asked[t].task] = mandates[asked[t].task]
                 \/ offers[asked[t].task].until <= now'
          BY <4>3
        <4> QED BY <3>1, <4>1, <4>2, <4>4, BystanderKeeps
      <3>2. CASE pc'[t] = "done"
        BY <2>1, <3>2, OutsideKeeps DEF HandlerOK, Resuming
      <3> QED BY <2>1, <3>1, <3>2
    <2> QED BY <2>2, <2>3, <2>4
  <1> QED BY <1>1, <1>2 DEF TaskInv

\* A follow-up that finds its task gone.
LEMMA LoseKeeps ==
    ASSUME TaskInv, NEW m \in Message, Lose(m)
    PROVE  TaskInv'
  <1>1. /\ rows' = Swept /\ pc' = [pc EXCEPT ![m] = "done"]
        /\ UNCHANGED <<now, mandates, asked, proof, offers, bought, takers, epoch>>
    BY DEF Lose, FallThrough, Answer, Goto
  <1>2. /\ rows' \in [Message -> Nat]
        /\ \A t \in Message : rows'[t] \in {rows[t], 0}
    BY <1>1, Cleared
  <1>3. /\ pc' \in [Message -> Running \cup {"new", "done", "cut"}]
        /\ \A t \in Message : pc'[t] \in {pc[t], "done"}
        /\ mandates' \in [Message -> AnyMandate]
    BY <1>1 DEF TaskInv, TypeInv
  <1> QED BY <1>1, <1>2, <1>3, DroppingKeeps

\* Opening the database.
LEMMA StartKeeps ==
    ASSUME TaskInv, Start
    PROVE  TaskInv'
  <1>1. /\ rows' = Swept
        /\ UNCHANGED <<pc, now, mandates, asked, proof, offers, bought, takers, epoch>>
    BY DEF Start, history
  <1>2. /\ rows' \in [Message -> Nat]
        /\ \A t \in Message : rows'[t] \in {rows[t], 0}
    BY <1>1, Cleared
  <1>3. /\ pc' \in [Message -> Running \cup {"new", "done", "cut"}]
        /\ \A t \in Message : pc'[t] \in {pc[t], "done"}
        /\ mandates' \in [Message -> AnyMandate]
    BY <1>1 DEF TaskInv, TypeInv
  <1> QED BY <1>1, <1>2, <1>3, DroppingKeeps

\* The checks drop no mandate of a live task, and the follow-up's own mandate
\* gets past them only when none is kept.
LEMMA ChecksKeep ==
    ASSUME TaskInv, NEW m \in Message, pc[m] \in Running, Checks(m),
           asked[m].task \in Message, pc[asked[m].task] = "done",
           UNCHANGED <<now, rows, asked, offers, takers, epoch>>
    PROVE  TaskInv'
  <1> DEFINE t == asked[m].task
  <1>0. /\ mandates' = Purged /\ bought' = bought
        /\ mandates' \in [Message -> AnyMandate]
        /\ rows' \in [Message -> Nat] /\ \A u \in Message : rows'[u] \in {rows[u], 0}
        /\ \A u \in Message :
              mandates'[u] = mandates[u] \/ (mandates'[u] = NoMandate /\ offers[u].until <= now)
    BY Cleared DEF Checks, TaskInv, TypeInv
  <1>1. CASE pc' = [pc EXCEPT ![m] = "done"] /\ proof' = proof
    <2>1. /\ pc' \in [Message -> Running \cup {"new", "done", "cut"}]
          /\ \A u \in Message : pc'[u] \in {pc[u], "done"}
      BY <1>1 DEF TaskInv, TypeInv
    <2> QED BY <1>0, <1>1, <2>1, DroppingKeeps
  <1>2. ASSUME NEW d \in {NoMandate, asked[m].mandate}, d # NoMandate => Purged[t] = NoMandate,
               pc' = [pc EXCEPT ![m] = "checked"], proof' = [proof EXCEPT ![m] = d]
        PROVE  TaskInv'
    <2>1. d \in AnyMandate
      <3>1. asked[m] \in Asked
        BY DEF TaskInv, TypeInv
      <3> QED BY <1>2, <3>1 DEF Asked, AnyMandate
    <2>2. TypeInv'
      BY <1>0, <1>2, <2>1 DEF TaskInv, TypeInv, Running
    <2>3. ASSUME NEW u \in Message
          PROVE  TaskOK(u)' /\ MandateOK(u)' /\ HandlerOK(u)'
      <3>1. /\ TaskOK(u) /\ MandateOK(u) /\ HandlerOK(u) /\ rows[u] \in Nat /\ now \in Nat
            /\ epoch \in Nat /\ offers[u].until \in Nat
        BY DEF TaskInv, TypeInv
      <3>2. \/ u # m /\ pc'[u] = pc[u] /\ proof'[u] = proof[u]
            \/ u = m /\ pc'[u] = "checked" /\ proof'[u] = d
        BY <1>2 DEF TaskInv, TypeInv
      <3>3. TaskOK(u)'
        BY <3>1, <3>2 DEF TaskOK, Opening, Running
      <3>4. MandateOK(u)'
        BY <1>0, <3>1 DEF MandateOK
      <3>5. \A v \in Message : pc[v] = "done" => pc'[v] = "done"
        BY <1>2 DEF TaskInv, TypeInv, Running
      <3>6. CASE u # m
        <4>1. now <= now' /\ epoch <= epoch' /\ now' \in Nat /\ epoch' \in Nat
          BY <3>1
        <4>2. pc[u] = "taken" => asked[u].task \in Message
          BY <3>1 DEF HandlerOK, Resuming
        <4>3. pc[u] = "taken" =>
                 \/ mandates'[asked[u].task] = mandates[asked[u].task]
                 \/ offers[asked[u].task].until <= now'
          BY <1>0, <4>2
        <4>4. HandlerOK(u)'
          BY <1>0, <3>2, <3>5, <3>6, <4>1, <4>3, BystanderKeeps
        <4> QED BY <3>3, <3>4, <4>4
      <3>7. CASE u = m
        <4>1. pc'[u] = "checked" /\ pc'[t] = "done" /\ asked'[u].task = t /\ proof'[u] = d
          BY <3>2, <3>5, <3>7
        <4>2. /\ MandateOK(t) /\ offers[t].epoch \in Nat /\ offers[t].until \in Nat
          BY DEF TaskInv, TypeInv
        <4>3. d = NoMandate \/ Unmandated(offers[t]) \/ offers[t].until <= now \/ takers[t] # {}
          <5>1. d # NoMandate => mandates[t] = NoMandate \/ offers[t].until <= now
            BY <1>0, <1>2
          <5> QED BY <3>1, <4>2, <5>1 DEF MandateOK, Unmandated
        <4>4. CheckedOK(u)'
          BY <1>2, <3>7, <4>1, <4>3 DEF CheckedOK, Unmandated
        <4>5. u \in bought' => asked'[u].task = NoMessage
          BY <1>0, <3>1 DEF HandlerOK
        <4>6. HandlerOK(u)'
          BY <4>1, <4>4, <4>5 DEF HandlerOK
        <4> QED BY <3>3, <3>4, <4>6
      <3> QED BY <3>6, <3>7
    <2> QED BY <2>2, <2>3 DEF TaskInv
  <1>3. CASE Answer(m, "invalid-params") /\ proof' = proof
    BY <1>1, <1>3 DEF Answer, Goto
  <1>4. CASE /\ Goto(m, "checked")
             /\ proof' = [proof EXCEPT ![m] = IF Purged[t] = NoMandate /\ asked[m].form = "ok"
                                              THEN asked[m].mandate ELSE NoMandate]
    BY <1>2, <1>4 DEF Goto
  <1> QED BY <1>3, <1>4 DEF Checks

\* A message names its task.
LEMMA TaskOfMessage ==
    ASSUME TaskInv, NEW m \in Message, asked[m].task # NoMessage
    PROVE  asked[m].task \in Message
  <1>1. asked[m] \in Asked
    BY DEF TaskInv, TypeInv
  <1> QED BY <1>1 DEF Asked

\* A lookup drops nothing that is live.
LEMMA LookUpKeeps ==
    ASSUME TaskInv, NEW m \in Message, LookUp(m)
    PROVE  TaskInv'
  <1> DEFINE t == asked[m].task
  <1>0. /\ pc[m] = "read" /\ t \in Message
        /\ rows' = (IF durable \/ Live(t) THEN rows ELSE [rows EXCEPT ![t] = 0])
        /\ UNCHANGED <<now, asked, offers, takers, epoch>>
    BY TaskOfMessage DEF LookUp
  <1>1. /\ rows' \in [Message -> Nat]
        /\ \A u \in Message : rows'[u] \in {rows[u], 0}
        /\ now \in Nat /\ epoch \in Nat /\ rows[t] \in Nat
    BY <1>0 DEF TaskInv, TypeInv
  <1>2. Live(t) => rows' = rows /\ pc[t] = "done"
    <2>1. Live(t) => rows[t] > 0
      BY <1>1 DEF Live
    <2> QED BY <1>0, <2>1 DEF TaskInv, TaskOK
  <1>3. CASE pc' = [pc EXCEPT ![m] = "done"] /\ UNCHANGED <<mandates, proof, bought>>
    <2>1. /\ pc' \in [Message -> Running \cup {"new", "done", "cut"}]
          /\ \A u \in Message : pc'[u] \in {pc[u], "done"}
          /\ mandates' \in [Message -> AnyMandate]
      BY <1>3 DEF TaskInv, TypeInv
    <2> QED BY <1>0, <1>1, <1>3, <2>1, DroppingKeeps
  <1>4. CASE Live(t) /\ pc' = [pc EXCEPT ![m] = "found"] /\ UNCHANGED <<mandates, proof, bought>>
    <2>1. TypeInv'
      BY <1>0, <1>1, <1>4 DEF TaskInv, TypeInv, Running
    <2>2. ASSUME NEW u \in Message
          PROVE  TaskOK(u)' /\ MandateOK(u)' /\ HandlerOK(u)'
      <3>1. TaskOK(u) /\ MandateOK(u) /\ HandlerOK(u)
        BY DEF TaskInv
      <3>2. \/ u # m /\ pc'[u] = pc[u]
            \/ u = m /\ pc'[u] = "found"
        BY <1>4 DEF TaskInv, TypeInv
      <3>3. TaskOK(u)'
        BY <1>0, <1>2, <1>4, <3>1, <3>2 DEF TaskOK, Opening
      <3>4. MandateOK(u)'
        BY <1>0, <1>4, <3>1 DEF MandateOK
      <3>5. \A v \in Message : pc[v] = "done" => pc'[v] = "done"
        BY <1>0, <1>4 DEF TaskInv, TypeInv
      <3>6. CASE u # m
        <4>1. now <= now' /\ epoch <= epoch' /\ now' \in Nat /\ epoch' \in Nat
          BY <1>0, <1>1
        <4>2. HandlerOK(u)'
          BY <1>0, <1>4, <3>2, <3>5, <3>6, <4>1, BystanderKeeps
        <4> QED BY <3>3, <3>4, <4>2
      <3>7. CASE u = m
        <4>1. pc'[t] = "done"
          BY <1>0, <1>2, <1>4, <3>5
        <4>2. HandlerOK(u)'
          BY <1>0, <1>4, <3>1, <3>2, <3>7, <4>1 DEF HandlerOK
        <4> QED BY <3>3, <3>4, <4>2
      <3> QED BY <3>6, <3>7
    <2> QED BY <2>1, <2>2 DEF TaskInv
  <1>5. CASE Live(t) /\ Checks(m)
    <2>1. pc[m] \in Running /\ rows' = rows /\ pc[t] = "done"
      BY <1>0, <1>2, <1>5 DEF Running
    <2> QED BY <1>0, <1>5, <2>1, ChecksKeep
  <1> QED BY <1>3, <1>4, <1>5 DEF LookUp, FallThrough, Answer, Goto

\* The database has answered a lookup.
LEMMA FoundKeeps ==
    ASSUME TaskInv, NEW m \in Message, Found(m)
    PROVE  TaskInv'
  <1>1. /\ pc[m] = "found" /\ Checks(m) /\ UNCHANGED <<now, rows, asked, offers, takers, epoch>>
    BY DEF Found
  <1>2. pc[m] \in Running /\ asked[m].task \in Message /\ pc[asked[m].task] = "done"
    BY <1>1 DEF Running, Resuming, TaskInv, HandlerOK
  <1> QED BY <1>1, <1>2, ChecksKeep

\* A task that one handler holds: its row is gone and its mandate is at most
\* what it was.
LEMMA HoldingKeeps ==
    ASSUME TaskInv, NEW m \in Message, NEW t \in Message, t = asked[m].task,
           pc[m] \in {"checked", "taken"},
           NEW k \in [by : Message, at : Nat], k.by = m, k.at < offers[t].until,
           takers[t] \in {{}, {k}}, takers' = [takers EXCEPT ![t] = {k}],
           rows' \in [Message -> Nat], rows'[t] = 0,
           \A u \in Message : rows'[u] \in {rows[u], 0},
           mandates' \in [Message -> AnyMandate], mandates'[t] \in {mandates[t], NoMandate},
           \A u \in Message \ {t} :
               mandates'[u] = mandates[u] \/ (mandates'[u] = NoMandate /\ offers[u].until <= now),
           proof' \in [Message -> AnyMandate], \A u \in Message \ {m} : proof'[u] = proof[u],
           NEW to \in {"taken", "done", "paying"}, pc' = [pc EXCEPT ![m] = to],
           to = "taken" => TakenOK(m)', to = "paying" => PayingOK(m)',
           UNCHANGED <<now, asked, offers, bought, epoch>>
    PROVE  TaskInv'
  <1>1. TypeInv'
    BY DEF TaskInv, TypeInv, Running
  <1>2. ASSUME NEW u \in Message
        PROVE  TaskOK(u)' /\ MandateOK(u)' /\ HandlerOK(u)'
    <2>1. /\ TaskOK(u) /\ MandateOK(u) /\ HandlerOK(u) /\ HandlerOK(m)
          /\ rows[u] \in Nat /\ now \in Nat /\ epoch \in Nat /\ offers[u].until \in Nat
      BY DEF TaskInv, TypeInv
    <2>2. /\ u # t => takers'[u] = takers[u]
          /\ takers'[t] = {k}
          /\ u # m => pc'[u] = pc[u]
          /\ pc'[m] = to
          /\ \A v \in Message : pc[v] = "done" => pc'[v] = "done"
      BY DEF TaskInv, TypeInv
    <2>3. pc[t] = "done" /\ pc'[t] = "done"
      BY <2>1, <2>2 DEF HandlerOK, Resuming
    <2>4. TaskOK(u)'
      <3>1. CASE u = t
        BY <2>2, <2>3, <3>1 DEF TaskOK, Opening
      <3>2. CASE u # t
        <4>1. pc'[u] \in Opening => pc[u] \in Opening
          BY <2>2 DEF Opening
        <4> QED BY <2>1, <2>2, <3>2, <4>1 DEF TaskOK
      <3> QED BY <3>1, <3>2
    <2>5. MandateOK(u)'
      <3>1. CASE u = t
        BY <2>1, <2>2, <3>1 DEF MandateOK
      <3>2. CASE u # t
        BY <2>1, <2>2, <3>2 DEF MandateOK
      <3> QED BY <3>1, <3>2
    <2>6. CASE u # m
      <3>1. now <= now' /\ epoch <= epoch' /\ now' \in Nat /\ epoch' \in Nat
        BY <2>1
      <3>2. pc[u] = "taken" => asked[u].task \in Message /\ asked[u].task # t
        <4>1. pc[u] = "taken" => asked[u].task \in Message /\ TakenOK(u)
          BY <2>1 DEF HandlerOK, Resuming
        <4> QED BY <2>6, <4>1 DEF TakenOK
      <3>3. pc[u] = "taken" =>
               \/ mandates'[asked[u].task] = mandates[asked[u].task]
               \/ offers[asked[u].task].until <= now'
        BY <3>2
      <3>4. \A v \in Message : takers[v] # {} => takers'[v] = takers[v]
        BY DEF TaskInv, TypeInv
      <3>5. HandlerOK(u)'
        BY <2>2, <2>6, <3>1, <3>3, <3>4, BystanderKeeps
      <3> QED BY <2>4, <2>5, <3>5
    <2>7. CASE u = m
      <3>1. HandlerOK(u)'
        BY <2>1, <2>2, <2>3, <2>7 DEF HandlerOK
      <3> QED BY <2>4, <2>5, <3>1
    <2> QED BY <2>6, <2>7
  <1> QED BY <1>1, <1>2 DEF TaskInv

\* A handler goes on with the task and its mandate.
LEMMA ResumeKeeps ==
    ASSUME TaskInv, NEW m \in Message, NEW t \in Message, t = asked[m].task,
           pc[m] \in {"checked", "taken"}, Resume(m, t, Purged[t]),
           NEW k \in [by : Message, at : Nat], k.by = m, k.at < offers[t].until,
           takers[t] \in {{}, {k}}, takers' = [takers EXCEPT ![t] = {k}],
           rows' \in [Message -> Nat], rows'[t] = 0,
           \A u \in Message : rows'[u] \in {rows[u], 0},
           proof[m] \in {NoMandate, asked[m].mandate},
           proof[m] = NoMandate \/ Unmandated(offers[t]),
           mandates[t] = offers[t].mandate \/ Unmandated(offers[t]) \/ offers[t].until <= now,
           UNCHANGED <<now, asked, offers, bought, epoch>>
    PROVE  TaskInv'
  <1>1. /\ mandates' = [Purged EXCEPT ![t] = NoMandate]
        /\ proof[m] \in AnyMandate /\ proof \in [Message -> AnyMandate] /\ Purged[t] \in AnyMandate
        /\ NoMandate \in AnyMandate
    BY Cleared DEF Resume, TaskInv, TypeInv, AnyMandate
  <1>2. /\ mandates' \in [Message -> AnyMandate] /\ mandates'[t] \in {mandates[t], NoMandate}
        /\ \A u \in Message \ {t} :
              mandates'[u] = mandates[u] \/ (mandates'[u] = NoMandate /\ offers[u].until <= now)
    BY <1>1, Cleared
  <1>3. CASE pc' = [pc EXCEPT ![m] = "done"] /\ proof' = proof
    <2>1. proof' \in [Message -> AnyMandate] /\ \A u \in Message \ {m} : proof'[u] = proof[u]
      BY <1>1, <1>3
    <2> QED BY <1>2, <1>3, <2>1, HoldingKeeps
  <1>4. CASE /\ pc' = [pc EXCEPT ![m] = "paying"]
             /\ proof' = [proof EXCEPT ![m] = IF Purged[t] # NoMandate THEN Purged[t] ELSE proof[m]]
    <2>1. /\ proof' \in [Message -> AnyMandate] /\ \A u \in Message \ {m} : proof'[u] = proof[u]
          /\ proof'[m] = IF Purged[t] # NoMandate THEN Purged[t] ELSE proof[m]
      BY <1>1, <1>4
    <2>2. MandateOK(t)
      BY DEF TaskInv
    <2>3. /\ Purged[t] # NoMandate => Purged[t] = offers[t].mandate
          /\ Purged[t] = NoMandate =>
                \/ Unmandated(offers[t])
                \/ proof[m] = NoMandate /\ offers[t].until <= now
      BY <2>2, Cleared DEF MandateOK, Unmandated
    <2>4. PayingOK(m)'
      BY <2>1, <2>3 DEF PayingOK, Unmandated
    <2> QED BY <1>2, <1>4, <2>1, <2>4, HoldingKeeps
  <1> QED BY <1>3, <1>4 DEF Resume, Answer, Goto

\* The task goes to one handler.
LEMMA TakeKeeps ==
    ASSUME TaskInv, NEW m \in Message, Take(m)
    PROVE  TaskInv'
  <1> DEFINE t == asked[m].task
             k == [by |-> m, at |-> now]
  <1>0. /\ pc[m] = "checked" /\ rows[t] > now /\ t \in Message /\ now \in Nat
        /\ rows[t] \in Nat /\ offers[t].epoch \in Nat /\ epoch \in Nat /\ offers[t].until \in Nat
    BY DEF Take, Live, TaskInv, TypeInv, HandlerOK, Resuming
  <1>1. /\ rows' = [Swept EXCEPT ![t] = 0]
        /\ takers' = [takers EXCEPT ![t] = takers[t] \cup {k}]
        /\ UNCHANGED <<now, asked, offers, bought, epoch>>
    BY DEF Take, TakeRow
  <1>2. takers[t] = {} /\ rows[t] = offers[t].until /\ offers[t].until > now
    BY <1>0 DEF TaskInv, TaskOK
  <1>3. takers' = [takers EXCEPT ![t] = {k}]
    BY <1>1, <1>2
  <1>4. k \in [by : Message, at : Nat] /\ k.by = m /\ k.at < offers[t].until
    BY <1>0, <1>2
  <1>5. /\ rows' \in [Message -> Nat] /\ rows'[t] = 0
        /\ \A u \in Message : rows'[u] \in {rows[u], 0}
    BY <1>0, <1>1, Cleared
  <1>6. /\ proof[m] \in {NoMandate, asked[m].mandate}
        /\ proof[m] = NoMandate \/ Unmandated(offers[t])
        /\ mandates[t] = offers[t].mandate \/ Unmandated(offers[t])
    <2>1. CheckedOK(m) /\ MandateOK(t)
      BY <1>0 DEF TaskInv, HandlerOK
    <2>2. ~(offers[t].until <= now)
      BY <1>0, <1>2
    <2>3. offers[t].epoch = epoch \/ offers[t].epoch < epoch
      BY <1>0, <2>1 DEF MandateOK
    <2> QED BY <1>2, <2>1, <2>2, <2>3 DEF CheckedOK, MandateOK, Unmandated
  <1> HIDE DEF k
  <1>7. CASE pc' = [pc EXCEPT ![m] = "taken"] /\ UNCHANGED <<mandates, proof>>
    <2>1. /\ mandates' \in [Message -> AnyMandate] /\ proof' \in [Message -> AnyMandate]
          /\ takers'[t] = {k}
      BY <1>0, <1>3, <1>7 DEF TaskInv, TypeInv
    <2>2. TakenOK(m)'
      BY <1>1, <1>4, <1>6, <1>7, <2>1 DEF TakenOK, Unmandated
    <2> QED BY <1>0, <1>1, <1>2, <1>3, <1>4, <1>5, <1>7, <2>1, <2>2, HoldingKeeps
  <1>8. CASE Resume(m, t, Purged[t])
    BY <1>0, <1>1, <1>2, <1>3, <1>4, <1>5, <1>6, <1>8, ResumeKeeps
  <1> QED BY <1>7, <1>8 DEF Take, TakeRow, Goto

\* The database has answered a take.
LEMMA ClaimKeeps ==
    ASSUME TaskInv, NEW m \in Message, Claim(m)
    PROVE  TaskInv'
  <1> DEFINE t == asked[m].task
  <1>1. /\ pc[m] = "taken" /\ Resume(m, t, Purged[t])
        /\ UNCHANGED <<now, rows, asked, offers, bought, takers, epoch>>
    BY DEF Claim
  <1>2. t \in Message /\ TakenOK(m)
    BY <1>1 DEF TaskInv, HandlerOK, Resuming
  <1>3. /\ takers \in [Message -> SUBSET [by : Message, at : Nat]] /\ rows \in [Message -> Nat]
        /\ TaskOK(t)
    BY <1>2 DEF TaskInv, TypeInv
  <1>4. PICK k \in takers[t] : takers[t] = {k} /\ k.by = m
    BY <1>2 DEF TakenOK
  <1>5. k \in [by : Message, at : Nat] /\ k.at < offers[t].until
    BY <1>2, <1>3, <1>4 DEF TaskOK
  <1>6. takers' = [takers EXCEPT ![t] = {k}]
    BY <1>1, <1>2, <1>3, <1>4
  <1>7. /\ rows' \in [Message -> Nat] /\ rows'[t] = 0
        /\ \A u \in Message : rows'[u] \in {rows[u], 0}
    BY <1>1, <1>2, <1>3, <1>4 DEF TaskOK
  <1>8. /\ proof[m] \in {NoMandate, asked[m].mandate}
        /\ proof[m] = NoMandate \/ Unmandated(offers[t])
        /\ mandates[t] = offers[t].mandate \/ Unmandated(offers[t]) \/ offers[t].until <= now
    BY <1>2 DEF TakenOK
  <1> HIDE DEF t
  <1> QED BY <1>1, <1>2, <1>4, <1>5, <1>6, <1>7, <1>8, ResumeKeeps DEF t

\* A purchase becomes a task; the store was full; or the adapter has stopped.
LEMMA HoldKeeps ==
    ASSUME TaskInv, NEW m \in Message, Hold(m)
    PROVE  TaskInv'
  <1>0. /\ pc[m] = "holding" /\ pc' = [pc EXCEPT ![m] = "done"]
        /\ UNCHANGED <<now, asked, proof, bought, takers, epoch>>
    BY DEF Hold, Answer, Goto
  <1>1. /\ pc' \in [Message -> Running \cup {"new", "done", "cut"}]
        /\ \A u \in Message : pc'[u] \in {pc[u], "done"}
        /\ pc'[m] = "done" /\ now \in Nat /\ \A u \in Message : rows[u] \in Nat
    BY <1>0 DEF TaskInv, TypeInv
  <1>2. CASE UNCHANGED <<rows, mandates, offers>>
    <2>1. Moves(m, {"holding"}, "done")
      BY <1>0, <1>2 DEF Moves, taskVars, history
    <2> QED BY <2>1, AnswerKeeps
  <1>3. CASE rows' = Swept /\ mandates' = Purged /\ UNCHANGED offers
    <2>1. /\ rows' \in [Message -> Nat] /\ mandates' \in [Message -> AnyMandate]
          /\ \A u \in Message : rows'[u] \in {rows[u], 0}
          /\ \A u \in Message :
                mandates'[u] = mandates[u] \/ (mandates'[u] = NoMandate /\ offers[u].until <= now)
      BY <1>1, <1>3, Cleared
    <2> QED BY <1>0, <1>1, <1>3, <2>1, DroppingKeeps
  <1>4. ASSUME NEW expiry \in Nat, rows' = [Swept EXCEPT ![m] = expiry], mandates' = MandatesWith(m),
               offers' = [offers EXCEPT ![m] = [until |-> expiry, mandate |-> asked[m].mandate,
                                                epoch |-> epoch]]
        PROVE  TaskInv'
    <2> DEFINE o == [until |-> expiry, mandate |-> asked[m].mandate, epoch |-> epoch]
    <2>0. asked[m].mandate \in AnyMandate /\ epoch \in Nat
      <3>1. asked[m] \in Asked /\ epoch \in Nat
        BY DEF TaskInv, TypeInv
      <3> QED BY <3>1 DEF Asked, AnyMandate
    <2>1. o \in [until : Nat, mandate : AnyMandate, epoch : Nat] /\ o.until = expiry
          /\ o.mandate = asked[m].mandate /\ o.epoch = epoch
      BY <2>0
    <2>2. offers' = [offers EXCEPT ![m] = o]
      BY <1>4
    <2> HIDE DEF o
    <2>3. mandates' = [Purged EXCEPT ![m] = asked[m].mandate]
      BY <1>4 DEF MandatesWith
    <2>4. TypeInv'
      BY <1>0, <1>1, <1>4, <2>0, <2>1, <2>2, <2>3, Cleared DEF TaskInv, TypeInv
    <2>5. ASSUME NEW u \in Message
          PROVE  TaskOK(u)' /\ MandateOK(u)' /\ HandlerOK(u)'
      <3>1. /\ TaskOK(u) /\ MandateOK(u) /\ HandlerOK(u) /\ rows[u] \in Nat /\ takers[m] = {}
            /\ offers[u].until \in Nat
        BY <1>0 DEF TaskInv, TypeInv, TaskOK, Opening
      <3>2. /\ u = m => offers'[u] = o /\ rows'[u] = expiry /\ mandates'[u] = asked[m].mandate
            /\ u # m => /\ offers'[u] = offers[u] /\ rows'[u] \in {rows[u], 0} /\ pc'[u] = pc[u]
                        /\ \/ mandates'[u] = mandates[u]
                           \/ mandates'[u] = NoMandate /\ offers[u].until <= now
        <4>1. /\ u = m => offers'[u] = o /\ rows'[u] = expiry /\ mandates'[u] = asked[m].mandate
              /\ u # m => /\ offers'[u] = offers[u] /\ rows'[u] = Swept[u]
                          /\ mandates'[u] = Purged[u] /\ pc'[u] = pc[u]
          BY <1>0, <1>4, <2>2, <2>3, Cleared DEF TaskInv, TypeInv
        <4> QED BY <1>1, <4>1, Cleared
      <3>3. TaskOK(u)'
        BY <1>0, <1>1, <2>1, <3>1, <3>2 DEF TaskOK, Opening
      <3>4. MandateOK(u)'
        <4>1. CASE u = m
          BY <1>0, <2>0, <2>1, <3>2, <4>1 DEF MandateOK
        <4>2. CASE u # m
          BY <1>0, <1>1, <3>1, <3>2, <4>2 DEF MandateOK
        <4> QED BY <4>1, <4>2
      <3>5. HandlerOK(u)'
        <4>1. CASE u # m
          <5>1. now <= now' /\ epoch <= epoch' /\ now' \in Nat /\ epoch' \in Nat
            BY <1>0, <1>1, <2>0
          <5>2. /\ \A v \in Message : pc[v] = "done" => pc'[v] = "done" /\ offers'[v] = offers[v]
            BY <1>0, <2>2 DEF TaskInv, TypeInv
          <5>3. pc[u] = "taken" => asked[u].task \in Message \ {m}
            BY <1>0, <3>1 DEF HandlerOK, Resuming
          <5>4. \A v \in Message \ {m} :
                   mandates'[v] = mandates[v] \/ offers[v].until <= now
            BY <1>0, <2>3, Cleared
          <5>5. pc[u] = "taken" =>
                   \/ mandates'[asked[u].task] = mandates[asked[u].task]
                   \/ offers[asked[u].task].until <= now'
            BY <1>0, <5>3, <5>4
          <5> QED BY <1>0, <3>2, <4>1, <5>1, <5>2, <5>5, BystanderKeeps
        <4>2. CASE u = m
          BY <1>0, <1>1, <3>1, <4>2, OutsideKeeps DEF HandlerOK, Resuming
        <4> QED BY <4>1, <4>2
      <3> QED BY <3>3, <3>4, <3>5
    <2> QED BY <2>4, <2>5 DEF TaskInv
  <1>5. \/ UNCHANGED <<rows, mandates, offers>>
        \/ rows' = Swept /\ mandates' = Purged /\ UNCHANGED offers
        \/ \E expiry \in Expiries :
              /\ rows' = [Swept EXCEPT ![m] = expiry] /\ mandates' = MandatesWith(m)
              /\ offers' = [offers EXCEPT ![m] = [until |-> expiry, mandate |-> asked[m].mandate,
                                                  epoch |-> epoch]]
    BY DEF Hold, Put, taskVars
  <1> QED BY <1>1, <1>2, <1>3, <1>4, <1>5, ExpiriesAreTimes

-----------------------------------------------------------------------------
(* The clock and the process.                                              *)

\* Time passes.
LEMMA TickKeeps ==
    ASSUME TaskInv, Tick
    PROVE  TaskInv'
  <1>1. /\ now' = now + 1 /\ now \in Nat
        /\ UNCHANGED <<rows, mandates, asked, pc, proof, offers, bought, takers, epoch>>
    BY DEF Tick, taskVars, history, TaskInv, TypeInv
  <1>2. TypeInv'
    BY <1>1 DEF TaskInv, TypeInv
  <1>3. ASSUME NEW t \in Message
        PROVE  TaskOK(t)' /\ MandateOK(t)' /\ HandlerOK(t)'
    <2>1. /\ TaskOK(t) /\ MandateOK(t) /\ HandlerOK(t) /\ offers[t].until \in Nat
          /\ epoch \in Nat
      BY DEF TaskInv, TypeInv
    <2>2. offers[t].until > now' => offers[t].until > now
      BY <1>1, <2>1
    <2>3. TaskOK(t)'
      BY <1>1, <2>1 DEF TaskOK
    <2>4. MandateOK(t)'
      BY <1>1, <2>1, <2>2 DEF MandateOK
    <2>5. HandlerOK(t)'
      <3>1. now <= now' /\ epoch <= epoch' /\ now' \in Nat /\ epoch' \in Nat
        BY <1>1, <2>1
      <3> QED BY <1>1, <3>1, BystanderKeeps
    <2> QED BY <2>3, <2>4, <2>5
  <1> QED BY <1>2, <1>3 DEF TaskInv

\* A stop or a crash forgets the mandates, and a durable store keeps the tasks.
LEMMA ForgetKeeps ==
    ASSUME TaskInv, Stop \/ Crash
    PROVE  TaskInv'
  <1>1. /\ rows' = (IF durable THEN rows ELSE [t \in Message |-> 0])
        /\ mandates' = [t \in Message |-> NoMandate] /\ epoch' = epoch + 1
        /\ UNCHANGED <<now, asked, proof, offers, bought, takers>>
    BY DEF Stop, Crash, Forget
  <1>2. /\ pc' \in [Message -> Running \cup {"new", "done", "cut"}]
        /\ \A t \in Message : pc'[t] = pc[t] \/ (pc[t] \in Running /\ pc'[t] = "cut")
    BY DEF Stop, Crash, TaskInv, TypeInv
  <1>3. TypeInv'
    BY <1>1, <1>2 DEF TaskInv, TypeInv, AnyMandate
  <1>4. ASSUME NEW t \in Message
        PROVE  TaskOK(t)' /\ MandateOK(t)' /\ HandlerOK(t)'
    <2>1. /\ TaskOK(t) /\ MandateOK(t) /\ HandlerOK(t) /\ rows'[t] \in {rows[t], 0}
          /\ mandates'[t] = NoMandate /\ epoch \in Nat
          /\ \A u \in Message : offers[u].epoch \in Nat
      BY <1>1 DEF TaskInv, TypeInv
    <2>2. TaskOK(t)'
      BY <1>1, <1>2, <2>1 DEF TaskOK, Opening, Running
    <2>3. MandateOK(t)'
      <3>1. offers[t].epoch < epoch + 1
        BY <2>1 DEF MandateOK
      <3> QED BY <1>1, <2>1, <3>1 DEF MandateOK
    <2>4. HandlerOK(t)'
      <3>1. CASE pc'[t] = pc[t]
        <4>1. /\ now \in Nat /\ now <= now' /\ epoch <= epoch' /\ now' \in Nat /\ epoch' \in Nat
              /\ \A u \in Message : offers[u].epoch < epoch'
          BY <1>1, <2>1 DEF TaskInv, TypeInv, MandateOK
        <4>2. \A u \in Message : pc[u] = "done" => pc'[u] = "done"
          BY <1>2 DEF Running
        <4>3. pc[t] = "taken" => asked[t].task \in Message
          BY <2>1 DEF HandlerOK, Resuming
        <4> QED BY <1>1, <3>1, <4>1, <4>2, <4>3, BystanderKeeps
      <3>2. CASE pc'[t] = "cut"
        BY <1>1, <2>1, <3>2, OutsideKeeps DEF HandlerOK, Resuming
      <3> QED BY <1>2, <3>1, <3>2
    <2> QED BY <2>2, <2>3, <2>4
  <1> QED BY <1>3, <1>4 DEF TaskInv

-----------------------------------------------------------------------------
(* The specification.                                                      *)

\* No message and no task at first.
LEMMA TasksStart ==
    ASSUME Init
    PROVE  TaskInv
  <1>1. TypeInv
    BY DEF Init, TypeInv, NotAsked, Asked, AnyMandate
  <1>2. ASSUME NEW t \in Message
        PROVE  TaskOK(t) /\ MandateOK(t) /\ HandlerOK(t)
    BY DEF Init, TaskOK, MandateOK, HandlerOK, Resuming
  <1> QED BY <1>1, <1>2 DEF TaskInv

\* Every step keeps the invariant.
LEMMA TaskSteps ==
    ASSUME TaskInv, [Next]_vars
    PROVE  TaskInv'
  <1>1. ASSUME NEW m \in Message, NEW t \in Message \cup {NoMessage}, NEW d \in AnyMandate,
               NEW x \in BOOLEAN, NEW form \in Form, Receive(m, t, d, x, form)
        PROVE  TaskInv'
    BY <1>1, ReceiveKeeps
  <1>2. ASSUME NEW m \in Message,
               \/ RefuseHttp(m) \/ RefuseFrame(m) \/ RefuseMethod(m)
               \/ HoldFails(m) \/ ResumeFails(m)
        PROVE  TaskInv'
    BY <1>2, RefusalKeeps
  <1>3. ASSUME NEW m \in Message, Handle(m)
        PROVE  TaskInv'
    BY <1>3, RefusalKeeps, ExecuteKeeps, ExecutedKeeps, HoldKeeps, LookUpKeeps, FoundKeeps,
       TakeKeeps, ClaimKeeps, LoseKeeps
       DEF Handle
  <1>4. CASE Tick
    BY <1>4, TickKeeps
  <1>5. CASE Stop \/ Crash
    BY <1>5, ForgetKeeps
  <1>6. CASE Start
    BY <1>6, StartKeeps
  <1>7. CASE UNCHANGED vars
    <2>1. TypeInv'
      BY <1>7 DEF vars, TaskInv, TypeInv
    <2>2. \A t \in Message : TaskOK(t)' /\ MandateOK(t)' /\ HandlerOK(t)'
      BY <1>7 DEF vars, TaskInv, TaskOK, MandateOK, HandlerOK, CheckedOK, TakenOK, PayingOK,
           Unmandated, Resuming
    <2> QED BY <2>1, <2>2 DEF TaskInv
  <1> QED BY <1>1, <1>2, <1>3, <1>4, <1>5, <1>6, <1>7 DEF Next, AnyMandate

\* The invariant holds of every behaviour.
LEMMA TasksAreKept == Spec => []TaskInv
  BY TasksStart, TaskSteps, PTL DEF Spec

\* However many follow-ups race, repeat or arrive after a restart, and whatever
\* the stores' size and the expiries, one at most gets past resumePayment's
\* take, and only before the task expired.
THEOREM OneTakerTheorem == Spec => []OnePaymentPerTask
  <1>1. TaskInv => OnePaymentPerTask
    <2> SUFFICES ASSUME TaskInv, NEW t \in Message
                 PROVE  Cardinality(takers[t]) <= 1 /\ \A k \in takers[t] : k.at < offers[t].until
      BY DEF OnePaymentPerTask
    <2>1. CASE takers[t] = {}
      BY <2>1, FS_EmptySet
    <2>2. ASSUME NEW k, takers[t] = {k}, k.at < offers[t].until
          PROVE  Cardinality(takers[t]) <= 1 /\ \A j \in takers[t] : j.at < offers[t].until
      <3>1. Cardinality({k}) = 1
        BY FS_Singleton
      <3>2. Cardinality(takers[t]) <= 1
        BY <2>2, <3>1
      <3> QED BY <2>2, <3>2
    <2> QED BY <2>1, <2>2 DEF TaskInv, TaskOK
  <1> QED BY <1>1, TasksAreKept, PTL

\* No message on a task starts a purchase of its own, whatever became of the
\* task between its lookup and its take (assertNoContinuation).
THEOREM ContinuationTheorem == Spec => []ContinuationBuysNothingNew
  <1>1. TaskInv => ContinuationBuysNothingNew
    BY DEF TaskInv, TypeInv, HandlerOK, ContinuationBuysNothingNew
  <1> QED BY <1>1, TasksAreKept, PTL

\* A waiting purchase is executed under the mandate it was opened with, as long
\* as the process that kept it runs; a follow-up's own mandate never replaces
\* it, not even when the kept one expires between the take of the row and the
\* reading of the mandates.
THEOREM MandateTheorem == Spec => []MandateIsThePurchases
  <1>1. TaskInv => MandateIsThePurchases
    BY DEF TaskInv, HandlerOK, PayingOK, Unmandated, MandateIsThePurchases
  <1> QED BY <1>1, TasksAreKept, PTL

\* Sweeping, another purchase's put, a lookup and a refusal leave a live task in
\* the store, full or not; only the take of a follow-up that passed every check,
\* or the end of a process that kept it in memory, removes it.
THEOREM LiveTaskTheorem == Spec => LiveTaskIsKept
  <1> DEFINE Kept ==
        \A t \in Message :
            Live(t) /\ rows'[t] # rows[t]
                => \/ takers'[t] # takers[t]
                   \/ ~durable /\ epoch' # epoch
  <1>1. TaskInv /\ [Next]_vars => [Kept]_vars
    <2> SUFFICES ASSUME TaskInv, Next PROVE Kept
      OBVIOUS
    <2> SUFFICES ASSUME NEW t \in Message, Live(t), rows'[t] # rows[t]
                 PROVE  takers'[t] # takers[t] \/ (~durable /\ epoch' # epoch)
      OBVIOUS
    <2>0. /\ rows[t] > now /\ Swept[t] = rows[t] /\ Swept \in [Message -> Nat]
          /\ rows \in [Message -> Nat] /\ now \in Nat
          /\ takers \in [Message -> SUBSET [by : Message, at : Nat]] /\ epoch \in Nat
          /\ takers[t] = {} /\ pc[t] = "done"
      <3>1. rows[t] > now /\ now \in Nat /\ rows[t] \in Nat
        BY DEF Live, TaskInv, TypeInv
      <3>2. rows[t] > 0
        BY <3>1
      <3> QED BY <3>1, <3>2, Cleared DEF TaskInv, TypeInv, TaskOK
    <2>1. ASSUME NEW m \in Message, Hold(m)
          PROVE  FALSE
      <3>1. m # t
        BY <2>0, <2>1 DEF Hold
      <3>2. \/ rows' = rows \/ rows' = Swept
            \/ \E expiry : rows' = [Swept EXCEPT ![m] = expiry]
        BY <2>1 DEF Hold, Put, taskVars
      <3> QED BY <2>0, <3>1, <3>2
    <2>2. ASSUME NEW m \in Message, LookUp(m)
          PROVE  FALSE
      BY <2>0, <2>2 DEF LookUp, Live
    <2>3. ASSUME NEW m \in Message, Take(m)
          PROVE  takers'[t] # takers[t]
      <3> DEFINE u == asked[m].task
      <3>1. /\ rows' = [Swept EXCEPT ![u] = 0]
            /\ takers' = [takers EXCEPT ![u] = takers[u] \cup {[by |-> m, at |-> now]}]
        BY <2>3 DEF Take, TakeRow
      <3>2. u = t
        BY <2>0, <3>1
      <3> QED BY <2>0, <3>1, <3>2
    <2>4. CASE Stop \/ Crash
      <3>1. ~durable /\ epoch' = epoch + 1
        BY <2>4 DEF Stop, Crash, Forget
      <3> QED BY <2>0, <3>1
    <2>5. ASSUME Start \/ \E m \in Message : Lose(m)
          PROVE  FALSE
      BY <2>0, <2>5 DEF Start, Lose
    <2>6. ASSUME rows' = rows
          PROVE  FALSE
      BY <2>6
    <2>7. ASSUME NEW m \in Message,
                 \/ RefuseHttp(m) \/ RefuseFrame(m) \/ RefuseMethod(m) \/ RefuseEnvelope(m)
                 \/ RefuseSkill(m) \/ Execute(m) \/ Executed(m) \/ HoldFails(m) \/ ResumeFails(m)
                 \/ Found(m) \/ Claim(m) \/ PaySettled(m) \/ PayFails(m)
          PROVE  FALSE
      BY <2>6, <2>7 DEF RefuseHttp, RefuseFrame, RefuseMethod, RefuseEnvelope, RefuseSkill, Execute,
           Executed, HoldFails, ResumeFails, Found, Claim, PaySettled, PayFails, Pay, taskVars
    <2>8. ASSUME Tick \/ \E m, v, d, x, form : Receive(m, v, d, x, form)
          PROVE  FALSE
      BY <2>6, <2>8 DEF Tick, Receive, taskVars
    <2> QED BY <2>1, <2>2, <2>3, <2>4, <2>5, <2>7, <2>8 DEF Next, Handle
  <1> QED BY <1>1, TasksAreKept, PTL DEF Spec, LiveTaskIsKept

-----------------------------------------------------------------------------
(* Answers.                                                                *)

\* How far a handler has come.
Progress(label) ==
    CASE label = "new" -> 0
      [] label = "read" -> 1
      [] label \in {"executing", "found"} -> 2
      [] label \in {"holding", "checked"} -> 3
      [] label = "taken" -> 4
      [] label = "paying" -> 5
      [] OTHER -> 6

\* Whatever becomes of its task, a handler never goes back: each of its steps
\* brings it nearer to its answer, which is given once and never changed
\* (handleSendMessage, resumePayment).  With `HandlersGoOn` this is why every
\* message read is answered or cut off.
HandlersAdvance ==
    [][\A m \in Message :
          /\ pc'[m] # pc[m] => Progress(pc'[m]) > Progress(pc[m])
          /\ told'[m] # told[m] => pc[m] # "done" /\ pc'[m] = "done"]_vars

\* No handler runs while its process is down.  In a live process every position
\* of a handler has a step whose guard holds, so this is what HandlersGoOn rests on.
DownIsQuiet == adapter = "down" => \A m \in Message : pc[m] \notin Running

AnswersOK == told \in [Message -> Answers] /\ DownIsQuiet

\* An answer is a task's state, and a step of a handler needs a live process.
LEMMA AnswerSteps == TaskInv /\ AnswersOK /\ [Next]_vars => AnswersOK'
  <1> SUFFICES ASSUME TaskInv, AnswersOK, [Next]_vars PROVE AnswersOK'
    OBVIOUS
  <1>t. pc \in [Message -> {"new", "cut", "done"} \union Running] /\ told \in [Message -> Answers]
    BY DEF TaskInv, TypeInv, AnswersOK
  <1>a. ASSUME NEW n \in Message, NEW answer, Answer(n, answer), adapter' = adapter
        PROVE  AnswersOK'
    <2>1. TaskState(answer) \in Answers
      BY DEF TaskState, Answers
    <2> QED BY <1>a, <1>t, <2>1 DEF Answer, Goto, AnswersOK, DownIsQuiet, Running
  <1>g. ASSUME NEW n \in Message, NEW label, Goto(n, label), told' = told, adapter' = adapter,
               pc[n] \in Running \/ adapter = "running"
        PROVE  AnswersOK'
    BY <1>g, <1>t DEF Goto, AnswersOK, DownIsQuiet
  <1>1. CASE UNCHANGED vars
    BY <1>1 DEF vars, AnswersOK, DownIsQuiet
  <1>2. CASE Tick \/ Stop \/ Start
    BY <1>2 DEF Tick, Stop, Start, AnswersOK, DownIsQuiet
  <1>3. CASE Crash
    BY <1>3 DEF Crash, AnswersOK, DownIsQuiet, Running
  <1>4. ASSUME NEW n \in Message, NEW u, NEW d, NEW x, NEW form, Receive(n, u, d, x, form)
        PROVE  AnswersOK'
    BY <1>4, <1>g DEF Receive
  <1>5. ASSUME NEW n \in Message,
               \/ RefuseHttp(n) \/ RefuseFrame(n) \/ RefuseMethod(n) \/ RefuseEnvelope(n)
               \/ RefuseSkill(n) \/ Hold(n) \/ HoldFails(n) \/ ResumeFails(n) \/ Lose(n)
               \/ PaySettled(n) \/ PayFails(n)
        PROVE  AnswersOK'
    BY <1>5, <1>a DEF RefuseHttp, RefuseFrame, RefuseMethod, RefuseEnvelope, RefuseSkill, Hold,
         HoldFails, ResumeFails, Lose, FallThrough, PaySettled, PayFails, Pay
  <1>c. ASSUME NEW n \in Message, pc[n] \in Running \/ adapter = "running", adapter' = adapter,
               Checks(n) \/ \E u, kept : Resume(n, u, kept)
        PROVE  AnswersOK'
    BY <1>a, <1>c, <1>g DEF Checks, Resume
  <1>6. ASSUME NEW n \in Message,
               Execute(n) \/ Executed(n) \/ LookUp(n) \/ Found(n) \/ Take(n) \/ Claim(n)
        PROVE  AnswersOK'
    <2>1. CASE Execute(n)
      BY <1>g, <2>1 DEF Execute
    <2>2. CASE Executed(n)
      BY <1>a, <1>g, <2>2 DEF Executed, Running
    <2>3. CASE LookUp(n)
      BY <1>a, <1>c, <1>g, <2>3 DEF LookUp, FallThrough
    <2>4. CASE Take(n)
      BY <1>c, <1>g, <2>4 DEF Take, TakeRow, Running
    <2>5. CASE Found(n) \/ Claim(n)
      BY <1>c, <2>5 DEF Found, Claim, Running
    <2> QED BY <1>6, <2>1, <2>2, <2>3, <2>4, <2>5
  <1> QED BY <1>1, <1>2, <1>3, <1>4, <1>5, <1>6 DEF Next, Handle

\* They hold throughout.
LEMMA AnswersAreKept == Spec => []AnswersOK
  <1>1. Init => AnswersOK
    BY DEF Init, AnswersOK, DownIsQuiet, Answers
  <1> QED BY <1>1, AnswerSteps, TasksAreKept, PTL DEF Spec

\* A handler never outlives its process, whatever stops, crashes and starts the
\* adapter (stop, start).
THEOREM QuietTheorem == Spec => []DownIsQuiet
  <1>1. AnswersOK => DownIsQuiet
    BY DEF AnswersOK
  <1> QED BY <1>1, AnswersAreKept, PTL

\* Every step of a handler, and of the process, moves handlers forward only.
THEOREM AdvanceTheorem == Spec => HandlersAdvance
  <1> DEFINE Forward(m) ==
               /\ pc'[m] # pc[m] => Progress(pc'[m]) > Progress(pc[m])
               /\ told'[m] # told[m] => pc[m] # "done" /\ pc'[m] = "done"
  <1>1. TaskInv /\ AnswersOK /\ [Next]_vars => [\A m \in Message : Forward(m)]_vars
    <2> SUFFICES ASSUME TaskInv, AnswersOK, Next, NEW m \in Message PROVE Forward(m)
      OBVIOUS
    <2>t. /\ pc \in [Message -> {"new", "cut", "done"} \union Running]
          /\ told \in [Message -> Answers]
      BY DEF TaskInv, TypeInv, AnswersOK
    <2>1. CASE UNCHANGED <<pc, told>>
      BY <2>1
    <2>2. ASSUME NEW n \in Message, NEW label, pc' = [pc EXCEPT ![n] = label],
                 Progress(label) > Progress(pc[n]),
                 \/ told' = told
                 \/ label = "done" /\ \E a : told' = [told EXCEPT ![n] = a]
          PROVE  Forward(m)
      <3>1. CASE m = n
        BY <2>2, <2>t, <3>1 DEF Progress, Running
      <3>2. CASE m # n
        BY <2>2, <2>t, <3>2
      <3> QED BY <3>1, <3>2
    <2>3. ASSUME NEW n \in Message, pc[n] # "done", pc[n] # "cut", NEW answer, Answer(n, answer)
          PROVE  Forward(m)
      <3>1. Progress("done") > Progress(pc[n])
        BY <2>3, <2>t DEF Progress, Running
      <3> QED BY <2>2, <2>3, <3>1 DEF Answer, Goto
    <2>4. ASSUME NEW n \in Message, NEW label, Goto(n, label), told' = told,
                 \/ pc[n] = "new" /\ label = "read"
                 \/ pc[n] = "read" /\ label \in {"executing", "found", "checked"}
                 \/ pc[n] = "executing" /\ label = "holding"
                 \/ pc[n] = "found" /\ label = "checked"
                 \/ pc[n] = "checked" /\ label \in {"taken", "paying"}
                 \/ pc[n] = "taken" /\ label = "paying"
          PROVE  Forward(m)
      <3>1. Progress(label) > Progress(pc[n])
        BY <2>4 DEF Progress
      <3> QED BY <2>2, <2>4, <3>1 DEF Goto
    <2>5. CASE Tick \/ Stop \/ Start
      BY <2>1, <2>5 DEF Tick, Stop, Start
    <2>6. CASE Crash
      <3>1. told' = told /\ (pc'[m] = pc[m] \/ (pc[m] \in Running /\ pc'[m] = "cut"))
        BY <2>6 DEF Crash
      <3> QED BY <3>1 DEF Progress, Running
    <2>7. ASSUME NEW n \in Message, NEW u, NEW d, NEW x, NEW form, Receive(n, u, d, x, form)
          PROVE  Forward(m)
      BY <2>4, <2>7 DEF Receive
    <2>8. ASSUME NEW n \in Message,
                 \/ RefuseHttp(n) \/ RefuseFrame(n) \/ RefuseMethod(n) \/ RefuseEnvelope(n)
                 \/ RefuseSkill(n) \/ Hold(n) \/ HoldFails(n) \/ ResumeFails(n) \/ Lose(n)
                 \/ PaySettled(n) \/ PayFails(n)
          PROVE  Forward(m)
      BY <2>3, <2>8 DEF RefuseHttp, RefuseFrame, RefuseMethod, RefuseEnvelope, RefuseSkill, Hold,
           HoldFails, ResumeFails, Lose, FallThrough, PaySettled, PayFails, Pay
    <2>9. ASSUME NEW n \in Message,
                 Execute(n) \/ Executed(n) \/ LookUp(n) \/ Found(n) \/ Take(n) \/ Claim(n)
          PROVE  Forward(m)
      <3>1. CASE Execute(n)
        BY <2>4, <3>1 DEF Execute
      <3>2. CASE Executed(n)
        BY <2>3, <2>4, <3>2 DEF Executed
      <3>3. CASE LookUp(n)
        BY <2>3, <2>4, <3>3 DEF LookUp, Checks, FallThrough
      <3>4. CASE Take(n)
        BY <2>3, <2>4, <3>4 DEF Take, TakeRow, Resume
      <3>5. CASE Found(n)
        BY <2>3, <2>4, <3>5 DEF Found, Checks
      <3>6. CASE Claim(n)
        BY <2>3, <2>4, <3>6 DEF Claim, Resume
      <3> QED BY <2>9, <3>1, <3>2, <3>3, <3>4, <3>5, <3>6
    <2> QED BY <2>5, <2>6, <2>7, <2>8, <2>9 DEF Next, Handle
  <1> QED BY <1>1, TasksAreKept, AnswersAreKept, PTL DEF Spec, HandlersAdvance
=============================================================================
