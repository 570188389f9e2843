------------------------------ MODULE A2aTasks ------------------------------
(***************************************************************************)
(* The A2A adapter and the purchases that wait for an x402 payment         *)
(* (src/protocols/a2a/adapter.ts, payment-resume.ts, x402-extension.ts,    *)
(* message-mapping.ts and src/storage/receipts/pending-tasks.ts).          *)
(*                                                                         *)
(* A first message executes the pipeline; when it answers with an x402     *)
(* challenge the purchase waits as a task, named by the message's request  *)
(* id.  A follow-up on the task looks it up, is checked, takes the task    *)
(* and executes the purchase with the payment.  The lookup and the take    *)
(* are separate awaits.  Tasks are rows of the receipt database (durable)  *)
(* or of a map in the process; mandates are in process memory either way,  *)
(* so with a durable store they are read after the database has answered,  *)
(* on a later clock.                                                       *)
(***************************************************************************)
EXTENDS Naturals, FiniteSets, FiniteSetsExt

CONSTANTS
    Message, NoMessage,   \* messages; a waiting task has its message's name
    Mandate, NoMandate,   \* AP2 mandates
    MaxTasks,             \* MAX_PENDING_PAYMENTS
    DefaultTtl, MaxTtl,   \* DEFAULT_PENDING_TTL_MS, MAX_PENDING_TTL_MS
    MaxTime,              \* bound on the clock
    MaxFaults             \* bound on stops, crashes and storage errors

ASSUME A2aConstants ==
    /\ NoMessage \notin Message
    /\ NoMandate \notin Mandate
    /\ {MaxTasks, DefaultTtl, MaxTtl, MaxTime, MaxFaults} \subseteq Nat
    /\ DefaultTtl <= MaxTtl

VARIABLES
    durable,   \* the store has the pending_tasks methods
    now,       \* the clock
    adapter,   \* the adapter's lifecycle
    rows,      \* when each waiting task expires, 0 when there is no row
    mandates,  \* mandates kept with the waiting tasks
    asked,     \* what each message carries
    pc,        \* where each message's handler is
    proof,     \* the mandate a follow-up brings or executes with
    told,      \* the answer
    offers,    \* history: the purchase each task was opened for
    bought,    \* history: executions by message without a task
    takers,    \* history: who took each task, and when
    epoch,     \* history: stops and crashes so far
    faults

taskVars == <<rows, mandates>>
history == <<offers, bought, takers, epoch>>
vars == <<durable, now, adapter, rows, mandates, asked, pc, proof, told, offers, bought,
          takers, epoch, faults>>

(***************************************************************************)
(* What a follow-up carries: a payment; a refusal to pay; a message whose  *)
(* messageId, role, contextId or submission is missing or wrong; a payment *)
(* with a malformed mandate.  A mandate is read from a good payment only.  *)
(***************************************************************************)
Form == {"ok", "declined", "invalid", "badMandate"}

Asked ==
    [task : Message \cup {NoMessage}, mandate : Mandate \cup {NoMandate},
     extension : BOOLEAN,
     form : {"none"} \cup Form]

NotAsked ==
    [task |-> NoMessage, mandate |-> NoMandate, extension |-> FALSE, form |-> "none"]

Answers == {"none", "error", "completed", "failed", "input-required"}

\* The task an answer carries; the others are errors on HTTP or JSON-RPC level.
TaskState(answer) ==
    CASE answer \in {"completed", "paid"} -> "completed"
      [] answer = "input-required" -> "input-required"
      [] answer \in {"failed", "challenge", "busy", "declined", "settled-undelivered",
                     "payment-failed"} -> "failed"
      [] OTHER -> "error"

Running == {"read", "executing", "holding", "found", "checked", "taken", "paying"}

Init ==
    /\ durable \in BOOLEAN
    /\ now = 0
    /\ adapter = "running"
    /\ rows = [t \in Message |-> 0]
    /\ mandates = [t \in Message |-> NoMandate]
    /\ asked = [m \in Message |-> NotAsked]
    /\ pc = [m \in Message |-> "new"]
    /\ proof = [m \in Message |-> NoMandate]
    /\ told = [m \in Message |-> "none"]
    /\ offers = [t \in Message |-> [until |-> 0, mandate |-> NoMandate, epoch |-> 0]]
    /\ bought = {}
    /\ takers = [t \in Message |-> {}]
    /\ epoch = 0
    /\ faults = 0

Live(t) == rows[t] > now

Goto(m, label) == pc' = [pc EXCEPT ![m] = label]
Answer(m, answer) ==
    /\ Goto(m, "done")
    /\ told' = [told EXCEPT ![m] = TaskState(answer)]

Fault ==
    /\ faults < MaxFaults
    /\ faults' = faults + 1

-----------------------------------------------------------------------------
(* The frame.                                                              *)

\* The body is read while the adapter runs, and parses to a SendMessage call.
Receive(m, task, mandate, extension, form) ==
    /\ pc[m] = "new"
    /\ adapter = "running"
    /\ task # m
    /\ asked' = [asked EXCEPT ![m] = [task |-> task, mandate |-> mandate,
                                      extension |-> extension, form |-> form]]
    /\ Goto(m, "read")
    /\ UNCHANGED <<now, adapter, taskVars, proof, told, history, faults>>

\* A stopped adapter, another HTTP method, or a body over the limit.
RefuseHttp(m) ==
    /\ pc[m] = "new"
    /\ adapter # "down"
    /\ Answer(m, "http-error")
    /\ UNCHANGED <<now, adapter, taskVars, asked, proof, history, faults>>

\* Not JSON, a batch, a notification without an id, or no JSON-RPC 2.0 call.
RefuseFrame(m) ==
    /\ pc[m] = "new"
    /\ adapter = "running"
    /\ Answer(m, "invalid-request")
    /\ UNCHANGED <<now, adapter, taskVars, asked, proof, history, faults>>

\* Push, task lookup and unsupported or unknown methods.
RefuseMethod(m) ==
    /\ pc[m] = "new"
    /\ adapter # "down"
    /\ Answer(m, "not-served")
    /\ UNCHANGED <<now, adapter, taskVars, asked, proof, history, faults>>

-----------------------------------------------------------------------------
(* A message without a task.                                               *)

\* parseInvocation: anything but one data part that names a resource.
RefuseEnvelope(m) ==
    /\ pc[m] = "read"
    /\ asked[m].task = NoMessage
    /\ Answer(m, "invalid-params")
    /\ UNCHANGED <<now, adapter, taskVars, asked, proof, history, faults>>

\* An unknown skill is a failed task; a stopped adapter has no context left.
RefuseSkill(m) ==
    /\ pc[m] = "read"
    /\ asked[m].task = NoMessage
    /\ Answer(m, IF adapter = "running" THEN "failed" ELSE "internal")
    /\ UNCHANGED <<now, adapter, taskVars, asked, proof, history, faults>>

\* One accepted invocation, one pipeline.execute().
Execute(m) ==
    /\ pc[m] = "read"
    /\ asked[m].task = NoMessage
    /\ adapter = "running"
    /\ Goto(m, "executing")
    /\ bought' = bought \cup {m}
    /\ UNCHANGED <<now, adapter, taskVars, asked, proof, told, offers, takers, epoch, faults>>

\* The pipeline answers; only an x402 challenge under the extension is held.
Executed(m) ==
    /\ pc[m] = "executing"
    /\ \/ Answer(m, "completed")
       \/ Answer(m, "failed")
       \/ Answer(m, "challenge")
       \/ asked[m].extension /\ Goto(m, "holding") /\ UNCHANGED told
    /\ UNCHANGED <<now, adapter, taskVars, asked, proof, history, faults>>

Requested == 0..(MaxTime + MaxTtl + 1)

\* expiryMs: the requirement's expiry, clamped, or the default.
Expiries ==
    {now + DefaultTtl}
        \cup {now + Min({IF at > now THEN at - now ELSE 0, MaxTtl}) : at \in Requested}

Swept == [t \in Message |-> IF Live(t) THEN rows[t] ELSE 0]
Purged == [t \in Message |-> IF offers[t].until > now THEN mandates[t] ELSE NoMandate]

Full == Cardinality({t \in Message : Swept[t] > 0}) >= MaxTasks

\* The mandate stays in the process, for as long as the task may wait.
MandatesWith(m) == [Purged EXCEPT ![m] = asked[m].mandate]

\* Mutant: a full store makes room by dropping the waiting tasks.
PutByEviction(m, expiry) ==
    rows' = [(IF Full THEN [t \in Message |-> 0] ELSE Swept) EXCEPT ![m] = expiry]

\* One transaction: the expired tasks are swept, and a full store takes no more.
Put(m, expiry) == rows' = IF Full THEN Swept ELSE [Swept EXCEPT ![m] = expiry]

(***************************************************************************)
(* The adapter's put.  A stopped adapter has no pending payments left and  *)
(* still answers input-required.                                           *)
(***************************************************************************)
Hold(m) ==
    /\ pc[m] = "holding"
    /\ \/ /\ adapter = "running"
          /\ \E expiry \in Expiries :
                /\ Put(m, expiry)
                /\ offers' = IF Full THEN offers
                             ELSE [offers EXCEPT ![m] =
                                    [until |-> expiry, mandate |-> asked[m].mandate,
                                     epoch |-> epoch]]
          /\ mandates' = IF Full THEN Purged ELSE MandatesWith(m)
          /\ Answer(m, IF Full THEN "busy" ELSE "input-required")
       \/ /\ adapter = "stopped"
          /\ Answer(m, "input-required")
          /\ UNCHANGED <<taskVars, offers>>
    /\ UNCHANGED <<now, adapter, asked, proof, bought, takers, epoch, faults>>

\* putPendingTask throws STORAGE_ERROR: a failed task, and nothing is held.
HoldFails(m) ==
    /\ pc[m] = "holding"
    /\ adapter = "running"
    /\ durable
    /\ Fault
    /\ Answer(m, "failed")
    /\ UNCHANGED <<now, adapter, taskVars, asked, proof, history>>

-----------------------------------------------------------------------------
(* A message on a task.                                                    *)

\* Mutant: a follow-up whose task is gone starts a purchase of its own.
FallThroughToPurchase(m) ==
    /\ Goto(m, "executing")
    /\ bought' = bought \cup {m}
    /\ UNCHANGED told

\* parseInvocation after resumePayment returned undefined: assertNoContinuation.
FallThrough(m) ==
    /\ Answer(m, "not-found")
    /\ UNCHANGED bought

\* Refusals of resumePayment that leave the task waiting.
FollowUpRefused(m) ==
    \/ asked[m].form = "invalid"
    \/ /\ asked[m].form = "badMandate"
       /\ Purged[asked[m].task] = NoMandate

(***************************************************************************)
(* resumePayment between its lookup and its take: the mandates are purged  *)
(* and the message is checked.  A mandate kept with the purchase takes     *)
(* precedence over one in the follow-up.                                   *)
(***************************************************************************)
Checks(m) ==
    /\ mandates' = Purged
    /\ \/ /\ FollowUpRefused(m)
          /\ Answer(m, "invalid-params")
          /\ UNCHANGED proof
       \/ /\ ~FollowUpRefused(m)
          /\ Goto(m, "checked")
          /\ proof' = [proof EXCEPT ![m] =
                IF Purged[asked[m].task] = NoMandate /\ asked[m].form = "ok"
                THEN asked[m].mandate ELSE NoMandate]
          /\ UNCHANGED told
    /\ UNCHANGED bought

\* The database answers the lookup first; a map in memory is read at once.
LookUp(m) ==
    LET t == asked[m].task
    IN  /\ pc[m] = "read"
        /\ t # NoMessage
        /\ rows' = IF durable \/ Live(t) THEN rows ELSE [rows EXCEPT ![t] = 0]
        /\ \/ /\ adapter = "stopped" \/ ~Live(t)
              /\ FallThrough(m)
              /\ UNCHANGED <<mandates, proof>>
           \/ /\ adapter = "running"
              /\ Live(t)
              /\ durable
              /\ Goto(m, "found")
              /\ UNCHANGED <<mandates, proof, told, bought>>
           \/ /\ adapter = "running"
              /\ Live(t)
              /\ ~durable
              /\ Checks(m)
        /\ UNCHANGED <<now, adapter, asked, offers, takers, epoch, faults>>

\* toPending after the database's answer.
Found(m) ==
    /\ pc[m] = "found"
    /\ Checks(m)
    /\ UNCHANGED <<now, adapter, rows, asked, offers, takers, epoch, faults>>

\* The task is this handler's: it declines, or executes the purchase.
Resume(m, t, kept) ==
    /\ mandates' = [Purged EXCEPT ![t] = NoMandate]
    /\ \/ /\ asked[m].form = "declined"
          /\ Answer(m, "declined")
          /\ UNCHANGED proof
       \/ /\ asked[m].form # "declined"
          /\ Goto(m, "paying")
          /\ proof' = [proof EXCEPT ![m] = IF kept # NoMandate THEN kept ELSE @]
          /\ UNCHANGED told

\* One statement deletes the row and returns it.
TakeRow(m, t) ==
    /\ rows' = [Swept EXCEPT ![t] = 0]
    /\ takers' = [takers EXCEPT ![t] = @ \cup {[by |-> m, at |-> now]}]
    /\ \/ durable /\ Goto(m, "taken") /\ UNCHANGED <<mandates, proof, told>>
       \/ ~durable /\ Resume(m, t, Purged[t])
    /\ UNCHANGED <<now, adapter, asked, offers, bought, epoch, faults>>

\* Mutant: the take does not check that the task is still there.
TakeAsLookedUp(m) == pc[m] = "checked" /\ TakeRow(m, asked[m].task)

\* take claims the live task.  The store outlives a stopped adapter, whose
\* handlers keep what they captured.
Take(m) ==
    /\ pc[m] = "checked"
    /\ Live(asked[m].task)
    /\ TakeRow(m, asked[m].task)

\* Mutant: the kept mandate is dropped before it is read.
ClaimWithoutMandate(m) ==
    /\ pc[m] = "taken"
    /\ Resume(m, asked[m].task, NoMandate)
    /\ UNCHANGED <<now, adapter, rows, asked, offers, bought, takers, epoch, faults>>

\* The database has returned the row; the mandates are purged on a later clock.
Claim(m) ==
    /\ pc[m] = "taken"
    /\ Resume(m, asked[m].task, Purged[asked[m].task])
    /\ UNCHANGED <<now, adapter, rows, asked, offers, bought, takers, epoch, faults>>

\* Mutant: a handler that lost the task waits for it.
LoseAndWait(m) == FALSE

\* A competing message took the task, or it expired: the unknown-task path.
Lose(m) ==
    /\ pc[m] = "checked"
    /\ ~Live(asked[m].task)
    /\ rows' = Swept
    /\ FallThrough(m)
    /\ UNCHANGED <<now, adapter, mandates, asked, proof, offers, takers, epoch, faults>>

\* The lookup or the take throws: an internal error, and the task is kept.
ResumeFails(m) ==
    /\ pc[m] \in {"read", "checked"}
    /\ asked[m].task # NoMessage
    /\ durable
    /\ Fault
    /\ Answer(m, "internal")
    /\ UNCHANGED <<now, adapter, taskVars, asked, proof, history>>

Pay(m, answer) ==
    /\ pc[m] = "paying"
    /\ Answer(m, answer)
    /\ UNCHANGED <<now, adapter, taskVars, asked, proof, history, faults>>

\* The pipeline settled the payment and delivered.
PaySettled(m) == Pay(m, "paid")

\* What a failure is reported as: money that moved is a completed payment.
FailureStatus(settled) == IF settled THEN "settled-undelivered" ELSE "payment-failed"

\* A challenge, a free delivery or an error.
PayFails(m) == \E settled \in BOOLEAN : Pay(m, FailureStatus(settled))

-----------------------------------------------------------------------------
(* The clock and the process.                                              *)

Tick ==
    /\ now < MaxTime
    /\ now' = now + 1
    /\ UNCHANGED <<adapter, taskVars, asked, pc, proof, told, history, faults>>

\* What a process keeps of the waiting tasks when its memory is cleared.
Forget ==
    /\ rows' = IF durable THEN rows ELSE [t \in Message |-> 0]
    /\ mandates' = [t \in Message |-> NoMandate]
    /\ epoch' = epoch + 1

Stop ==
    /\ adapter = "running"
    /\ Fault
    /\ adapter' = "stopped"
    /\ Forget
    /\ UNCHANGED <<now, asked, pc, proof, told, offers, bought, takers>>

\* The process ends, with its handlers.
Crash ==
    /\ adapter # "down"
    /\ Fault
    /\ adapter' = "down"
    /\ Forget
    /\ pc' = [m \in Message |-> IF pc[m] \in Running THEN "cut" ELSE pc[m]]
    /\ UNCHANGED <<now, asked, proof, told, offers, bought, takers>>

\* A new process; opening the database sweeps the expired tasks.
Start ==
    /\ adapter = "down"
    /\ adapter' = "running"
    /\ rows' = Swept
    /\ UNCHANGED <<now, mandates, asked, pc, proof, told, history, faults>>

Handle(m) ==
    \/ RefuseEnvelope(m) \/ RefuseSkill(m) \/ Execute(m) \/ Executed(m) \/ Hold(m)
    \/ LookUp(m) \/ Found(m) \/ Take(m) \/ Claim(m) \/ Lose(m) \/ PaySettled(m) \/ PayFails(m)

Next ==
    /\ \/ \E m \in Message, t \in Message \cup {NoMessage}, d \in Mandate \cup {NoMandate},
            x \in BOOLEAN, form \in Form :
             /\ t = NoMessage => form = "ok"
             /\ t # NoMessage => ~x
             /\ form # "ok" => d = NoMandate
             /\ Receive(m, t, d, x, form)
       \/ \E m \in Message :
             \/ RefuseHttp(m) \/ RefuseFrame(m) \/ RefuseMethod(m)
             \/ Handle(m) \/ HoldFails(m) \/ ResumeFails(m)
       \/ Tick \/ Stop \/ Crash \/ Start
    /\ UNCHANGED durable

Spec == Init /\ [][Next]_vars

-----------------------------------------------------------------------------
(* Properties.                                                             *)

\* Of all follow-ups on a task, racing, repeated or sent after a restart, at
\* most one gets past resumePayment's take, and only before the task expired.
OnePaymentPerTask ==
    \A t \in Message :
        /\ Cardinality(takers[t]) <= 1
        /\ \A k \in takers[t] : k.at < offers[t].until

\* A message that names a task never starts a purchase of its own, whatever
\* became of the task between its lookup and its take (assertNoContinuation).
ContinuationBuysNothingNew == \A m \in bought : asked[m].task = NoMessage

\* A purchase is executed with its own mandate.  The follow-up's is used only
\* when the purchase had none, or the process that kept it has ended.  A task
\* taken at its last moment, whose mandate expires before it is read back, is
\* executed with none: the follow-up's never slips in.
MandateIsThePurchases ==
    \A m \in Message :
        LET o == offers[asked[m].task]
        IN  pc[m] = "paying" /\ proof[m] # o.mandate
                => \/ /\ o.mandate = NoMandate \/ o.epoch < epoch
                      /\ proof[m] \in {NoMandate, asked[m].mandate}
                   \/ o.until <= now /\ proof[m] = NoMandate

\* A live task leaves the store only through a follow-up that passed every
\* check, or with the memory of its process; a refused message and another
\* purchase's put leave it alone.
LiveTaskIsKept ==
    [][\A t \in Message :
          Live(t) /\ rows'[t] # rows[t]
              => \/ takers'[t] # takers[t]
                 \/ ~durable /\ epoch' # epoch]_vars

\* A handler whose task disappeared, expired or went to another message between
\* its lookup and its take, or whose adapter stopped, still has a step to take;
\* no step leads back, so every message read is answered.
HandlersGoOn == \A m \in Message : pc[m] \in Running => ENABLED Handle(m)
=============================================================================
