------------------------ MODULE AcpIdempotencyProofs ------------------------
(***************************************************************************)
(* The idempotency claims keep their promises for any requests, keys and   *)
(* bodies, any number of faults, and both settings of merchantIdempotent.  *)
(***************************************************************************)
EXTENDS AcpIdempotency, TLAPS

\* Rows name the request that inserted them, on its own key, and a stored answer
\* is that request's.
RowsOK ==
    \A s \in Scope :
        /\ claims[s].state = "absent" => claims[s].by = NoRequest
        /\ claims[s].state # "absent" =>
              claims[s].by \in Request /\ asked[claims[s].by].scope = s
        /\ claims[s].state = "completed" => claims[s].answer = claims[s].by

\* A handler between its claim and its record owns its key's row.
Owned ==
    \A r \in Request :
        pc[r] \in Owning =>
            /\ claims[asked[r].scope].state = "in_flight"
            /\ claims[asked[r].scope].by = r

\* A process that is down runs no handler.
Quiet == lifecycle = "down" => \A r \in Request : pc[r] \notin Running

\* What the gateway takes for "the merchant did not act" is so.
Untouched ==
    \A r \in Request :
        /\ r \in acted => calls[r] # "none"
        /\ pc[r] \in {"new", "admitted", "claimed", "executing"} => calls[r] = "none"
        /\ pc[r] = "ran" /\ outcome[r].status = "failed" /\ outcome[r].reached = "no"
             => calls[r] # "open" /\ r \notin acted

\* A request whose operation was or may yet be carried out keeps its row until
\* its stored answer expires.
Kept ==
    ~MerchantIdempotent =>
        \A r \in Request :
            (r \in acted \/ calls[r] = "open") /\ r \notin retired
                => claims[asked[r].scope].by = r

\* An answer that was given, or is about to be, is the one that is stored.
AnswersOK ==
    \A r \in Request :
        /\ replied[r].kind = "answer" =>
              /\ replied[r].of \in Request
              /\ asked[replied[r].of] = asked[r]
              /\ replied[r].of \notin retired =>
                    /\ claims[asked[r].scope].state = "completed"
                    /\ claims[asked[r].scope].answer = replied[r].of
        /\ pc[r] = "recorded" /\ outcome[r].status = "answer" /\ r \notin retired =>
              /\ claims[asked[r].scope].state = "completed"
              /\ claims[asked[r].scope].answer = r

AcpInv ==
    /\ AcpTypeOK
    /\ RowsOK
    /\ Owned
    /\ Quiet
    /\ Untouched
    /\ Kept
    /\ AnswersOK
    /\ InFlightHasHandler
    /\ OneEffectPerKey

-----------------------------------------------------------------------------
\* Only a claim, a record, the clock and a start write the table.
LEMMA TableWriters ==
    ASSUME [AcpNext]_acpVars
    PROVE  /\ UNCHANGED asked
           /\ \/ UNCHANGED <<claims, retired>>
              \/ \E r \in Request : Claim(r) \/ Record(r)
              \/ \E s \in Scope : Expire(s)
              \/ Start
<1>1. CASE UNCHANGED acpVars
  BY <1>1 DEF acpVars
<1>2. ASSUME NEW r \in Request, HandlerStep(r)
      PROVE  /\ UNCHANGED asked
             /\ UNCHANGED <<claims, retired>> \/ Claim(r) \/ Record(r)
  BY <1>2 DEF HandlerStep, PassGuards, Unavailable, Claim, ClaimFails, NotExecuted, Execute,
       FailsBeforeBackend, CallMerchant, Delivers, Refuses, RateLimits, GivesUp, Answered,
       Record, RecordFails, SendResponse
<1>3. ASSUME NEW r \in Request, MerchantActs(r)
      PROVE  UNCHANGED <<asked, claims, retired>>
  BY <1>3 DEF MerchantActs
<1>4. ASSUME Stop \/ Crash
      PROVE  UNCHANGED <<asked, claims, retired>>
  BY <1>4 DEF Stop, Crash
<1>5. ASSUME (\E s \in Scope : Expire(s)) \/ Start
      PROVE  UNCHANGED asked
  BY <1>5 DEF Expire, Start
<1> QED
  BY <1>1, <1>2, <1>3, <1>4, <1>5 DEF AcpNext

\* What a claim leaves in the table: answers that expired are gone, and the
\* claimant's row is new if its key was free.
LEMMA ClaimRows ==
    ASSUME AcpTypeOK, RowsOK, NEW r \in Request, Claim(r)
    PROVE  /\ asked[r].scope \in Scope
           /\ \A t \in Scope : Expired(t) => claims[t].by \in retired'
           /\ retired \subseteq retired'
           /\ retired' \subseteq Request
           /\ \A t \in Scope : t # asked[r].scope =>
                 claims'[t] = IF Expired(t) THEN NoClaim ELSE claims[t]
           /\ \/ /\ claims[asked[r].scope].state = "absent" \/ Expired(asked[r].scope)
                 /\ claims'[asked[r].scope] = [state |-> "in_flight", by |-> r,
                                               answer |-> NoRequest, due |-> FALSE]
                 /\ pc' = [pc EXCEPT ![r] = "claimed"]
                 /\ replied' = replied
              \/ /\ claims[asked[r].scope].state # "absent"
                 /\ ~Expired(asked[r].scope)
                 /\ claims'[asked[r].scope] = claims[asked[r].scope]
                 /\ pc' = [pc EXCEPT ![r] = "done"]
                 /\ replied' = [replied EXCEPT ![r] = Found(claims[asked[r].scope], r)]
<1> DEFINE s == asked[r].scope
<1>1. s \in Scope
  BY DEF AcpTypeOK
<1>2. \A t \in Scope : Swept[t] = IF Expired(t) THEN NoClaim ELSE claims[t]
  BY DEF Swept
<1>3. retired' = retired \cup {claims[t].answer : t \in {t \in Scope : Expired(t)}}
  BY DEF Claim
<1>4. \A t \in Scope : Expired(t) => claims[t].answer = claims[t].by /\ claims[t].by \in Request
  BY DEF Expired, RowsOK
<1>5. Swept \in [Scope -> Claimed]
  BY DEF Swept, AcpTypeOK, Claimed, NoClaim
<1>6. NoClaim.state = "absent"
  BY DEF NoClaim
<1>7. CASE Swept[s].state = "absent"
  <2>1. claims' = [Swept EXCEPT ![s] = [state |-> "in_flight", by |-> r,
                                        answer |-> NoRequest, due |-> FALSE]]
        /\ pc' = [pc EXCEPT ![r] = "claimed"] /\ replied' = replied
    BY <1>7 DEF Claim, Goto
  <2>2. \A t \in Scope : t # s => claims'[t] = Swept[t]
    BY <1>1, <1>5, <2>1
  <2>3. claims'[s] = [state |-> "in_flight", by |-> r, answer |-> NoRequest, due |-> FALSE]
    BY <1>1, <1>5, <2>1
  <2>4. claims[s].state = "absent" \/ Expired(s)
    BY <1>1, <1>2, <1>7
  <2>5. /\ \A t \in Scope : Expired(t) => claims[t].by \in retired'
        /\ retired \subseteq retired'
        /\ retired' \subseteq Request
    BY <1>3, <1>4 DEF AcpTypeOK
  <2> QED
    BY <1>1, <1>2, <2>1, <2>2, <2>3, <2>4, <2>5
<1>8. CASE Swept[s].state # "absent"
  <2>1. claims' = Swept /\ pc' = [pc EXCEPT ![r] = "done"]
        /\ replied' = [replied EXCEPT ![r] = Found(Swept[s], r)]
    BY <1>8 DEF Claim, Goto
  <2>2. ~Expired(s) /\ Swept[s] = claims[s]
    BY <1>1, <1>2, <1>6, <1>8
  <2> QED
    BY <1>1, <1>2, <1>3, <1>4, <1>8, <2>1, <2>2 DEF AcpTypeOK
<1> QED
  BY <1>7, <1>8

\* A handler that records finds its own row in flight.
LEMMA RecordRows ==
    ASSUME AcpTypeOK, Owned, NEW r \in Request, Record(r)
    PROVE  /\ asked[r].scope \in Scope
           /\ claims[asked[r].scope].state = "in_flight"
           /\ claims[asked[r].scope].by = r
           /\ \A t \in Scope : t # asked[r].scope => claims'[t] = claims[t]
           /\ \/ /\ outcome[r].status = "answer"
                 /\ claims'[asked[r].scope].state = "completed"
                 /\ claims'[asked[r].scope].answer = r
                 /\ claims'[asked[r].scope].by = r
              \/ /\ outcome[r].status = "failed"
                 /\ outcome[r].reached = "no" \/ MerchantIdempotent
                 /\ claims'[asked[r].scope] = NoClaim
              \/ /\ outcome[r].status # "answer"
                 /\ claims'[asked[r].scope].state = "unresolved"
                 /\ claims'[asked[r].scope].by = r
<1> DEFINE s == asked[r].scope
<1>1. s \in Scope
  BY DEF AcpTypeOK
<1>2. claims[s].state = "in_flight" /\ claims[s].by = r
  BY DEF Owned, Owning, Record
<1>3. claims' = [claims EXCEPT ![s] = Updated(claims[s], r, Verdict(outcome[r]))]
  BY DEF Record
<1>4. /\ \A t \in Scope : t # s => claims'[t] = claims[t]
      /\ claims'[s] = Updated(claims[s], r, Verdict(outcome[r]))
  BY <1>1, <1>3 DEF AcpTypeOK
<1>5. claims[s] \in Claimed
  BY <1>1 DEF AcpTypeOK
<1> QED
  BY <1>1, <1>2, <1>4, <1>5 DEF Updated, Verdict, Claimed

-----------------------------------------------------------------------------
\* Every action writes values of the declared kinds.
LEMMA AcpTypeStep == AcpTypeOK /\ RowsOK /\ [AcpNext]_acpVars => AcpTypeOK'
<1> SUFFICES ASSUME AcpTypeOK, RowsOK, [AcpNext]_acpVars PROVE AcpTypeOK'
  OBVIOUS
<1> USE DEF AcpTypeOK, Pc, Running, Owning
<1>1. CASE UNCHANGED acpVars
  BY <1>1 DEF acpVars
<1>2. ASSUME NEW r \in Request, HandlerStep(r) PROVE AcpTypeOK'
  <2>1. CASE Claim(r)
    <3>1. asked[r].scope \in Scope /\ NoClaim \in Claimed /\ Swept \in [Scope -> Claimed]
      BY DEF Swept, Claimed, NoClaim
    <3>2. claims' \in [Scope -> Claimed]
      <4>1. [state |-> "in_flight", by |-> r, answer |-> NoRequest, due |-> FALSE] \in Claimed
        BY DEF Claimed
      <4> QED
        BY <2>1, <3>1, <4>1 DEF Claim
    <3>3. Found(Swept[asked[r].scope], r) \in Reply
      BY <3>1 DEF Found, Reply, Claimed
    <3>4. replied' \in [Request -> Reply]
      BY <2>1, <3>3 DEF Claim
    <3>5. retired' \subseteq Request
      BY <2>1, ClaimRows
    <3> QED
      BY <2>1, <3>2, <3>4, <3>5 DEF Claim, Goto, merchantVars
  <2>2. CASE PassGuards(r) \/ Execute(r) \/ CallMerchant(r)
    BY <2>2 DEF PassGuards, Execute, CallMerchant, Goto, merchantVars
  <2>3. CASE Unavailable(r) \/ ClaimFails(r) \/ RecordFails(r) \/ SendResponse(r)
    <3>1. \A kind \in {"answer", "failed"} : [kind |-> kind, of |-> r] \in Reply
      BY DEF Reply
    <3>2. replied' \in [Request -> Reply]
      BY <2>3, <3>1 DEF Unavailable, ClaimFails, RecordFails, SendResponse, AnswerAgent
    <3>3. pc' \in [Request -> Pc]
      BY <2>3 DEF Unavailable, ClaimFails, RecordFails, SendResponse, Goto
    <3>4. faults' \in 0..MaxFaults
      BY <2>3, AcpConstants DEF Unavailable, ClaimFails, RecordFails, SendResponse, Fault
    <3> QED
      BY <2>3, <3>2, <3>3, <3>4
         DEF Unavailable, ClaimFails, RecordFails, SendResponse, merchantVars
  <2>4. CASE NotExecuted(r) \/ FailsBeforeBackend(r) \/ GivesUp(r)
    <3>1. \E st \in {"answer", "failed", "threw"}, re \in {"no", "unknown"} : Ran(r, st, re)
      BY <2>4 DEF NotExecuted, FailsBeforeBackend, GivesUp
    <3>2. pc' \in [Request -> Pc] /\ outcome' \in [Request -> Outcome]
      BY <3>1 DEF Ran, Goto, Outcome
    <3> QED
      BY <2>4, <3>2 DEF NotExecuted, FailsBeforeBackend, GivesUp, merchantVars
  <2>5. CASE Delivers(r) \/ Refuses(r) \/ RateLimits(r)
    <3>1. \E st \in {"answer", "failed"}, re \in {"no", "unknown", "yes"} : Ran(r, st, re)
      BY <2>5 DEF Delivers, Refuses, RateLimits
    <3>2. pc' \in [Request -> Pc] /\ outcome' \in [Request -> Outcome]
      BY <3>1 DEF Ran, Goto, Outcome
    <3> QED
      BY <2>5, <3>2 DEF Delivers, Refuses, RateLimits, Answered
  <2>6. CASE Record(r)
    <3>1. asked[r].scope \in Scope /\ claims[asked[r].scope] \in Claimed
      OBVIOUS
    <3>2. \A kind : Updated(claims[asked[r].scope], r, kind) \in Claimed
      BY <3>1 DEF Updated, Claimed, NoClaim
    <3> QED
      BY <2>6, <3>1, <3>2 DEF Record, Goto, merchantVars
  <2> QED
    BY <1>2, <2>1, <2>2, <2>3, <2>4, <2>5, <2>6 DEF HandlerStep
<1>3. ASSUME NEW r \in Request, MerchantActs(r) PROVE AcpTypeOK'
  BY <1>3 DEF MerchantActs, handlerVars
<1>4. ASSUME NEW s \in Scope, Expire(s) PROVE AcpTypeOK'
  BY <1>4 DEF Expire, handlerVars, merchantVars, Claimed
<1>5. CASE Stop
  BY <1>5 DEF Stop, merchantVars
<1>6. CASE Crash
  BY <1>6, AcpConstants DEF Crash, Fault, merchantVars
<1>7. CASE Start
  <2>1. \A s \in Scope : Recovered(claims[s]) \in Claimed
    BY DEF Recovered, Claimed, NoClaim
  <2> QED
    BY <1>7, <2>1 DEF Start, merchantVars
<1> QED
  BY <1>1, <1>2, <1>3, <1>4, <1>5, <1>6, <1>7 DEF AcpNext

\* Claims insert rows under their own key, and only the owner stores an answer.
LEMMA RowsStep == AcpTypeOK /\ RowsOK /\ Owned /\ [AcpNext]_acpVars => RowsOK'
<1> SUFFICES ASSUME AcpTypeOK, RowsOK, Owned, [AcpNext]_acpVars PROVE RowsOK'
  OBVIOUS
<1>1. UNCHANGED asked
  BY TableWriters
<1>2. CASE UNCHANGED <<claims, retired>>
  BY <1>1, <1>2 DEF RowsOK
<1>3. ASSUME NEW r \in Request, Claim(r) PROVE RowsOK'
  <2> DEFINE s == asked[r].scope
  <2>1. \A t \in Scope : t # s => claims'[t] = IF Expired(t) THEN NoClaim ELSE claims[t]
    BY <1>3, ClaimRows
  <2>2. \/ claims'[s] = [state |-> "in_flight", by |-> r, answer |-> NoRequest, due |-> FALSE]
        \/ claims'[s] = claims[s]
    BY <1>3, ClaimRows
  <2> QED
    BY <1>1, <2>1, <2>2, RequestConstants DEF RowsOK, NoClaim
<1>4. ASSUME NEW r \in Request, Record(r) PROVE RowsOK'
  <2> DEFINE s == asked[r].scope
  <2>1. \A t \in Scope : t # s => claims'[t] = claims[t]
    BY <1>4, RecordRows
  <2>2. \/ claims'[s].state = "completed" /\ claims'[s].answer = r /\ claims'[s].by = r
        \/ claims'[s] = NoClaim
        \/ claims'[s].state = "unresolved" /\ claims'[s].by = r
    BY <1>4, RecordRows
  <2> QED
    BY <1>1, <2>1, <2>2 DEF RowsOK, NoClaim
<1>5. ASSUME NEW s \in Scope, Expire(s) PROVE RowsOK'
  BY <1>1, <1>5 DEF RowsOK, Expire, AcpTypeOK, Claimed
<1>6. CASE Start
  BY <1>1, <1>6 DEF RowsOK, Start, Recovered, NoClaim, AcpTypeOK, Claimed
<1> QED
  BY <1>2, <1>3, <1>4, <1>5, <1>6, TableWriters

\* A crash ends every handler, and only a running adapter admits one.
LEMMA QuietStep == AcpTypeOK /\ Quiet /\ [AcpNext]_acpVars => Quiet'
<1> SUFFICES ASSUME AcpTypeOK, Quiet, [AcpNext]_acpVars PROVE Quiet'
  OBVIOUS
<1> USE DEF AcpTypeOK, Quiet, Running, Owning
<1>1. CASE UNCHANGED acpVars
  BY <1>1 DEF acpVars
<1>2. ASSUME NEW r \in Request, HandlerStep(r) PROVE Quiet'
  <2>1. lifecycle' = lifecycle /\ lifecycle # "down"
    BY <1>2 DEF HandlerStep, PassGuards, Unavailable, Claim, ClaimFails, NotExecuted, Execute,
       FailsBeforeBackend, CallMerchant, Delivers, Refuses, RateLimits, GivesUp, Answered,
       Record, RecordFails, SendResponse
  <2> QED
    BY <2>1
<1>3. ASSUME NEW r \in Request, MerchantActs(r) PROVE Quiet'
  BY <1>3 DEF MerchantActs, handlerVars
<1>4. ASSUME NEW s \in Scope, Expire(s) PROVE Quiet'
  BY <1>4 DEF Expire, handlerVars
<1>5. CASE Stop \/ Crash \/ Start
  BY <1>5 DEF Stop, Crash, Start
<1> QED
  BY <1>1, <1>2, <1>3, <1>4, <1>5 DEF AcpNext

\* A handler's step leaves the other handlers alone.
LEMMA HandlerFrame ==
    ASSUME AcpTypeOK, NEW r \in Request, HandlerStep(r)
    PROVE  /\ acted' = acted
           /\ lifecycle' = lifecycle
           /\ \A q \in Request \ {r} :
                /\ pc'[q] = pc[q] /\ outcome'[q] = outcome[q]
                /\ replied'[q] = replied[q] /\ calls'[q] = calls[q]
<1> USE DEF AcpTypeOK
<1>1. CASE PassGuards(r) \/ Execute(r) \/ CallMerchant(r)
  BY <1>1 DEF PassGuards, Execute, CallMerchant, Goto, merchantVars
<1>2. CASE Unavailable(r) \/ ClaimFails(r) \/ RecordFails(r) \/ SendResponse(r)
  BY <1>2 DEF Unavailable, ClaimFails, RecordFails, SendResponse, Goto, AnswerAgent, merchantVars
<1>3. CASE NotExecuted(r) \/ FailsBeforeBackend(r) \/ GivesUp(r)
  BY <1>3 DEF NotExecuted, FailsBeforeBackend, GivesUp, Ran, Goto, merchantVars
<1>4. CASE Delivers(r) \/ Refuses(r) \/ RateLimits(r)
  BY <1>4 DEF Delivers, Refuses, RateLimits, Answered, Ran, Goto
<1>5. CASE Claim(r) \/ Record(r)
  BY <1>5 DEF Claim, Record, Goto, merchantVars
<1> QED
  BY <1>1, <1>2, <1>3, <1>4, <1>5, HandlerStep(r) DEF HandlerStep

\* Apart from claim and record, a handler's step neither touches the table nor
\* takes or drops ownership, unless the record fails.
LEMMA HandlerKeepsRow ==
    ASSUME AcpTypeOK, NEW r \in Request, HandlerStep(r), ~Claim(r), ~Record(r)
    PROVE  /\ UNCHANGED <<asked, claims, retired>>
           /\ pc'[r] \in Owning => pc[r] \in Owning
           /\ pc[r] \in Owning => pc'[r] \in Owning \cup {"unrecorded"}
           /\ pc[r] # "unrecorded"
<1> USE DEF AcpTypeOK, Owning
<1>1. CASE PassGuards(r) \/ Execute(r) \/ CallMerchant(r)
  BY <1>1 DEF PassGuards, Execute, CallMerchant, Goto
<1>2. CASE Unavailable(r) \/ ClaimFails(r) \/ RecordFails(r) \/ SendResponse(r)
  BY <1>2 DEF Unavailable, ClaimFails, RecordFails, SendResponse, Goto
<1>3. CASE NotExecuted(r) \/ FailsBeforeBackend(r) \/ GivesUp(r)
  BY <1>3 DEF NotExecuted, FailsBeforeBackend, GivesUp, Ran, Goto
<1>4. CASE Delivers(r) \/ Refuses(r) \/ RateLimits(r)
  BY <1>4 DEF Delivers, Refuses, RateLimits, Answered, Ran, Goto
<1> QED
  BY <1>1, <1>2, <1>3, <1>4 DEF HandlerStep

\* A key that is in flight is not claimed again, and a start finds no owner.
LEMMA OwnedStep == AcpTypeOK /\ RowsOK /\ Owned /\ Quiet /\ [AcpNext]_acpVars => Owned'
<1> SUFFICES ASSUME AcpTypeOK, RowsOK, Owned, Quiet, [AcpNext]_acpVars,
                    NEW q \in Request, pc'[q] \in Owning
             PROVE  /\ claims'[asked'[q].scope].state = "in_flight"
                    /\ claims'[asked'[q].scope].by = q
  BY DEF Owned
<1> DEFINE s == asked[q].scope
<1>1. asked' = asked /\ s \in Scope /\ claims[s] \in Claimed
  BY TableWriters DEF AcpTypeOK
<1>2. pc[q] \in Owning => claims[s].state = "in_flight" /\ claims[s].by = q
  BY DEF Owned
<1>3. CASE UNCHANGED acpVars
  BY <1>1, <1>2, <1>3 DEF acpVars
<1>4. ASSUME NEW r \in Request, Claim(r) PROVE claims'[s].state = "in_flight" /\ claims'[s].by = q
  <2>1. HandlerStep(r)
    BY <1>4 DEF HandlerStep
  <2>2. CASE q = r
    <3>1. pc'[r] # "done"
      BY <2>2 DEF Owning
    <3>2. claims'[s] = [state |-> "in_flight", by |-> r, answer |-> NoRequest, due |-> FALSE]
      BY <1>4, <2>2, <3>1, ClaimRows DEF AcpTypeOK
    <3> QED
      BY <2>2, <3>2
  <2>3. CASE q # r
    <3>1. claims[s].state = "in_flight" /\ claims[s].by = q
      BY <1>2, <2>1, <2>3, HandlerFrame
    <3>2. ~Expired(s)
      BY <3>1 DEF Expired
    <3>3. claims'[s] = claims[s]
      <4>1. CASE s = asked[r].scope
        <5>1. claims[asked[r].scope].state = "in_flight" /\ ~Expired(asked[r].scope)
          BY <3>1, <4>1 DEF Expired
        <5>2. claims'[asked[r].scope] = claims[asked[r].scope]
          BY <1>4, <5>1, ClaimRows
        <5> QED
          BY <4>1, <5>2
      <4>2. CASE s # asked[r].scope
        BY <1>1, <1>4, <3>2, <4>2, ClaimRows
      <4> QED
        BY <4>1, <4>2
    <3> QED
      BY <3>1, <3>3
  <2> QED
    BY <2>2, <2>3
<1>5. ASSUME NEW r \in Request, Record(r) PROVE claims'[s].state = "in_flight" /\ claims'[s].by = q
  <2>1. HandlerStep(r) /\ pc'[r] = "recorded"
    BY <1>5 DEF HandlerStep, Record, Goto, AcpTypeOK
  <2>2. q # r
    BY <2>1 DEF Owning
  <2>3. claims[s].state = "in_flight" /\ claims[s].by = q
    BY <1>2, <2>1, <2>2, HandlerFrame
  <2> QED
    BY <1>1, <1>5, <2>2, <2>3, RecordRows
<1>6. ASSUME NEW r \in Request, HandlerStep(r), ~Claim(r), ~Record(r)
      PROVE  claims'[s].state = "in_flight" /\ claims'[s].by = q
  BY <1>2, <1>6, HandlerFrame, HandlerKeepsRow
<1>7. ASSUME NEW r \in Request, MerchantActs(r)
      PROVE  claims'[s].state = "in_flight" /\ claims'[s].by = q
  BY <1>2, <1>7 DEF MerchantActs, handlerVars
<1>8. ASSUME NEW t \in Scope, Expire(t)
      PROVE  claims'[s].state = "in_flight" /\ claims'[s].by = q
  BY <1>1, <1>2, <1>8 DEF Expire, handlerVars, AcpTypeOK, Claimed
<1>9. CASE Stop \/ Crash
  BY <1>1, <1>2, <1>9 DEF Stop, Crash, AcpTypeOK, Owning, Running
<1>10. ~Start
  BY DEF Start, Quiet, Running
<1> QED
  BY <1>1, <1>3, <1>4, <1>5, <1>6, <1>7, <1>8, <1>9, <1>10 DEF AcpNext

\* Ownership ends with a record that moves the row on, with a failed one, or with
\* the process; the next start leaves nothing in flight.
LEMMA InFlightStep ==
    AcpTypeOK /\ RowsOK /\ Owned /\ InFlightHasHandler /\ [AcpNext]_acpVars => InFlightHasHandler'
<1> SUFFICES ASSUME AcpTypeOK, RowsOK, Owned, InFlightHasHandler, [AcpNext]_acpVars,
                    lifecycle' # "down",
                    NEW s \in Scope, claims'[s].state = "in_flight"
             PROVE  pc'[claims'[s].by] \in Owning \cup {"unrecorded"}
  BY DEF InFlightHasHandler
<1> DEFINE Goal == pc'[claims'[s].by] \in Owning \cup {"unrecorded"}
<1>1. claims[s] \in Claimed
  BY DEF AcpTypeOK
<1>2. claims[s].state = "in_flight" => claims[s].by \in Request
  BY DEF RowsOK
<1>3. lifecycle # "down" /\ claims[s].state = "in_flight" =>
         pc[claims[s].by] \in Owning \cup {"unrecorded"}
  BY DEF InFlightHasHandler
<1>4. CASE UNCHANGED acpVars
  BY <1>3, <1>4 DEF acpVars
<1>5. ASSUME NEW r \in Request, Claim(r) PROVE Goal
  <2>1. HandlerStep(r)
    BY <1>5 DEF HandlerStep
  <2>2. pc[r] = "admitted" /\ lifecycle = "running"
    BY <1>5 DEF Claim
  <2>3. CASE claims'[s] = claims[s]
    <3>1. claims[s].by # r
      BY <1>3, <2>2, <2>3 DEF Owning
    <3> QED
      BY <1>2, <1>3, <2>1, <2>2, <2>3, <3>1, HandlerFrame
  <2>4. CASE claims'[s] # claims[s]
    <3>1. claims'[s] # NoClaim
      BY DEF NoClaim
    <3>2. s = asked[r].scope
      BY <1>5, <2>4, <3>1, ClaimRows
    <3>3. /\ pc' = [pc EXCEPT ![r] = "claimed"]
          /\ claims'[s] = [state |-> "in_flight", by |-> r, answer |-> NoRequest, due |-> FALSE]
      BY <1>5, <2>4, <3>2, ClaimRows
    <3>4. pc'[r] = "claimed" /\ claims'[s].by = r
      BY <3>3 DEF AcpTypeOK
    <3> QED
      BY <3>4 DEF Owning
  <2> QED
    BY <2>3, <2>4
<1>6. ASSUME NEW r \in Request, Record(r) PROVE Goal
  <2>1. HandlerStep(r)
    BY <1>6 DEF HandlerStep
  <2>2. s # asked[r].scope
    BY <1>6, RecordRows DEF NoClaim
  <2>3. claims'[s] = claims[s]
    BY <1>6, <2>2, RecordRows
  <2>4. claims[s].by # r
    BY <1>1, <2>2, <2>3 DEF RowsOK
  <2> QED
    BY <1>2, <1>3, <2>1, <2>3, <2>4, HandlerFrame
<1>7. ASSUME NEW r \in Request, HandlerStep(r), ~Claim(r), ~Record(r) PROVE Goal
  <2>1. claims' = claims /\ lifecycle' = lifecycle
    BY <1>7, HandlerKeepsRow, HandlerFrame
  <2>2. CASE claims[s].by = r
    BY <1>3, <1>7, <2>1, <2>2, HandlerKeepsRow
  <2>3. CASE claims[s].by # r
    BY <1>2, <1>3, <1>7, <2>1, <2>3, HandlerFrame
  <2> QED
    BY <2>2, <2>3
<1>8. ASSUME NEW r \in Request, MerchantActs(r) PROVE Goal
  BY <1>3, <1>8 DEF MerchantActs, handlerVars
<1>9. ASSUME NEW t \in Scope, Expire(t) PROVE Goal
  BY <1>1, <1>3, <1>9 DEF Expire, handlerVars, AcpTypeOK, Claimed
<1>10. CASE Stop
  BY <1>3, <1>10 DEF Stop
<1>11. ~Crash
  BY DEF Crash
<1>12. ~Start
  BY <1>1 DEF Start, Recovered, NoClaim, Claimed
<1> QED
  BY <1>4, <1>5, <1>6, <1>7, <1>8, <1>9, <1>10, <1>11, <1>12 DEF AcpNext

\* A claim leaves every row that neither is free nor has expired.
LEMMA ClaimKeepsRow ==
    ASSUME AcpTypeOK, RowsOK, NEW r \in Request, Claim(r),
           NEW s \in Scope, claims[s].state # "absent", ~Expired(s)
    PROVE  claims'[s] = claims[s]
<1>1. CASE s = asked[r].scope
  <2>1. claims[asked[r].scope].state # "absent" /\ ~Expired(asked[r].scope)
    BY <1>1
  <2>2. claims'[asked[r].scope] = claims[asked[r].scope]
    BY <2>1, ClaimRows
  <2> QED
    BY <1>1, <2>2
<1>2. CASE s # asked[r].scope
  BY <1>2, ClaimRows
<1> QED
  BY <1>1, <1>2

\* Retired answers stay retired.
LEMMA RetiredGrows == ASSUME AcpTypeOK, RowsOK, [AcpNext]_acpVars PROVE retired \subseteq retired'
<1>1. ASSUME NEW r \in Request, Claim(r) PROVE retired \subseteq retired'
  BY <1>1, ClaimRows
<1>2. ASSUME NEW r \in Request, Record(r) PROVE retired' = retired
  BY <1>2 DEF Record
<1>3. ASSUME (\E s \in Scope : Expire(s)) \/ Start PROVE retired' = retired
  BY <1>3 DEF Expire, Start
<1> QED
  BY <1>1, <1>2, <1>3, TableWriters

\* A stored answer stays in its row until it is retired.
LEMMA StoredAnswerStays ==
    ASSUME AcpTypeOK, RowsOK, Owned, [AcpNext]_acpVars,
           NEW s \in Scope, claims[s].state = "completed", claims[s].answer \notin retired'
    PROVE  claims'[s].state = "completed" /\ claims'[s].answer = claims[s].answer
<1>1. claims[s].answer = claims[s].by /\ claims[s] \in Claimed
  BY DEF RowsOK, AcpTypeOK
<1>2. ASSUME NEW r \in Request, Claim(r) PROVE claims'[s] = claims[s]
  <2>1. ~Expired(s)
    BY <1>1, <1>2, ClaimRows
  <2> QED
    BY <1>2, <2>1, ClaimKeepsRow
<1>3. ASSUME NEW r \in Request, Record(r) PROVE claims'[s] = claims[s]
  BY <1>3, RecordRows
<1>4. ASSUME NEW t \in Scope, Expire(t)
      PROVE  claims'[s].state = "completed" /\ claims'[s].answer = claims[s].answer
  BY <1>1, <1>4 DEF Expire, AcpTypeOK, Claimed
<1>5. CASE Start
  BY <1>5 DEF Start, Recovered
<1> QED
  BY <1>2, <1>3, <1>4, <1>5, TableWriters

\* The merchant acts only on a call, a call is made once, and a 5xx that is
\* reported as not reached left the merchant alone.
LEMMA UntouchedStep == AcpTypeOK /\ Untouched /\ [AcpNext]_acpVars => Untouched'
<1> SUFFICES ASSUME AcpTypeOK, Untouched, [AcpNext]_acpVars PROVE Untouched'
  OBVIOUS
<1>1. CASE UNCHANGED acpVars
  BY <1>1 DEF acpVars, Untouched
<1>2. ASSUME NEW r \in Request, HandlerStep(r) PROVE Untouched'
  <2> DEFINE Fine(q, p, o, c, a) ==
        /\ q \in a => c # "none"
        /\ p \in {"new", "admitted", "claimed", "executing"} => c = "none"
        /\ p = "ran" /\ o.status = "failed" /\ o.reached = "no" => c # "open" /\ q \notin a
  <2>1. \A q \in Request : Fine(q, pc[q], outcome[q], calls[q], acted)
    BY DEF Untouched
  <2>2. acted' = acted /\ \A q \in Request \ {r} :
           Fine(q, pc'[q], outcome'[q], calls'[q], acted')
    BY <1>2, <2>1, HandlerFrame
  <2> USE DEF AcpTypeOK
  <2>3. CASE PassGuards(r) \/ Execute(r) \/ CallMerchant(r)
    <3>1. Fine(r, pc'[r], outcome'[r], calls'[r], acted)
      BY <2>1, <2>3 DEF PassGuards, Execute, CallMerchant, Goto, merchantVars
    <3> QED
      BY <2>2, <3>1 DEF Untouched
  <2>4. CASE Unavailable(r) \/ ClaimFails(r) \/ RecordFails(r) \/ SendResponse(r) \/ Record(r)
    <3>1. Fine(r, pc'[r], outcome'[r], calls'[r], acted)
      BY <2>1, <2>4
         DEF Unavailable, ClaimFails, RecordFails, SendResponse, Record, Goto, merchantVars
    <3> QED
      BY <2>2, <3>1 DEF Untouched
  <2>5. CASE NotExecuted(r) \/ FailsBeforeBackend(r) \/ GivesUp(r)
    <3>1. Fine(r, pc'[r], outcome'[r], calls'[r], acted)
      BY <2>1, <2>5 DEF NotExecuted, FailsBeforeBackend, GivesUp, Ran, Goto, merchantVars
    <3> QED
      BY <2>2, <3>1 DEF Untouched
  <2>6. CASE Delivers(r) \/ Refuses(r) \/ RateLimits(r)
    <3>1. Fine(r, pc'[r], outcome'[r], calls'[r], acted)
      BY <2>1, <2>6 DEF Delivers, Refuses, RateLimits, Answered, Ran, Goto
    <3> QED
      BY <2>2, <3>1 DEF Untouched
  <2>7. CASE Claim(r)
    <3>1. pc'[r] \in {"claimed", "done"} /\ calls' = calls /\ outcome' = outcome
          /\ pc[r] = "admitted"
      BY <2>7 DEF Claim, Goto, merchantVars
    <3>2. Fine(r, pc'[r], outcome'[r], calls'[r], acted)
      BY <2>1, <3>1
    <3> QED
      BY <2>2, <3>2 DEF Untouched
  <2> QED
    BY <1>2, <2>3, <2>4, <2>5, <2>6, <2>7 DEF HandlerStep
<1>3. ASSUME NEW r \in Request, MerchantActs(r) PROVE Untouched'
  BY <1>3 DEF MerchantActs, Untouched, handlerVars
<1>4. ASSUME NEW s \in Scope, Expire(s) PROVE Untouched'
  BY <1>4 DEF Expire, Untouched, handlerVars, merchantVars
<1>5. CASE Stop \/ Start
  BY <1>5 DEF Stop, Start, Untouched, merchantVars
<1>6. CASE Crash
  BY <1>6 DEF Crash, Untouched, merchantVars, AcpTypeOK, Running, Owning
<1> QED
  BY <1>1, <1>2, <1>3, <1>4, <1>5, <1>6 DEF AcpNext

\* The row of a request that the merchant acted on, or may act on, is dropped only
\* by the sweep of its answer.
LEMMA KeptStep ==
    AcpTypeOK /\ RowsOK /\ Owned /\ Untouched /\ Kept /\ [AcpNext]_acpVars => Kept'
<1> SUFFICES ASSUME AcpTypeOK, RowsOK, Owned, Untouched, Kept, [AcpNext]_acpVars,
                    ~MerchantIdempotent,
                    NEW q \in Request, q \in acted' \/ calls'[q] = "open", q \notin retired'
             PROVE  claims'[asked'[q].scope].by = q
  BY DEF Kept
<1> DEFINE s == asked[q].scope
<1>1. asked' = asked /\ s \in Scope /\ claims[s] \in Claimed /\ q \notin retired
  BY TableWriters, RetiredGrows DEF AcpTypeOK
<1>2. ASSUME q \in acted \/ calls[q] = "open" PROVE claims'[s].by = q
  <2>1. claims[s].by = q
    BY <1>1, <1>2 DEF Kept
  <2>2. claims[s].state # "absent"
    BY <1>1, <2>1, RequestConstants DEF RowsOK
  <2>3. ASSUME NEW r \in Request, Claim(r) PROVE claims'[s].by = q
    <3>1. ~Expired(s)
      BY <1>1, <2>1, <2>3, ClaimRows
    <3> QED
      BY <1>1, <2>1, <2>2, <2>3, <3>1, ClaimKeepsRow
  <2>4. ASSUME NEW r \in Request, Record(r) PROVE claims'[s].by = q
    <3>1. CASE s = asked[r].scope
      <4>1. q = r
        BY <2>1, <2>4, <3>1, RecordRows
      <4>2. ~(outcome[r].status = "failed" /\ outcome[r].reached = "no")
        BY <1>2, <2>4, <4>1 DEF Untouched, Record
      <4> QED
        BY <2>4, <3>1, <4>1, <4>2, RecordRows
    <3>2. CASE s # asked[r].scope
      BY <1>1, <2>1, <2>4, <3>2, RecordRows
    <3> QED
      BY <3>1, <3>2
  <2>5. ASSUME NEW t \in Scope, Expire(t) PROVE claims'[s].by = q
    BY <1>1, <2>1, <2>5 DEF Expire, AcpTypeOK, Claimed
  <2>6. CASE Start
    BY <1>1, <2>1, <2>6 DEF Start, Recovered, Claimed
  <2> QED
    BY <2>1, <2>3, <2>4, <2>5, <2>6, TableWriters
<1>3. ASSUME q \notin acted, calls[q] # "open" PROVE claims'[s].by = q
  <2>1. ASSUME NEW r \in Request, HandlerStep(r) PROVE CallMerchant(q)
    <3>1. r = q /\ calls'[q] = "open"
      BY <1>3, <2>1, HandlerFrame
    <3>2. ~(Delivers(q) \/ Refuses(q) \/ RateLimits(q))
      BY <3>1 DEF Delivers, Refuses, RateLimits, Answered, AcpTypeOK
    <3>3. calls' = calls \/ CallMerchant(q) \/ Delivers(q) \/ Refuses(q) \/ RateLimits(q)
      BY <2>1, <3>1 DEF HandlerStep, PassGuards, Unavailable, Claim, ClaimFails, NotExecuted,
         Execute, FailsBeforeBackend, GivesUp, Record, RecordFails, SendResponse, merchantVars
    <3> QED
      BY <1>3, <3>1, <3>2, <3>3
  <2>2. ~\E r \in Request : MerchantActs(r)
    BY <1>3 DEF MerchantActs, AcpTypeOK
  <2>3. ~(UNCHANGED acpVars \/ (\E t \in Scope : Expire(t)) \/ Stop \/ Crash \/ Start)
    BY <1>3 DEF acpVars, Expire, Stop, Crash, Start, merchantVars
  <2>4. CallMerchant(q)
    BY <2>1, <2>2, <2>3 DEF AcpNext
  <2> QED
    BY <2>4 DEF CallMerchant, Owned, Owning
<1> QED
  BY <1>1, <1>2, <1>3

\* What an agent is told is, at that moment, the answer in the row of its key.
LEMMA AnswersStep == AcpTypeOK /\ RowsOK /\ Owned /\ AnswersOK /\ [AcpNext]_acpVars => AnswersOK'
<1> SUFFICES ASSUME AcpTypeOK, RowsOK, Owned, AnswersOK, [AcpNext]_acpVars, NEW q \in Request
             PROVE  /\ replied'[q].kind = "answer" =>
                          /\ replied'[q].of \in Request
                          /\ asked'[replied'[q].of] = asked'[q]
                          /\ replied'[q].of \notin retired' =>
                                /\ claims'[asked'[q].scope].state = "completed"
                                /\ claims'[asked'[q].scope].answer = replied'[q].of
                    /\ pc'[q] = "recorded" /\ outcome'[q].status = "answer" /\ q \notin retired' =>
                          /\ claims'[asked'[q].scope].state = "completed"
                          /\ claims'[asked'[q].scope].answer = q
  BY DEF AnswersOK
<1> DEFINE s == asked[q].scope
           Stored(o) == o \notin retired' =>
                          claims'[s].state = "completed" /\ claims'[s].answer = o
           Told == replied'[q].kind = "answer" =>
                     replied'[q].of \in Request /\ asked[replied'[q].of] = asked[q] /\ Stored(replied'[q].of)
           Recorded == pc'[q] = "recorded" /\ outcome'[q].status = "answer" => Stored(q)
<1>1. asked' = asked /\ s \in Scope /\ retired \subseteq retired'
  BY TableWriters, RetiredGrows DEF AcpTypeOK
<1>2. replied[q].kind = "answer" =>
        replied[q].of \in Request /\ asked[replied[q].of] = asked[q] /\ Stored(replied[q].of)
  BY <1>1, StoredAnswerStays DEF AnswersOK
<1>3. pc[q] = "recorded" /\ outcome[q].status = "answer" => Stored(q)
  BY <1>1, StoredAnswerStays DEF AnswersOK
<1>4. replied'[q] = replied[q] => Told
  BY <1>2
<1>5. ASSUME NEW r \in Request, HandlerStep(r) PROVE Told /\ Recorded
  <2>1. CASE r # q
    BY <1>3, <1>4, <1>5, <2>1, HandlerFrame
  <2>2. CASE Claim(q)
    <3>1. pc'[q] # "recorded"
      BY <2>2 DEF Claim, Goto, AcpTypeOK
    <3>2. CASE replied' = replied
      BY <1>4, <3>1, <3>2
    <3>3. CASE replied' # replied
      <4>1. /\ claims[s].state # "absent"
            /\ claims'[s] = claims[s]
            /\ replied'[q] = Found(claims[s], q)
        BY <2>2, <3>3, ClaimRows DEF AcpTypeOK
      <4>2. SUFFICES ASSUME replied'[q].kind = "answer" PROVE Told
        BY <3>1
      <4>3. /\ replied'[q].of = claims[s].answer
            /\ claims[s].state = "completed"
            /\ asked[claims[s].by].body = asked[q].body
        BY <1>1, <4>1, <4>2 DEF Found, AcpTypeOK, Claimed
      <4>4. claims[s].answer \in Request /\ asked[claims[s].answer].scope = s
            /\ claims[s].answer = claims[s].by
        BY <1>1, <4>1, <4>3 DEF RowsOK
      <4>5. asked[claims[s].answer] = asked[q]
        BY <4>3, <4>4 DEF AcpTypeOK
      <4> QED
        BY <4>1, <4>3, <4>4, <4>5
    <3> QED
      BY <3>2, <3>3
  <2>3. CASE Record(q)
    <3>1. replied' = replied /\ outcome' = outcome
      BY <2>3 DEF Record
    <3>2. outcome[q].status = "answer" => claims'[s].state = "completed" /\ claims'[s].answer = q
      BY <2>3, RecordRows
    <3> QED
      BY <1>4, <3>1, <3>2
  <2>4. CASE SendResponse(q)
    <3>1. /\ pc[q] = "recorded" /\ pc'[q] = "done"
          /\ replied'[q] = [kind |-> IF outcome[q].status = "answer" THEN "answer" ELSE "failed", of |-> q]
      BY <2>4 DEF SendResponse, Goto, AnswerAgent, AcpTypeOK
    <3> QED
      BY <1>3, <3>1
  <2>5. CASE Unavailable(q) \/ ClaimFails(q) \/ RecordFails(q)
    <3>1. pc'[q] # "recorded" /\ replied'[q].kind = "failed"
      BY <2>5 DEF Unavailable, ClaimFails, RecordFails, Goto, AnswerAgent, AcpTypeOK
    <3> QED
      BY <3>1
  <2>6. CASE PassGuards(q) \/ Execute(q) \/ CallMerchant(q)
    <3>1. pc'[q] # "recorded" /\ replied' = replied
      BY <2>6 DEF PassGuards, Execute, CallMerchant, Goto, AcpTypeOK
    <3> QED
      BY <1>4, <3>1
  <2>7. CASE NotExecuted(q) \/ FailsBeforeBackend(q) \/ GivesUp(q)
             \/ Delivers(q) \/ Refuses(q) \/ RateLimits(q)
    <3>1. pc'[q] # "recorded" /\ replied' = replied
      BY <2>7 DEF NotExecuted, FailsBeforeBackend, GivesUp, Delivers, Refuses, RateLimits,
         Answered, Ran, Goto, AcpTypeOK
    <3> QED
      BY <1>4, <3>1
  <2> QED
    BY <1>5, <2>1, <2>2, <2>3, <2>4, <2>5, <2>6, <2>7 DEF HandlerStep
<1>6. ASSUME NEW r \in Request, MerchantActs(r) PROVE Told /\ Recorded
  BY <1>3, <1>4, <1>6 DEF MerchantActs, handlerVars
<1>7. ASSUME NEW t \in Scope, Expire(t) PROVE Told /\ Recorded
  BY <1>3, <1>4, <1>7 DEF Expire, handlerVars
<1>8. ASSUME UNCHANGED acpVars \/ Stop \/ Start PROVE Told /\ Recorded
  BY <1>3, <1>4, <1>8 DEF acpVars, Stop, Start
<1>9. ASSUME Crash PROVE Told /\ Recorded
  <2>1. replied' = replied /\ pc'[q] # "recorded"
    BY <1>9 DEF Crash, Running, AcpTypeOK
  <2> QED
    BY <1>4, <2>1
<1>10. Told /\ Recorded
  BY <1>5, <1>6, <1>7, <1>8, <1>9 DEF AcpNext
<1> QED
  BY <1>1, <1>10

\* A merchant without deduplication acts on the owner of a row only; one with it
\* acts once per derived key.
LEMMA OneEffectStep ==
    AcpTypeOK /\ RowsOK /\ OneEffectPerKey /\ AcpTypeOK' /\ Kept' /\ [AcpNext]_acpVars
        => OneEffectPerKey'
<1> SUFFICES ASSUME AcpTypeOK, RowsOK, OneEffectPerKey, AcpTypeOK', Kept', [AcpNext]_acpVars,
                    NEW q \in acted', NEW r \in acted',
                    asked'[q].scope = asked'[r].scope, q # r,
                    q \notin retired', r \notin retired'
             PROVE  FALSE
  BY DEF OneEffectPerKey
<1>1. q \in Request /\ r \in Request /\ asked' = asked /\ retired \subseteq retired'
  BY TableWriters, RetiredGrows DEF AcpTypeOK
<1>2. CASE ~MerchantIdempotent
  BY <1>1, <1>2 DEF Kept
<1>3. CASE MerchantIdempotent
  <2>1. ASSUME NEW p \in Request, MerchantActs(p) PROVE FALSE
    <3>1. acted' = acted \cup {p} /\ ~Performed(p)
      BY <2>1 DEF MerchantActs
    <3>2. \A o \in acted : asked[o].scope # asked[p].scope
      BY <1>3, <3>1 DEF Performed
    <3> QED
      BY <1>1, <3>1, <3>2 DEF OneEffectPerKey
  <2>2. ASSUME acted' = acted PROVE FALSE
    BY <1>1, <2>2 DEF OneEffectPerKey
  <2>3. (\E p \in Request : MerchantActs(p)) \/ acted' = acted
    BY HandlerFrame DEF AcpNext, acpVars, Expire, Stop, Crash, Start, merchantVars
  <2> QED
    BY <2>1, <2>2, <2>3
<1> QED
  BY <1>2, <1>3

-----------------------------------------------------------------------------
\* The inductive invariant holds of every behaviour of the adapter.
THEOREM AcpInvariance == AcpSpec => []AcpInv
<1>1. AcpInit => AcpInv
  <2> SUFFICES ASSUME AcpInit PROVE AcpInv
    OBVIOUS
  <2>1. AcpTypeOK
    BY AcpConstants DEF AcpInit, AcpTypeOK, Claimed, NoClaim, Outcome, Reply, Pc, Running, Owning
  <2>2. RowsOK /\ Owned /\ Quiet /\ InFlightHasHandler
    BY <2>1 DEF AcpInit, RowsOK, Owned, Quiet, InFlightHasHandler, NoClaim, Owning
  <2>3. Untouched /\ Kept /\ AnswersOK /\ OneEffectPerKey
    BY <2>1 DEF AcpInit, Untouched, Kept, AnswersOK, OneEffectPerKey
  <2> QED
    BY <2>1, <2>2, <2>3 DEF AcpInv
<1>2. AcpInv /\ [AcpNext]_acpVars => AcpInv'
  BY AcpTypeStep, RowsStep, OwnedStep, QuietStep, UntouchedStep, KeptStep, AnswersStep,
     InFlightStep, OneEffectStep DEF AcpInv
<1> QED
  BY <1>1, <1>2, PTL DEF AcpSpec

\* The table and the handlers keep their types (storage/receipts/schema.ts
\* idempotency_keys).
THEOREM AcpTypeCorrect == AcpSpec => []AcpTypeOK
BY AcpInvariance, PTL DEF AcpInv

\* No retry, late call or crash makes the merchant act twice under a key whose
\* answer has not expired (adapter.ts dispatch, recoverIdempotencyKeys).
THEOREM OneEffect == AcpSpec => []OneEffectPerKey
BY AcpInvariance, PTL DEF AcpInv

\* Agents that are answered under one key get one run's answer to one body
\* (claimIdempotencyKey's replay, dispatch's complete).
THEOREM OneAnswer == AcpSpec => []OneAnswerPerKey
<1>1. AcpInv => OneAnswerPerKey
  <2> SUFFICES ASSUME AcpInv, NEW q \in Request, NEW r \in Request,
                      replied[q].kind = "answer", replied[q].of \notin retired,
                      replied[r].kind = "answer", replied[r].of \notin retired,
                      asked[q].scope = asked[r].scope
               PROVE  replied[q].of = replied[r].of /\ asked[q].body = asked[r].body
    BY DEF OneAnswerPerKey
  <2>1. replied[q].of = claims[asked[q].scope].answer /\ asked[replied[q].of] = asked[q]
    BY DEF AcpInv, AnswersOK
  <2>2. replied[r].of = claims[asked[r].scope].answer /\ asked[replied[r].of] = asked[r]
    BY DEF AcpInv, AnswersOK
  <2> QED
    BY <2>1, <2>2
<1> QED
  BY <1>1, AcpInvariance, PTL

\* A running gateway answers "in flight" only for a request that is being handled
\* or whose outcome could not be written (recoverIdempotencyKeys at start).
THEOREM InFlightIsHandled == AcpSpec => []InFlightHasHandler
BY AcpInvariance, PTL DEF AcpInv

\* An unresolved row stays unresolved: updates go by key alone, but only the owner
\* of a row in flight makes one (updateIdempotencyKey).
THEOREM UnresolvedStays == AcpSpec => UnresolvedIsKept
<1> DEFINE Keeps == \A s \in Scope :
                      claims[s].state = "unresolved" => claims'[s].state = "unresolved"
<1>1. AcpInv /\ [AcpNext]_acpVars => [Keeps]_acpVars
  <2> SUFFICES ASSUME AcpInv, [AcpNext]_acpVars, NEW s \in Scope, claims[s].state = "unresolved"
               PROVE  claims'[s].state = "unresolved"
    OBVIOUS
  <2> USE DEF AcpInv
  <2>1. ASSUME NEW r \in Request, Claim(r) PROVE claims'[s] = claims[s]
    <3>1. ~Expired(s)
      BY DEF Expired
    <3> QED
      BY <2>1, <3>1, ClaimKeepsRow
  <2>2. ASSUME NEW r \in Request, Record(r) PROVE claims'[s] = claims[s]
    BY <2>2, RecordRows
  <2>3. ASSUME NEW t \in Scope, Expire(t) PROVE claims'[s].state = "unresolved"
    BY <2>3 DEF Expire, AcpTypeOK, Claimed
  <2>4. CASE Start
    BY <2>4 DEF Start, Recovered
  <2> QED
    BY <2>1, <2>2, <2>3, <2>4, TableWriters
<1> QED
  BY <1>1, AcpInvariance, PTL DEF AcpSpec, UnresolvedIsKept
=============================================================================
