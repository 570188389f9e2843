---------------------------- MODULE GatewayProofs ----------------------------
(***************************************************************************)
(* The gateway process, the surfaces and the readiness route keep their    *)
(* promises for any requests, calls, caps, offers, windows and number of   *)
(* proofs.  Each of the three has its own inductive invariant.             *)
(***************************************************************************)
EXTENDS GatewayProcess, Surfaces, Readiness, FiniteSetTheorems, TLAPS

-----------------------------------------------------------------------------
(* The process: permits, waiters and the mount's places.                   *)

HoldingCalls == {c \in Call : Mcp(c) /\ at[c] \in Holding}
Mounted == {q \in OverMcp : stage[q] \in {"reading", "calling"}}

GatewayTypeOK ==
    /\ link \in [Conn -> {"none", "open", "over", "gone"}]
    /\ stage \in [Conn -> {"none", "reading", "calling", "done"}]
    /\ inFlight \in Nat
    /\ at \in [Call -> {"none", "queued", "granted", "executing"} \union Final]
    /\ permits \in Nat
    /\ waiters \in Seq(Call)

\* The queue holds tool calls that wait, each at one place.
QueueOK ==
    /\ \A i \in 1..Len(waiters) : Mcp(waiters[i]) /\ at[waiters[i]] = "queued"
    /\ \A i, j \in 1..Len(waiters) : waiters[i] = waiters[j] => i = j

\* Only tool calls are handed permits.
PermitsAreTools == \A c \in Call : at[c] = "granted" => Mcp(c)

\* A request that was not accepted has no handler.
UnopenedIsIdle == \A q \in Conn : link[q] = "none" => stage[q] = "none"

SlotsInv ==
    /\ GatewayTypeOK
    /\ QueueOK
    /\ PermitsAreTools
    /\ UnopenedIsIdle
    /\ IsFiniteSet(HoldingCalls)
    /\ IsFiniteSet(Mounted)
    /\ SlotsAreAccounted

\* Entering or leaving a set changes a count by one (the gateway's counters are
\* kept beside the requests and calls that they count).
LEMMA CountChanges ==
    ASSUME NEW S, NEW x, IsFiniteSet(S)
    PROVE  /\ IsFiniteSet(S \union {x}) /\ IsFiniteSet(S \ {x})
           /\ Cardinality(S) \in Nat
           /\ x \notin S => Cardinality(S \union {x}) = Cardinality(S) + 1
           /\ x \in S => Cardinality(S \ {x}) = Cardinality(S) - 1
  BY FS_AddElement, FS_RemoveElement, FS_CardinalityType

\* A permit that changes hands leaves the count as it was.
LEMMA CountHandedOn ==
    ASSUME NEW S, NEW x, NEW y, IsFiniteSet(S), x \in S, y \notin S
    PROVE  /\ IsFiniteSet((S \ {x}) \union {y})
           /\ Cardinality((S \ {x}) \union {y}) = Cardinality(S)
  <1>1. IsFiniteSet(S \ {x}) /\ Cardinality(S \ {x}) = Cardinality(S) - 1 /\ Cardinality(S) \in Nat
    BY CountChanges
  <1>2. y \notin S \ {x}
    OBVIOUS
  <1>3. /\ IsFiniteSet((S \ {x}) \union {y})
        /\ Cardinality((S \ {x}) \union {y}) = Cardinality(S \ {x}) + 1
    BY <1>1, <1>2, CountChanges
  <1> QED BY <1>1, <1>3

\* No slot and no permit is taken at first.
LEMMA GatewayStarts == GatewayInit => SlotsInv
  <1> SUFFICES ASSUME GatewayInit PROVE SlotsInv
    OBVIOUS
  <1> USE GatewayConstants DEF GatewayInit
  <1>1. GatewayTypeOK /\ QueueOK /\ PermitsAreTools /\ UnopenedIsIdle
    BY DEF GatewayTypeOK, QueueOK, PermitsAreTools, UnopenedIsIdle
  <1>2. HoldingCalls = {} /\ Mounted = {}
    BY DEF HoldingCalls, Holding, Mounted
  <1>3. Cardinality(HoldingCalls) = 0 /\ Cardinality(Mounted) = 0
    BY <1>2, FS_EmptySet
  <1>4. SlotsAreAccounted
    BY <1>3 DEF SlotsAreAccounted, HoldingCalls, Mounted
  <1> QED BY <1>1, <1>2, <1>4, FS_EmptySet DEF SlotsInv

\* Every call whose permit is returned (Proceed, Finish) keeps the accounts.
LEMMA ReleaseKeepsSlots ==
    ASSUME SlotsInv, NEW c \in Call, Mcp(c), at[c] \in Holding,
           NEW to \in Final, Released(c, to), UNCHANGED requestVars
    PROVE  SlotsInv'
  <1> USE GatewayConstants DEF Holding, Final
  <1> USE DEF SlotsInv
  <1>0. UnopenedIsIdle' /\ Mounted' = Mounted /\ inFlight' = inFlight
    BY DEF UnopenedIsIdle, Mounted, requestVars
  <1>1. CASE waiters # <<>>
    <2> DEFINE h == Head(waiters)
    <2>1. /\ Len(waiters) \in Nat \ {0} /\ h = waiters[1] /\ h \in Call
          /\ Mcp(h) /\ at[h] = "queued" /\ h # c
      BY <1>1 DEF GatewayTypeOK, QueueOK
    <2>2. /\ at' = [at EXCEPT ![c] = to, ![h] = "granted"]
          /\ waiters' = Tail(waiters) /\ permits' = permits
      BY <1>1 DEF Released
    <2> HIDE DEF h
    <2>3. \A d \in Call : at'[d] = IF d = h THEN "granted" ELSE IF d = c THEN to ELSE at[d]
      BY <2>1, <2>2 DEF GatewayTypeOK
    <2>4. GatewayTypeOK'
      <3>1. at' \in [Call -> {"none", "queued", "granted", "executing"} \union Final]
        BY <2>2 DEF GatewayTypeOK
      <3>2. waiters' \in Seq(Call)
        BY <1>1, <2>2 DEF GatewayTypeOK
      <3> QED BY <2>2, <3>1, <3>2 DEF GatewayTypeOK, requestVars
    <2>5. /\ Len(waiters') = Len(waiters) - 1
          /\ \A i \in 1..Len(waiters') : waiters'[i] = waiters[i + 1] /\ i + 1 \in 1..Len(waiters)
      BY <1>1, <2>1, <2>2 DEF GatewayTypeOK
    <2>6. QueueOK'
      <3>1. ASSUME NEW i \in 1..Len(waiters')
            PROVE  Mcp(waiters'[i]) /\ at'[waiters'[i]] = "queued"
        <4>1. /\ waiters'[i] = waiters[i + 1] /\ i + 1 \in 1..Len(waiters) /\ 1 \in 1..Len(waiters)
              /\ i + 1 # 1
          BY <2>1, <2>5
        <4>2. waiters[i + 1] # h /\ at[waiters[i + 1]] = "queued" /\ Mcp(waiters[i + 1])
          BY <4>1, <2>1 DEF QueueOK
        <4>3. waiters[i + 1] \in Call /\ waiters[i + 1] # c
          BY <4>1, <4>2 DEF GatewayTypeOK
        <4> QED BY <4>1, <4>2, <4>3, <2>3
      <3>2. ASSUME NEW i \in 1..Len(waiters'), NEW j \in 1..Len(waiters'), waiters'[i] = waiters'[j]
            PROVE  i = j
        <4>1. waiters[i + 1] = waiters[j + 1] /\ i + 1 \in 1..Len(waiters) /\ j + 1 \in 1..Len(waiters)
          BY <3>2, <2>5
        <4>2. i + 1 = j + 1
          BY <4>1 DEF QueueOK
        <4> QED BY <4>2
      <3> QED BY <3>1, <3>2 DEF QueueOK, Mcp
    <2>7. HoldingCalls' = (HoldingCalls \ {c}) \union {h} /\ c \in HoldingCalls /\ h \notin HoldingCalls
      BY <2>1, <2>3 DEF HoldingCalls, Mcp
    <2>8. IsFiniteSet(HoldingCalls') /\ Cardinality(HoldingCalls') = Cardinality(HoldingCalls)
      BY <2>7, CountHandedOn
    <2>9. SlotsAreAccounted'
      BY <1>0, <1>1, <2>2, <2>8 DEF SlotsAreAccounted, HoldingCalls, Mounted
    <2>10. PermitsAreTools'
      BY <2>1, <2>3 DEF PermitsAreTools, Mcp
    <2> QED BY <1>0, <2>4, <2>6, <2>8, <2>9, <2>10
  <1>2. CASE waiters = <<>>
    <2>1. at' = [at EXCEPT ![c] = to] /\ permits' = permits - 1 /\ waiters' = waiters
      BY <1>2 DEF Released
    <2>2. HoldingCalls' = HoldingCalls \ {c} /\ c \in HoldingCalls
      BY <2>1 DEF HoldingCalls, Mcp, GatewayTypeOK
    <2>3. /\ IsFiniteSet(HoldingCalls') /\ Cardinality(HoldingCalls') = Cardinality(HoldingCalls) - 1
          /\ Cardinality(HoldingCalls') \in Nat
      BY <2>2, CountChanges
    <2>4. permits' = Cardinality(HoldingCalls') /\ permits' <= CallCap
      <3>1. permits = Cardinality(HoldingCalls) /\ permits <= CallCap /\ permits \in Nat
        BY DEF SlotsAreAccounted, HoldingCalls, GatewayTypeOK
      <3> QED BY <2>1, <2>3, <3>1
    <2>5. SlotsAreAccounted'
      BY <1>0, <1>2, <2>1, <2>4 DEF SlotsAreAccounted, HoldingCalls, Mounted
    <2>6. GatewayTypeOK'
      BY <2>1, <2>3, <2>4 DEF GatewayTypeOK, requestVars
    <2>7. QueueOK'
      BY <1>2, <2>1 DEF QueueOK
    <2>8. PermitsAreTools'
      BY <2>1 DEF PermitsAreTools, Mcp, GatewayTypeOK
    <2> QED BY <1>0, <2>3, <2>5, <2>6, <2>7, <2>8
  <1> QED BY <1>1, <1>2

\* A call of acquireToolCallSlot, granted, queued or refused, keeps the accounts.
LEMMA AcquireKeepsSlots ==
    ASSUME SlotsInv, NEW c \in Call, Mcp(c), at[c] = "none", Acquire(c), UNCHANGED requestVars
    PROVE  SlotsInv'
  <1> USE GatewayConstants DEF Holding, Final
  <1> USE DEF SlotsInv
  <1>0. UnopenedIsIdle' /\ Mounted' = Mounted /\ inFlight' = inFlight
    BY DEF UnopenedIsIdle, Mounted, requestVars
  <1>a. /\ permits = Cardinality(HoldingCalls) /\ permits <= CallCap /\ permits \in Nat
        /\ waiters # <<>> => permits = CallCap
    BY DEF SlotsAreAccounted, HoldingCalls, GatewayTypeOK
  <1>b. \A i \in 1..Len(waiters) : waiters[i] \in Call /\ waiters[i] # c
    BY DEF GatewayTypeOK, QueueOK
  <1>c. PermitsAreTools'
    BY DEF Acquire, PermitsAreTools, Mcp, GatewayTypeOK
  <1>1. CASE permits < CallCap /\ permits' = permits + 1 /\ at' = [at EXCEPT ![c] = "granted"]
             /\ UNCHANGED waiters
    <2>1. HoldingCalls' = HoldingCalls \union {c} /\ c \notin HoldingCalls
      BY <1>1 DEF HoldingCalls, Mcp, GatewayTypeOK
    <2>2. IsFiniteSet(HoldingCalls') /\ permits' = Cardinality(HoldingCalls')
      BY <1>a, <1>1, <2>1, CountChanges
    <2>3. permits' <= CallCap /\ waiters' = <<>>
      BY <1>a, <1>1
    <2>4. SlotsAreAccounted'
      BY <1>0, <2>2, <2>3 DEF SlotsAreAccounted, HoldingCalls, Mounted
    <2>5. GatewayTypeOK'
      BY <1>1 DEF GatewayTypeOK, requestVars
    <2>6. QueueOK'
      BY <2>3 DEF QueueOK
    <2> QED BY <1>0, <1>c, <2>2, <2>4, <2>5, <2>6
  <1>2. CASE permits >= CallCap /\ waiters' = Append(waiters, c)
             /\ at' = [at EXCEPT ![c] = "queued"] /\ UNCHANGED permits
    <2>1. HoldingCalls' = HoldingCalls
      BY <1>2 DEF HoldingCalls, Mcp, GatewayTypeOK
    <2>2. permits = CallCap
      BY <1>a, <1>2
    <2>3. SlotsAreAccounted'
      BY <1>0, <1>a, <1>2, <2>1, <2>2 DEF SlotsAreAccounted, HoldingCalls, Mounted
    <2>9. GatewayTypeOK'
      BY <1>2 DEF GatewayTypeOK, requestVars
    <2>4. /\ Len(waiters') = Len(waiters) + 1 /\ waiters'[Len(waiters) + 1] = c
          /\ \A i \in 1..Len(waiters) : waiters'[i] = waiters[i]
          /\ Len(waiters) \in Nat
      BY <1>2 DEF GatewayTypeOK
    <2>5. \A d \in Call : at'[d] = IF d = c THEN "queued" ELSE at[d]
      BY <1>2 DEF GatewayTypeOK
    <2>6. ASSUME NEW i \in 1..Len(waiters')
          PROVE  Mcp(waiters'[i]) /\ at'[waiters'[i]] = "queued"
      <3>1. CASE i = Len(waiters) + 1
        BY <3>1, <2>4, <2>5
      <3>2. CASE i \in 1..Len(waiters)
        BY <3>2, <2>4, <2>5, <1>b DEF QueueOK
      <3> QED BY <3>1, <3>2, <2>4
    <2>7. ASSUME NEW i \in 1..Len(waiters'), NEW j \in 1..Len(waiters'), waiters'[i] = waiters'[j]
          PROVE  i = j
      <3>1. CASE i \in 1..Len(waiters) /\ j \in 1..Len(waiters)
        BY <3>1, <2>4, <2>7 DEF QueueOK
      <3>2. CASE i = Len(waiters) + 1 \/ j = Len(waiters) + 1
        BY <3>2, <2>4, <2>7, <1>b
      <3> QED BY <3>1, <3>2, <2>4
    <2>8. QueueOK'
      BY <2>6, <2>7 DEF QueueOK, Mcp
    <2> QED BY <1>0, <1>c, <2>1, <2>3, <2>9, <2>8
  <1>3. CASE at' = [at EXCEPT ![c] = "refused"] /\ UNCHANGED <<permits, waiters>>
    <2>1. HoldingCalls' = HoldingCalls
      BY <1>3 DEF HoldingCalls, Mcp, GatewayTypeOK
    <2>2. SlotsAreAccounted'
      BY <1>0, <1>a, <1>3, <2>1 DEF SlotsAreAccounted, HoldingCalls, Mounted
    <2>3. GatewayTypeOK'
      BY <1>3 DEF GatewayTypeOK, requestVars
    <2>4. QueueOK'
      BY <1>b, <1>3 DEF QueueOK, Mcp, GatewayTypeOK
    <2> QED BY <1>0, <1>c, <2>1, <2>2, <2>3, <2>4
  <1> QED BY <1>1, <1>2, <1>3 DEF Acquire

\* A call that is no tool call, that is refused before the semaphore or that goes
\* on with its permit moves no count.
LEMMA PlainMoveKeepsSlots ==
    ASSUME SlotsInv, NEW c \in Call, NEW to \in {"executing"} \union Final,
           at[c] # "queued",
           ~Mcp(c) \/ (at[c] \in Holding <=> to \in Holding),
           at' = [at EXCEPT ![c] = to], UNCHANGED <<permits, waiters, requestVars>>
    PROVE  SlotsInv'
  <1> USE GatewayConstants DEF Holding, Final
  <1> USE DEF SlotsInv
  <1>0. UnopenedIsIdle' /\ Mounted' = Mounted /\ inFlight' = inFlight
    BY DEF UnopenedIsIdle, Mounted, requestVars
  <1>1. HoldingCalls' = HoldingCalls
    BY DEF HoldingCalls, Mcp, GatewayTypeOK
  <1>2. SlotsAreAccounted'
    BY <1>0, <1>1 DEF SlotsAreAccounted, HoldingCalls, Mounted
  <1>3. GatewayTypeOK'
    BY DEF GatewayTypeOK, requestVars
  <1>4. QueueOK' /\ PermitsAreTools'
    BY DEF QueueOK, PermitsAreTools, Mcp, GatewayTypeOK
  <1> QED BY <1>0, <1>1, <1>2, <1>3, <1>4

\* A handler that ends gives its place on the mount back, on every path.
LEMMA CloseKeepsSlots ==
    ASSUME SlotsInv, NEW q \in Conn, stage[q] \in {"reading", "calling"}, Close(q),
           UNCHANGED callVars
    PROVE  SlotsInv'
  <1> USE GatewayConstants DEF SlotsInv
  <1>0. HoldingCalls' = HoldingCalls /\ QueueOK' /\ PermitsAreTools'
    BY DEF HoldingCalls, QueueOK, PermitsAreTools, Mcp, callVars
  <1>1. /\ permits' = permits /\ waiters' = waiters
        /\ inFlight = Cardinality(Mounted) /\ inFlight <= MountCap /\ inFlight \in Nat
    BY DEF SlotsAreAccounted, Mounted, GatewayTypeOK, callVars
  <1>2. link[q] # "none"
    BY DEF UnopenedIsIdle
  <1>3. UnopenedIsIdle'
    BY <1>2 DEF UnopenedIsIdle, Close, GatewayTypeOK
  <1>4. CASE q \in OverMcp
    <2>1. Mounted' = Mounted \ {q} /\ q \in Mounted
      BY <1>4 DEF Mounted, Close, GatewayTypeOK
    <2>2. inFlight' = inFlight - 1
      BY <1>4 DEF Close
    <2>3. /\ IsFiniteSet(Mounted') /\ Cardinality(Mounted') = Cardinality(Mounted) - 1
          /\ Cardinality(Mounted') \in Nat
      BY <2>1, CountChanges
    <2>4. inFlight' = Cardinality(Mounted') /\ inFlight' <= MountCap /\ inFlight' \in Nat
      BY <1>1, <2>2, <2>3
    <2>5. SlotsAreAccounted'
      BY <1>0, <1>1, <2>4 DEF SlotsAreAccounted, HoldingCalls, Mounted
    <2>6. GatewayTypeOK'
      BY <2>4 DEF GatewayTypeOK, Close, callVars
    <2> QED BY <1>0, <1>3, <2>3, <2>5, <2>6
  <1>5. CASE q \notin OverMcp
    <2>1. Mounted' = Mounted /\ inFlight' = inFlight
      BY <1>5 DEF Mounted, Close, GatewayTypeOK
    <2>2. SlotsAreAccounted'
      BY <1>0, <1>1, <2>1 DEF SlotsAreAccounted, HoldingCalls, Mounted
    <2>3. GatewayTypeOK'
      BY <2>1 DEF GatewayTypeOK, Close, callVars
    <2> QED BY <1>0, <1>3, <2>1, <2>2, <2>3
  <1> QED BY <1>4, <1>5

\* A request is accepted and takes its slot.
LEMMA AcceptKeepsSlots ==
    ASSUME SlotsInv, NEW q \in Conn, Accept(q)
    PROVE  SlotsInv'
  <1> USE GatewayConstants DEF SlotsInv
  <1>0. /\ HoldingCalls' = HoldingCalls /\ QueueOK' /\ PermitsAreTools'
        /\ permits' = permits /\ waiters' = waiters
    BY DEF Accept, HoldingCalls, QueueOK, PermitsAreTools, Mcp, callVars
  <1>1. inFlight = Cardinality(Mounted) /\ inFlight <= MountCap /\ inFlight \in Nat
    BY DEF SlotsAreAccounted, Mounted, GatewayTypeOK
  <1>2. stage[q] = "none"
    BY DEF Accept, UnopenedIsIdle
  <1>3. UnopenedIsIdle'
    BY DEF Accept, UnopenedIsIdle, GatewayTypeOK
  <1>4. CASE inFlight' = inFlight + 1 /\ q \in OverMcp /\ inFlight < MountCap
             /\ stage' = [stage EXCEPT ![q] = "reading"]
    <2>1. Mounted' = Mounted \union {q} /\ q \notin Mounted
      BY <1>2, <1>4 DEF Mounted, GatewayTypeOK
    <2>2. IsFiniteSet(Mounted') /\ Cardinality(Mounted') = Cardinality(Mounted) + 1
      BY <2>1, CountChanges
    <2>3. inFlight' = Cardinality(Mounted') /\ inFlight' <= MountCap /\ inFlight' \in Nat
      BY <1>1, <1>4, <2>2
    <2>4. SlotsAreAccounted'
      BY <1>0, <2>3 DEF SlotsAreAccounted, HoldingCalls, Mounted
    <2>5. GatewayTypeOK'
      BY <2>3 DEF GatewayTypeOK, Accept, callVars
    <2> QED BY <1>0, <1>3, <2>2, <2>4, <2>5
  <1>5. CASE inFlight' = inFlight
             /\ \/ stage' = [stage EXCEPT ![q] = "done"]
                \/ q \notin OverMcp /\ stage' = [stage EXCEPT ![q] = "calling"]
    <2>1. Mounted' = Mounted
      BY <1>2, <1>5 DEF Mounted, GatewayTypeOK
    <2>2. SlotsAreAccounted'
      BY <1>0, <1>1, <1>5, <2>1 DEF SlotsAreAccounted, HoldingCalls, Mounted
    <2>3. GatewayTypeOK'
      BY <1>5 DEF GatewayTypeOK, Accept, callVars
    <2> QED BY <1>0, <1>3, <2>1, <2>2, <2>3
  <1>6. inFlight < MountCap \/ inFlight >= MountCap
    BY <1>1
  <1> QED BY <1>1, <1>4, <1>5, <1>6 DEF Accept

\* Every step of the gateway keeps the accounts.
LEMMA GatewayStepsKeepSlots == SlotsInv /\ [GatewayNext]_gatewayVars => SlotsInv'
  <1> SUFFICES ASSUME SlotsInv, [GatewayNext]_gatewayVars PROVE SlotsInv'
    OBVIOUS
  <1> USE GatewayConstants
  <1>1. CASE UNCHANGED <<requestVars, callVars>>
    BY <1>1 DEF SlotsInv, GatewayTypeOK, QueueOK, PermitsAreTools, UnopenedIsIdle, SlotsAreAccounted,
                HoldingCalls, Mounted, Mcp, requestVars, callVars
  <1>2. CASE OpenStore \/ CreateGateway \/ Listen \/ FirstSignal \/ SecondSignal
             \/ StopAdapters \/ CloseStore \/ UncleanExit \/ UNCHANGED gatewayVars
    BY <1>1, <1>2 DEF OpenStore, CreateGateway, Listen, FirstSignal, SecondSignal,
                      StopAdapters, CloseStore, UncleanExit, gatewayVars
  <1>3. ASSUME NEW q \in Conn, Accept(q) PROVE SlotsInv'
    BY <1>3, AcceptKeepsSlots
  <1>4. ASSUME NEW q \in Conn, BodyRejected(q) \/ Respond(q) PROVE SlotsInv'
    BY <1>4, CloseKeepsSlots DEF BodyRejected, Respond
  <1>5. ASSUME NEW q \in Conn, Disconnect(q) \/ BodyRead(q) PROVE SlotsInv'
    <2>1. /\ HoldingCalls' = HoldingCalls /\ QueueOK' /\ PermitsAreTools'
          /\ UNCHANGED <<permits, waiters, inFlight>>
      BY <1>5 DEF SlotsInv, Disconnect, BodyRead, HoldingCalls, QueueOK, PermitsAreTools,
                  Mcp, callVars
    <2>2. Mounted' = Mounted
      BY <1>5 DEF SlotsInv, GatewayTypeOK, Disconnect, BodyRead, Mounted
    <2>3. GatewayTypeOK' /\ UnopenedIsIdle'
      BY <1>5 DEF SlotsInv, GatewayTypeOK, UnopenedIsIdle, Disconnect, BodyRead, callVars
    <2>4. SlotsAreAccounted'
      BY <2>1, <2>2 DEF SlotsInv, SlotsAreAccounted, HoldingCalls, Mounted
    <2> QED BY <2>1, <2>2, <2>3, <2>4 DEF SlotsInv
  <1>6. ASSUME NEW c \in Call, StartCall(c) PROVE SlotsInv'
    <2>1. CASE Mcp(c) /\ adapter = "started"
      BY <1>6, <2>1, AcquireKeepsSlots DEF StartCall
    <2>2. CASE ~Mcp(c)
      BY <1>6, <2>2, PlainMoveKeepsSlots DEF StartCall
    <2>3. CASE Mcp(c) /\ adapter # "started"
      BY <1>6, <2>3, PlainMoveKeepsSlots DEF StartCall, Final, Holding
    <2> QED BY <2>1, <2>2, <2>3
  <1>7. ASSUME NEW c \in Call, Proceed(c) PROVE SlotsInv'
    <2>1. Mcp(c)
      BY <1>7 DEF SlotsInv, PermitsAreTools, Proceed
    <2>2. CASE link[ConnOf[c]] = "gone"
      BY <1>7, <2>1, <2>2, ReleaseKeepsSlots DEF Proceed, Final, Holding
    <2>3. CASE link[ConnOf[c]] # "gone"
      BY <1>7, <2>3, PlainMoveKeepsSlots DEF Proceed, Holding
    <2> QED BY <2>2, <2>3
  <1>8. ASSUME NEW c \in Call, Finish(c) PROVE SlotsInv'
    <2>1. CASE Mcp(c)
      BY <1>8, <2>1, ReleaseKeepsSlots DEF Finish, Final, Holding
    <2>2. CASE ~Mcp(c)
      BY <1>8, <2>2, PlainMoveKeepsSlots DEF Finish, Final, Holding
    <2> QED BY <2>1, <2>2
  <1> QED BY <1>2, <1>3, <1>4, <1>5, <1>6, <1>7, <1>8 DEF GatewayNext, CallStep

(***************************************************************************)
(* releaseToolCallSlot, acquireToolCallSlot and the finally of             *)
(* mountHttpAdapter lose no permit and no place, for any number of calls,  *)
(* requests, permits and places in the queue.                              *)
(***************************************************************************)
THEOREM SlotsTheorem == GatewaySpec => []SlotsAreAccounted
  <1>1. SlotsInv => SlotsAreAccounted
    BY DEF SlotsInv
  <1> QED BY <1>1, GatewayStarts, GatewayStepsKeepSlots, PTL DEF GatewaySpec

-----------------------------------------------------------------------------
(* Shutdown: whom gateway.close waits for.                                 *)

Running(c) == at[c] \in {"queued", "granted", "executing"}

\* docs/security.md says that requests in flight finish before the adapters stop.
\* They do as long as their clients stay: without a second signal, whatever still
\* waits or runs once gateway.close goes on (server.close, then the adapters and
\* the store) belongs to a client that has left.
ConnectedFinishFirst ==
    phase \in {"drained", "exited"} /\ ~forced =>
        \A c \in Call : Running(c) => link[ConnOf[c]] = "gone"

\* Nothing is accepted before gateway.listen, no connection is open once the
\* server has closed, and a connection that was answered has no call left.
DrainOK ==
    /\ phase \in {"loading", "opened", "created"} => \A q \in Conn : link[q] = "none"
    /\ phase \in {"drained", "exited"} /\ ~forced => \A q \in Conn : link[q] # "open"
    /\ \A c \in Call :
         Running(c) => link[ConnOf[c]] \in {"open", "gone"} /\ stage[ConnOf[c]] # "reading"
    /\ \A q \in Conn : link[q] = "over" => stage[q] = "done"

\* A step of a call starts to run only a call whose request is being served.
LEMMA CallStepsRun ==
    ASSUME SlotsInv, NEW c \in Call, CallStep(c), NEW d \in Call, Running(d)'
    PROVE  /\ Running(d) \/ stage[ConnOf[d]] = "calling"
           /\ UNCHANGED <<processVars, requestVars>>
  <1>t. at \in [Call -> {"none", "queued", "granted", "executing"} \union Final]
    BY DEF SlotsInv, GatewayTypeOK
  <1>u. UNCHANGED <<processVars, requestVars>>
    BY DEF CallStep, StartCall, Proceed, Finish
  <1>1. CASE StartCall(c)
    BY <1>1, <1>t, <1>u DEF StartCall, Acquire, Running
  <1>2. ASSUME NEW to \in Final, Released(c, to) PROVE Running(d)
    <2>1. CASE waiters # <<>>
      <3>1. Head(waiters) \in Call /\ at[Head(waiters)] = "queued"
        BY <2>1 DEF SlotsInv, GatewayTypeOK, QueueOK
      <3>2. at' = [at EXCEPT ![c] = to, ![Head(waiters)] = "granted"]
        BY <1>2, <2>1 DEF Released
      <3>3. at'[d] = IF d = Head(waiters) THEN "granted" ELSE IF d = c THEN to ELSE at[d]
        BY <1>t, <3>1, <3>2
      <3> QED BY <1>2, <3>1, <3>3 DEF Running, Final
    <2>2. CASE waiters = <<>>
      BY <1>2, <1>t, <2>2 DEF Released, Running, Final
    <2> QED BY <2>1, <2>2
  <1>3. CASE Proceed(c)
    <2>1. CASE link[ConnOf[c]] = "gone"
      BY <1>2, <1>3, <1>u, <2>1 DEF Proceed, Final
    <2>2. CASE link[ConnOf[c]] # "gone"
      BY <1>3, <1>t, <1>u, <2>2 DEF Proceed, Running
    <2> QED BY <2>1, <2>2
  <1>4. CASE Finish(c)
    <2>1. CASE Mcp(c)
      BY <1>2, <1>4, <1>u, <2>1 DEF Finish, Final
    <2>2. CASE ~Mcp(c)
      BY <1>4, <1>t, <1>u, <2>2 DEF Finish, Running
    <2> QED BY <2>1, <2>2
  <1> QED BY <1>1, <1>3, <1>4 DEF CallStep

\* Every step keeps it.
LEMMA DrainSteps == SlotsInv /\ DrainOK /\ [GatewayNext]_gatewayVars => DrainOK'
  <1> SUFFICES ASSUME SlotsInv, DrainOK, [GatewayNext]_gatewayVars PROVE DrainOK'
    OBVIOUS
  <1> USE GatewayConstants
  <1>t. /\ link \in [Conn -> {"none", "open", "over", "gone"}]
        /\ stage \in [Conn -> {"none", "reading", "calling", "done"}]
        /\ \A q \in Conn : link[q] = "none" => stage[q] = "none"
    BY DEF SlotsInv, GatewayTypeOK, UnopenedIsIdle
  <1>1. CASE UNCHANGED gatewayVars
    BY <1>1 DEF gatewayVars, processVars, requestVars, callVars, DrainOK, Running
  <1>2. CASE OpenStore \/ CreateGateway \/ Listen \/ FirstSignal \/ SecondSignal \/ CloseStore
          \/ UncleanExit
    <2>1. /\ UNCHANGED <<link, stage, at>>
          /\ phase' \in {"loading", "opened", "created"} => phase \in {"loading", "opened", "created"}
          /\ phase' \in {"drained", "exited"} /\ ~forced' =>
               phase \in {"loading", "opened", "created"} \/ (phase = "drained" /\ ~forced)
      BY <1>2 DEF OpenStore, CreateGateway, StartAndMountAdapters, Listen, FirstSignal,
                  SecondSignal, CloseStore, UncleanExit, requestVars, callVars
    <2> QED BY <2>1 DEF DrainOK, Running
  <1>3. CASE StopAdapters
    BY <1>3 DEF StopAdapters, requestVars, callVars, DrainOK, Running
  <1>4. ASSUME NEW q \in Conn, Accept(q) PROVE DrainOK'
    <2>1. /\ phase = "serving" /\ link[q] = "none" /\ UNCHANGED <<phase, forced, at>>
          /\ \/ link' = [link EXCEPT ![q] = "over"] /\ stage' = [stage EXCEPT ![q] = "done"]
             \/ /\ link' = [link EXCEPT ![q] = "open"]
                /\ \E s \in {"reading", "calling"} : stage' = [stage EXCEPT ![q] = s]
      BY <1>4 DEF Accept, processVars, callVars
    <2> QED BY <1>t, <2>1 DEF DrainOK, Running
  <1>5. ASSUME NEW q \in Conn, Disconnect(q) PROVE DrainOK'
    BY <1>5, <1>t DEF Disconnect, processVars, callVars, DrainOK, Running
  <1>6. ASSUME NEW q \in Conn, BodyRejected(q) \/ Respond(q) PROVE DrainOK'
    <2>1. /\ UNCHANGED <<phase, forced, at>>
          /\ stage[q] \in {"reading", "calling"} /\ stage' = [stage EXCEPT ![q] = "done"]
          /\ link' = [link EXCEPT ![q] = IF link[q] = "open" THEN "over" ELSE link[q]]
          /\ \/ stage[q] = "reading"
             \/ link[q] = "gone"
             \/ \A c \in CallsOf(q) : at[c] \in Final
      BY <1>6 DEF BodyRejected, Respond, Close, processVars, callVars
    <2>2. link[q] = "open" => \A c \in Call : ConnOf[c] = q => ~Running(c)
      BY <2>1 DEF DrainOK, CallsOf, Running, Final
    <2> QED BY <1>t, <2>1, <2>2 DEF DrainOK, Running
  <1>7. ASSUME NEW q \in Conn, BodyRead(q) PROVE DrainOK'
    BY <1>7, <1>t DEF BodyRead, processVars, callVars, DrainOK, Running
  <1>8. ASSUME NEW c \in Call, CallStep(c) PROVE DrainOK'
    <2>1. UNCHANGED <<phase, forced, link, stage>>
      BY <1>8 DEF CallStep, StartCall, Proceed, Finish, processVars, requestVars
    <2>2. ASSUME NEW d \in Call, Running(d)'
          PROVE  link[ConnOf[d]] \in {"open", "gone"} /\ stage[ConnOf[d]] # "reading"
      <3>1. Running(d) \/ stage[ConnOf[d]] = "calling"
        BY <1>8, <2>2, CallStepsRun
      <3> QED BY <1>t, <3>1 DEF DrainOK
    <2> QED BY <2>1, <2>2 DEF DrainOK
  <1> QED BY <1>1, <1>2, <1>3, <1>4, <1>5, <1>6, <1>7, <1>8 DEF GatewayNext

\* gateway.close leaves behind only calls whose clients have left: what the run
\* on shutdown finds against docs/security.md is confined to them, for any number
\* of calls, requests and permits.
THEOREM DrainTheorem == GatewaySpec => []ConnectedFinishFirst
  <1>1. GatewayInit => DrainOK
    BY DEF GatewayInit, DrainOK, Running
  <1>2. DrainOK => ConnectedFinishFirst
    BY GatewayConstants DEF DrainOK, ConnectedFinishFirst
  <1> QED BY <1>1, <1>2, GatewayStarts, GatewayStepsKeepSlots, DrainSteps, PTL DEF GatewaySpec

-----------------------------------------------------------------------------
(* Readiness: how old what an answer says may be.                          *)

\* All that one probe of the provider looks at is up.
ProviderUp == /\ \A o \in Offer : Passes(o)
              /\ Offer \subseteq Local \/ outage # Listing

\* What a probe that started after the last change has seen so far is so.
ProbeOK ==
    probing.on =>
        /\ probing.start <= monotonicMs /\ monotonicMs <= probing.start + ProbeMax
        /\ probing.listed => ~(Offer \subseteq Local)
        /\ since < probing.start =>
              (probing.ok <=> /\ \A o \in probing.read : Passes(o)
                              /\ probing.listed => outage # Listing)

\* A probe that ended after a change and a probe's length tells of it.
HealthCacheOK ==
    healthCache.set =>
        /\ healthCache.at <= monotonicMs
        /\ since + ProbeMax < healthCache.at => (healthCache.ok <=> ProviderUp)

EvaluationOK ==
    evaluating.on =>
        /\ evaluating.start <= monotonicMs /\ monotonicMs <= evaluating.start + ProbeMax
        /\ since < evaluating.start => (evaluating.store <=> outage # Store)
        /\ evaluating.health # "waiting" /\ since + HealthTtl + ProbeMax < evaluating.start =>
              (evaluating.health = "pass" <=> ProviderUp)

ReadyCacheOK ==
    readyCache.set =>
        /\ readyCache.at <= monotonicMs
        /\ since + HealthTtl + 2 * ProbeMax < readyCache.at =>
              (readyCache.ok <=> outage = Nothing)

ReadinessTypeOK ==
    /\ monotonicMs \in Nat /\ since \in Nat /\ since <= monotonicMs
    /\ outage \in Outages \union {Nothing}
    /\ probing \in [on : BOOLEAN, start : Nat, read : SUBSET Offer, listed : BOOLEAN, ok : BOOLEAN]
    /\ healthCache \in [set : BOOLEAN, at : Nat, ok : BOOLEAN]
    /\ evaluating \in [on : BOOLEAN, start : Nat, store : BOOLEAN,
                       health : {"waiting", "pass", "fail"}]
    /\ readyCache \in [set : BOOLEAN, at : Nat, ok : BOOLEAN]
    /\ told \in {"none", "ready", "unready"}

ReadinessInv ==
    /\ ReadinessTypeOK
    /\ ProbeOK
    /\ HealthCacheOK
    /\ EvaluationOK
    /\ ReadyCacheOK
    /\ AnswersAreRecent

\* Store and providers are up exactly when nothing is down: a probe looks at
\* everything that may go down (evaluate over computeHealth).
LEMMA UpIsNothingDown ==
    ASSUME outage \in Outages \union {Nothing}
    PROVE  ProviderUp /\ outage # Store <=> outage = Nothing
  <1>1. CASE outage = Nothing
    <2>1. Nothing # Store /\ Nothing # Listing
      BY DEF Nothing, Store, Listing
    <2>2. ASSUME NEW o, NEW k PROVE Nothing # <<o, k>>
      <3>1. Len(Nothing) = 1 /\ Len(<<o, k>>) = 2
        BY DEF Nothing
      <3> QED BY <3>1
    <2> QED BY <1>1, <2>1, <2>2 DEF ProviderUp, Passes
  <1>2. CASE outage \in Outages /\ outage # Nothing
    BY <1>2, OutagesAreProbed DEF ProviderUp, Passes
  <1> QED BY <1>1, <1>2

\* Windows and times are numbers.
LEMMA Windows ==
    /\ ReadyTtl \in Nat /\ HealthTtl \in Nat /\ ProbeMax \in Nat /\ ReadyTtl > 0
    /\ 2 * ProbeMax = ProbeMax + ProbeMax
  <1>1. ReadyTtl \in Nat /\ HealthTtl \in Nat /\ ProbeMax \in Nat /\ ReadyTtl > 0
    BY ReadinessConstants
  <1> QED BY <1>1

\* Nothing is cached at first.
LEMMA ReadinessStarts == ReadinessInit => ReadinessInv
  <1> SUFFICES ASSUME ReadinessInit PROVE ReadinessInv
    OBVIOUS
  <1> USE DEF ReadinessInit
  <1>1. ReadinessTypeOK
    BY DEF ReadinessTypeOK, NoProbe, NoEvaluation, NoCache
  <1>2. ProbeOK /\ HealthCacheOK /\ EvaluationOK /\ ReadyCacheOK /\ AnswersAreRecent
    BY DEF ProbeOK, HealthCacheOK, EvaluationOK, ReadyCacheOK, AnswersAreRecent,
           NoProbe, NoEvaluation, NoCache
  <1> QED BY <1>1, <1>2 DEF ReadinessInv

\* A call of health(), the library's or an evaluation's, starts a probe that has
\* seen nothing yet, or leaves the one in flight.
LEMMA HealthCallKeepsProbe ==
    ASSUME ReadinessInv, HealthCalled, UNCHANGED <<monotonicMs, outage, since>>
    PROVE  /\ probing' \in [on : BOOLEAN, start : Nat, read : SUBSET Offer,
                            listed : BOOLEAN, ok : BOOLEAN]
           /\ ProbeOK'
  <1> USE Windows DEF ReadinessInv, ReadinessTypeOK
  <1>1. CASE probing' = probing
    BY <1>1 DEF ProbeOK, Passes
  <1>2. CASE probing' = StartedProbe
    <2>1. probing' = [on |-> TRUE, start |-> monotonicMs, read |-> {}, listed |-> FALSE, ok |-> TRUE]
      BY <1>2 DEF StartedProbe, NoProbe
    <2> QED BY <2>1 DEF ProbeOK
  <1> QED BY <1>1, <1>2 DEF HealthCalled

\* A probe reads an offer or the listing.
LEMMA ProbeReadKeepsReadiness ==
    ASSUME ReadinessInv, ProbeListing \/ \E o \in Offer : ProbeOffer(o)
    PROVE  ReadinessInv'
  <1> USE Windows DEF ReadinessInv, ReadinessTypeOK
  <1>1. UNCHANGED <<monotonicMs, outage, since, healthCache, evaluating, readyCache, told>>
    BY DEF ProbeListing, ProbeOffer
  <1>2. HealthCacheOK' /\ EvaluationOK' /\ ReadyCacheOK' /\ AnswersAreRecent'
    BY <1>1 DEF HealthCacheOK, EvaluationOK, ReadyCacheOK, AnswersAreRecent, ProviderUp, Passes
  <1>3. ASSUME NEW o \in Offer, ProbeOffer(o) PROVE ReadinessTypeOK' /\ ProbeOK'
    <2>1. /\ probing.on
          /\ probing'.on = probing.on /\ probing'.start = probing.start
          /\ probing'.read = probing.read \union {o} /\ probing'.listed = probing.listed
          /\ probing'.ok = (probing.ok /\ Passes(o))
      BY <1>3 DEF ProbeOffer
    <2>2. \A x : Passes(x)' <=> Passes(x)
      BY <1>1 DEF Passes
    <2>3. ReadinessTypeOK'
      BY <1>1, <1>3 DEF ProbeOffer
    <2> QED BY <1>1, <2>1, <2>2, <2>3 DEF ProbeOK
  <1>4. CASE ProbeListing
    <2>1. /\ probing.on /\ ~probing.listed
          /\ probing'.on = probing.on /\ probing'.start = probing.start
          /\ probing'.read = probing.read /\ probing'.listed = TRUE
          /\ probing'.ok = (probing.ok /\ outage # Listing)
      BY <1>4 DEF ProbeListing
    <2>2. \A x : Passes(x)' <=> Passes(x)
      BY <1>1 DEF Passes
    <2>3. ReadinessTypeOK'
      BY <1>1, <1>4 DEF ProbeListing
    <2>4. ProbeOK'
      BY <1>1, <1>4, <2>1, <2>2 DEF ProbeListing, ProbeOK
    <2> QED BY <1>2, <2>3, <2>4
  <1> QED BY <1>2, <1>3, <1>4

\* A probe ends and is cached.
LEMMA ProbeEndKeepsReadiness ==
    ASSUME ReadinessInv, ProbeEnds
    PROVE  ReadinessInv'
  <1> USE Windows DEF ReadinessInv, ReadinessTypeOK
  <1>1. UNCHANGED <<monotonicMs, outage, since, readyCache, told>>
    BY DEF ProbeEnds
  <1>2. ReadyCacheOK' /\ AnswersAreRecent' /\ (ProviderUp' <=> ProviderUp)
    BY <1>1 DEF ReadyCacheOK, AnswersAreRecent, ProviderUp, Passes
  <1>3. ReadinessTypeOK'
    BY <1>1 DEF ProbeEnds, NoProbe
  <1>4. ProbeOK'
    BY DEF ProbeEnds, NoProbe, ProbeOK
  <1>5. since + ProbeMax < monotonicMs => (probing.ok <=> ProviderUp)
    <2>1. SUFFICES ASSUME since + ProbeMax < monotonicMs PROVE probing.ok <=> ProviderUp
      OBVIOUS
    <2>2. /\ probing.on /\ probing.read = Offer
          /\ Offer \subseteq Local \/ probing.listed
          /\ probing.listed => ~(Offer \subseteq Local)
      BY DEF ProbeEnds, ProbeOK
    <2>3. since < probing.start
      BY <2>1, <2>2 DEF ProbeOK
    <2>4. probing.ok <=> /\ \A o \in Offer : Passes(o)
                         /\ probing.listed => outage # Listing
      BY <2>2, <2>3 DEF ProbeOK
    <2> QED BY <2>2, <2>4 DEF ProviderUp
  <1>6. HealthCacheOK'
    BY <1>1, <1>2, <1>5 DEF ProbeEnds, HealthCacheOK
  <1>7. EvaluationOK'
    <2>1. CASE evaluating.on /\ evaluating.health = "waiting"
      <3>1. /\ evaluating'.on /\ evaluating'.start = evaluating.start
            /\ evaluating'.store = evaluating.store
            /\ evaluating'.health = IF probing.ok THEN "pass" ELSE "fail"
        BY <2>1 DEF ProbeEnds
      <3> QED BY <1>1, <1>2, <1>5, <2>1, <3>1 DEF EvaluationOK
    <2>2. CASE ~(evaluating.on /\ evaluating.health = "waiting")
      <3>1. evaluating' = evaluating
        BY <2>2 DEF ProbeEnds
      <3> QED BY <1>1, <1>2, <3>1 DEF EvaluationOK
    <2> QED BY <2>1, <2>2
  <1> QED BY <1>2, <1>3, <1>4, <1>6, <1>7

\* An evaluation begins.
LEMMA EvaluateKeepsReadiness ==
    ASSUME ReadinessInv, Evaluate
    PROVE  ReadinessInv'
  <1> USE Windows DEF ReadinessInv
  <1>1. UNCHANGED <<monotonicMs, outage, since, healthCache, readyCache, told>>
    BY DEF Evaluate
  <1>2. HealthCacheOK' /\ ReadyCacheOK' /\ AnswersAreRecent' /\ (ProviderUp' <=> ProviderUp)
    BY <1>1 DEF HealthCacheOK, ReadyCacheOK, AnswersAreRecent, ProviderUp, Passes
  <1>3. ProbeOK' /\ probing' \in [on : BOOLEAN, start : Nat, read : SUBSET Offer,
                                  listed : BOOLEAN, ok : BOOLEAN]
    BY <1>1, HealthCallKeepsProbe DEF Evaluate
  <1>4. ReadinessTypeOK'
    BY <1>1, <1>3 DEF Evaluate, ReadinessTypeOK
  <1>5. Fresh(healthCache, HealthTtl) /\ since + HealthTtl + ProbeMax < monotonicMs
            => (healthCache.ok <=> ProviderUp)
    BY DEF Fresh, HealthCacheOK, ReadinessTypeOK
  <1>6. EvaluationOK'
    <2>1. /\ evaluating'.start = monotonicMs /\ (evaluating'.store <=> outage # Store)
          /\ evaluating'.health # "waiting" =>
                /\ Fresh(healthCache, HealthTtl)
                /\ evaluating'.health = "pass" <=> healthCache.ok
      BY DEF Evaluate
    <2> QED BY <1>1, <1>2, <1>5, <2>1 DEF EvaluationOK, ReadinessTypeOK
  <1> QED BY <1>2, <1>3, <1>4, <1>6

\* /ready answers from the cache or from its evaluation.
LEMMA AnswerKeepsReadiness ==
    ASSUME ReadinessInv, AnswerCached \/ AnswerEvaluated
    PROVE  ReadinessInv'
  <1> USE Windows DEF ReadinessInv
  <1>1. UNCHANGED <<monotonicMs, outage, since, probing, healthCache>>
    BY DEF AnswerCached, AnswerEvaluated
  <1>2. ProbeOK' /\ HealthCacheOK' /\ (ProviderUp' <=> ProviderUp)
    BY <1>1 DEF ProbeOK, HealthCacheOK, ProviderUp, Passes
  <1>3. CASE AnswerCached
    <2>1. evaluating' = evaluating /\ readyCache' = readyCache
      BY <1>3 DEF AnswerCached
    <2>2. ReadinessTypeOK' /\ EvaluationOK' /\ ReadyCacheOK'
      BY <1>1, <1>2, <1>3, <2>1
         DEF AnswerCached, AnswerReady, ReadinessTypeOK, EvaluationOK, ReadyCacheOK
    <2>3. since + (ReadyTtl + HealthTtl + 2 * ProbeMax) <= monotonicMs => (readyCache.ok <=> outage = Nothing)
      BY <1>3 DEF AnswerCached, Fresh, ReadyCacheOK, ReadinessTypeOK
    <2>4. AnswersAreRecent'
      BY <1>1, <1>3, <2>3 DEF AnswerCached, AnswerReady, AnswersAreRecent, ReadinessTypeOK
    <2> QED BY <1>2, <2>2, <2>4
  <1>4. CASE AnswerEvaluated
    <2> DEFINE ready == evaluating.store /\ evaluating.health = "pass"
    <2>1. /\ evaluating.on /\ evaluating.health # "waiting"
          /\ readyCache' = [set |-> TRUE, at |-> monotonicMs, ok |-> ready]
          /\ told' = IF ready THEN "ready" ELSE "unready"
          /\ evaluating' = NoEvaluation
      BY <1>4 DEF AnswerEvaluated, AnswerReady
    <2>2. since + HealthTtl + 2 * ProbeMax < monotonicMs => (ready <=> outage = Nothing)
      <3>1. SUFFICES ASSUME since + HealthTtl + 2 * ProbeMax < monotonicMs
                     PROVE  ready <=> outage = Nothing
        OBVIOUS
      <3>2. since + HealthTtl + ProbeMax < evaluating.start /\ since < evaluating.start
        BY <2>1, <3>1 DEF EvaluationOK, ReadinessTypeOK
      <3>3. ready <=> ProviderUp /\ outage # Store
        BY <2>1, <3>2 DEF EvaluationOK
      <3> QED BY <3>3, UpIsNothingDown DEF ReadinessTypeOK
    <2> HIDE DEF ready
    <2>3. ready \in BOOLEAN
      BY DEF ready
    <2>4. ReadinessTypeOK'
      BY <1>1, <2>1, <2>3 DEF ReadinessTypeOK, NoEvaluation
    <2>5. EvaluationOK'
      BY <2>1 DEF EvaluationOK, NoEvaluation
    <2>6. ReadyCacheOK'
      BY <1>1, <2>1, <2>2, <2>3 DEF ReadyCacheOK, ReadinessTypeOK
    <2>7. AnswersAreRecent'
      BY <1>1, <2>1, <2>2, <2>3 DEF AnswersAreRecent, ReadinessTypeOK
    <2> QED BY <1>2, <2>4, <2>5, <2>6, <2>7
  <1> QED BY <1>3, <1>4

\* Time passes, or a dependency fails or recovers.
LEMMA TimeKeepsReadiness ==
    ASSUME ReadinessInv, Passing \/ WorldChanges
    PROVE  ReadinessInv'
  <1> USE Windows DEF ReadinessInv
  <1>1. CASE Passing
    <2>1. /\ UNCHANGED <<outage, since, probing, healthCache, evaluating, readyCache>>
          /\ monotonicMs' = monotonicMs + 1 /\ told' = "none"
          /\ probing.on => monotonicMs - probing.start < ProbeMax
          /\ evaluating.on => monotonicMs - evaluating.start < ProbeMax
      BY <1>1 DEF Passing
    <2>2. ReadinessTypeOK' /\ AnswersAreRecent' /\ (ProviderUp' <=> ProviderUp)
      BY <2>1 DEF ReadinessTypeOK, AnswersAreRecent, ProviderUp, Passes
    <2>3. ProbeOK'
      BY <2>1 DEF ProbeOK, ReadinessTypeOK, Passes
    <2>4. HealthCacheOK' /\ ReadyCacheOK'
      BY <2>1, <2>2 DEF HealthCacheOK, ReadyCacheOK, ReadinessTypeOK
    <2>5. EvaluationOK'
      BY <2>1, <2>2 DEF EvaluationOK, ReadinessTypeOK
    <2> QED BY <2>2, <2>3, <2>4, <2>5
  <1>2. CASE WorldChanges
    <2>1. /\ UNCHANGED <<monotonicMs, probing, healthCache, evaluating, readyCache, told>>
          /\ since' = monotonicMs /\ outage' \in Outages \union {Nothing}
      BY <1>2 DEF WorldChanges
    <2>2. ReadinessTypeOK'
      BY <2>1 DEF ReadinessTypeOK
    <2>3. ProbeOK' /\ HealthCacheOK'
      BY <2>1 DEF ProbeOK, HealthCacheOK, ReadinessTypeOK
    <2>4. EvaluationOK' /\ ReadyCacheOK'
      BY <2>1 DEF EvaluationOK, ReadyCacheOK, ReadinessTypeOK
    <2>5. AnswersAreRecent'
      BY <2>1 DEF AnswersAreRecent, ReadinessTypeOK
    <2> QED BY <2>2, <2>3, <2>4, <2>5
  <1> QED BY <1>1, <1>2

\* Every step keeps the invariant.
LEMMA ReadinessSteps == ReadinessInv /\ [ReadinessNext]_readinessVars => ReadinessInv'
  <1> SUFFICES ASSUME ReadinessInv, [ReadinessNext]_readinessVars PROVE ReadinessInv'
    OBVIOUS
  <1>1. CASE LibraryAsks
    <2>1. UNCHANGED <<monotonicMs, outage, since, healthCache, evaluating, readyCache, told>> /\ HealthCalled
      BY <1>1 DEF LibraryAsks
    <2>2. ProbeOK' /\ probing' \in [on : BOOLEAN, start : Nat, read : SUBSET Offer,
                                    listed : BOOLEAN, ok : BOOLEAN]
      BY <2>1, HealthCallKeepsProbe
    <2> QED BY <2>1, <2>2 DEF ReadinessInv, ReadinessTypeOK, HealthCacheOK, EvaluationOK,
                ReadyCacheOK, AnswersAreRecent, ProviderUp, Passes
  <1>2. CASE UNCHANGED readinessVars
    BY <1>2 DEF readinessVars, ReadinessInv, ReadinessTypeOK, ProbeOK, HealthCacheOK,
                EvaluationOK, ReadyCacheOK, AnswersAreRecent, ProviderUp, Passes
  <1> QED BY <1>1, <1>2, ProbeReadKeepsReadiness, ProbeEndKeepsReadiness, EvaluateKeepsReadiness,
             AnswerKeepsReadiness, TimeKeepsReadiness DEF ReadinessNext

(***************************************************************************)
(* createReadinessProbe over createHealthCheck: whatever the windows and   *)
(* the offers, and however the caches and shared flights overlap, an       *)
(* answer of /ready is never older than both windows and two probes.  The  *)
(* gateway's window must not be empty: with none, an answer could be given *)
(* at the very instant of the change that it misses.                       *)
(***************************************************************************)
THEOREM ReadinessTheorem == ReadinessSpec => []AnswersAreRecent
  <1>1. ReadinessInv => AnswersAreRecent
    BY DEF ReadinessInv
  <1> QED BY <1>1, ReadinessStarts, ReadinessSteps, PTL DEF ReadinessSpec

-----------------------------------------------------------------------------
(* The surfaces: what an answer may say.                                   *)

SurfaceTypeOK ==
    /\ way \in [surface : {"http", "mcp", "a2a"}, rail : {"x402", "mpp"},
                deferred : BOOLEAN, carrier : Carriers]
    /\ proof \in 0..MaxProof
    /\ row \in [Proofs -> {"none", "reserved", "settled", "rejected", "settlement-uncertain"}]
    /\ chain \in [Proofs -> {"idle", "open", "moved"}]
    /\ run \in [Proofs -> {"idle", "calling", "settling"}]
    /\ late \subseteq Proofs /\ overtaken \subseteq Proofs

\* The run of a proof and its attempt agree, and only a settlement without a
\* verdict leaves the chain open.
RunsOK ==
    \A p \in Proofs :
        /\ run[p] = "settling" => row[p] = "reserved"
        /\ run[p] = "calling" => row[p] = IF way.deferred THEN "reserved" ELSE "settled"
        /\ chain[p] = "open" => row[p] = "settlement-uncertain"

\* Every challenge overtakes the requests that are late when it is shown, so
\* that those of a proof the client has gone past were overtaken.
LateOK ==
    /\ \A p \in late : p <= proof /\ (p < proof => p \in overtaken)
    /\ client = "told" /\ answer.challenge => late \subseteq overtaken

\* A proof that the client has gone past can no longer be charged.
PastIsClosed ==
    way.carrier = "own" =>
        \A p \in Proofs \ overtaken : p < proof => row[p] # "reserved" /\ chain[p] # "open"

SurfaceInv ==
    /\ SurfaceTypeOK
    /\ RunsOK
    /\ LateOK
    /\ PastIsClosed
    /\ NoChallengeWhileOpen
    /\ SettlementIsTold

\* What the three surfaces have in common: none adds a challenge to an error, and
\* each tells of a settled payment when the error does.
LEMMA SurfacesAgree ==
    ASSUME SurfaceTypeOK, NEW err,
           err.code = "PAYMENT_SETTLEMENT_FAILED" => err.payment # "settled"
    PROVE  /\ ErrorAnswer(err).challenge => err.challenge
           /\ ErrorAnswer(err).retryable <=> err.code \in Retryable
           /\ ErrorAnswer(err).settlement = "success" <=> err.payment = "settled"
  <1> USE DEF ErrorAnswer, Shown, Refused402, SettledFromDetails, FailureReason
  <1>1. CASE way.surface = "http"
    BY <1>1 DEF HttpError
  <1>2. CASE way.surface = "mcp"
    BY <1>2 DEF McpError
  <1>3. CASE way.surface = "a2a"
    BY <1>3 DEF A2aError
  <1> QED BY <1>1, <1>2, <1>3 DEF SurfaceTypeOK

\* Errors without a settlement tell of none.
LEMMA PlainErrors ==
    ASSUME NEW code
    PROVE  /\ CommerceError(code).code = code
           /\ CommerceError(code).payment = "none"
           /\ ~CommerceError(code).challenge
  BY DEF CommerceError

\* A refusal of the proof, before it is claimed, shows a challenge only when
\* nothing of it can be charged any more (refusalFor, replayError).
LEMMA RefusalErrors ==
    ASSUME NEW p \in Proofs, NEW err \in Refusals(p) \union {Replayed(p)}
    PROVE  /\ err.code \in {"PAYMENT_INVALID", "PAYMENT_REPLAYED"}
           /\ err.payment = "none"
           /\ err.challenge => row[p] = "none" \/ Finished(p)
  <1>1. CASE err = Replayed(p)
    BY <1>1 DEF Replayed, WithChallenge, CommerceError
  <1>2. CASE err \in Refusals(p) /\ err # Replayed(p)
    <2>1. row[p] = "none" \/ Finished(p)
      BY <1>2 DEF Refusals
    <2>2. PICK a \in BOOLEAN :
             err = [WithChallenge(CommerceError("PAYMENT_INVALID")) EXCEPT !.allowance = a]
      BY <1>2 DEF Refusals
    <2> QED BY <2>1, <2>2 DEF WithChallenge, CommerceError
  <1> QED BY <1>1, <1>2

\* What errors of a settlement tell.
LEMMA SettlementErrors ==
    /\ SettlementRefused.code = "PAYMENT_SETTLEMENT_FAILED" /\ SettlementRefused.payment = "none"
    /\ \A hash \in BOOLEAN :
          LET err == SettlementUncertain(hash)
          IN  /\ err.code = "PAYMENT_SETTLEMENT_FAILED" /\ err.payment = "none"
              /\ ~err.challenge
  BY DEF SettlementRefused, SettlementUncertain, WithChallenge, CommerceError

\* What a backend error tells.
LEMMA BackendErrorFields ==
    ASSUME NEW settled \in BOOLEAN, NEW err \in BackendErrors(settled)
    PROVE  /\ err.code \in {"BACKEND_ERROR", "BACKEND_TIMEOUT"}
           /\ err.payment = "settled" <=> settled
           /\ ~err.challenge
  BY DEF BackendErrors, CommerceError

\* Nothing was signed at first.
LEMMA SurfaceStarts == SurfaceInit => SurfaceInv
  BY ProofBound DEF SurfaceInit, SurfaceInv, SurfaceTypeOK, RunsOK, LateOK, PastIsClosed,
        NoChallengeWhileOpen, SettlementIsTold, Proofs, Carriers

\* An answer overtakes the late requests when it shows a challenge.
LEMMA TellKeepsLate ==
    ASSUME SurfaceInv, NEW shown, NEW learned, Tell(shown, learned), UNCHANGED <<proof, late>>
    PROVE  /\ LateOK' /\ overtaken \subseteq overtaken' /\ overtaken' \subseteq Proofs
  <1>1. overtaken' \in {overtaken, overtaken \union late}
    BY DEF Tell
  <1>2. answer'.challenge => overtaken' = overtaken \union late
    BY DEF Tell
  <1> QED BY <1>1, <1>2 DEF SurfaceInv, SurfaceTypeOK, LateOK

\* Answers to a request whose proof is not claimed.
LEMMA AnswerKeepsSurface ==
    ASSUME SurfaceInv,
           RefuseEarly \/ Challenge \/ \E p \in Proofs : RefuseProof(p) \/ RefuseReplay(p)
    PROVE  SurfaceInv'
  <1> USE ProofBound DEF SurfaceInv
  <1>0. UNCHANGED <<way, proof, row, chain, run, late>>
    BY DEF RefuseEarly, Challenge, RefuseProof, RefuseReplay
  <1>t. LateOK' /\ overtaken \subseteq overtaken' /\ overtaken' \subseteq Proofs
    BY <1>0, TellKeepsLate DEF RefuseEarly, Challenge, RefuseProof, RefuseReplay
  <1>a. SurfaceTypeOK' /\ RunsOK' /\ LateOK' /\ PastIsClosed'
    BY <1>0, <1>t DEF SurfaceTypeOK, RunsOK, PastIsClosed
  <1>1. CASE RefuseEarly
    <2>1. PICK code \in EarlyErrors : Tell(ErrorAnswer(CommerceError(code)), "none")
      BY <1>1 DEF RefuseEarly
    <2>2. /\ ~ErrorAnswer(CommerceError(code)).challenge
          /\ ErrorAnswer(CommerceError(code)).settlement # "success"
      BY PlainErrors, SurfacesAgree
    <2> QED BY <1>a, <2>1, <2>2 DEF Tell, NoChallengeWhileOpen, SettlementIsTold
  <1>2. CASE Challenge
    <2>1. way.carrier = "own" => proof = 0
      BY <1>2 DEF Challenge, ReadProof
    <2>2. NoChallengeWhileOpen'
      BY <1>0, <2>1 DEF NoChallengeWhileOpen
    <2>3. SettlementIsTold'
      BY <1>2 DEF Challenge, Tell, PaymentRequiredAnswer, Shown, SettlementIsTold
    <2> QED BY <1>a, <2>2, <2>3
  <1>3. ASSUME NEW p \in Proofs, RefuseProof(p) \/ RefuseReplay(p) PROVE SurfaceInv'
    <2>1. PICK err \in Refusals(p) \union {Replayed(p)} : Tell(ErrorAnswer(err), "none")
      BY <1>3 DEF RefuseProof, RefuseReplay
    <2>2. /\ ErrorAnswer(err).challenge => row[p] = "none" \/ Finished(p)
          /\ ErrorAnswer(err).settlement # "success"
      <3>1. /\ err.code \in {"PAYMENT_INVALID", "PAYMENT_REPLAYED"}
            /\ err.payment = "none"
            /\ err.challenge => row[p] = "none" \/ Finished(p)
        BY RefusalErrors
      <3> QED BY <3>1, SurfacesAgree
    <2>3. proof = p
      BY <1>3 DEF RefuseProof, RefuseReplay, ReadProof, Proofs
    <2>4. ASSUME answer'.challenge, way.carrier = "own", NEW k \in (1..proof) \ overtaken'
          PROVE  row[k] # "reserved" /\ chain[k] # "open"
      <3>1. k \in Proofs
        BY DEF SurfaceTypeOK, Proofs
      <3>2. CASE k = p
        BY <2>1, <2>2, <2>4, <3>1, <3>2 DEF Tell, Finished, RunsOK
      <3>3. CASE k < p
        BY <1>t, <2>3, <2>4, <3>1, <3>3 DEF PastIsClosed
      <3> QED BY <2>3, <3>2, <3>3 DEF SurfaceTypeOK, Proofs
    <2>5. NoChallengeWhileOpen'
      BY <1>0, <2>4 DEF NoChallengeWhileOpen
    <2>6. SettlementIsTold'
      BY <2>1, <2>2 DEF Tell, SettlementIsTold
    <2> QED BY <1>a, <2>5, <2>6
  <1> QED BY <1>1, <1>2, <1>3

\* Steps of the client, which no answer and no run is part of.
LEMMA ClientKeepsSurface ==
    ASSUME SurfaceInv, ClientSends \/ GiveUp \/ ClientActs
    PROVE  SurfaceInv'
  <1> USE ProofBound DEF SurfaceInv
  <1>0. UNCHANGED <<way, row, chain, run, answer, verdict, overtaken>> /\ client' # "told"
    BY DEF ClientSends, GiveUp, ClientActs
  <1>1. proof' = proof \/ (proof' = proof + 1 /\ proof < MaxProof /\ client = "told" /\ answer.challenge)
    BY DEF ClientSends, GiveUp, ClientActs
  <1>l. \/ late' = late
        \/ late' = late \union {proof} /\ proof' = proof /\ proof \in Proofs
    BY DEF ClientSends, GiveUp, ClientActs, ReadProof, SurfaceTypeOK, Proofs
  <1>2. SurfaceTypeOK' /\ RunsOK'
    BY <1>0, <1>1, <1>l DEF SurfaceTypeOK, RunsOK
  <1>5. LateOK'
    <2>1. late \subseteq 1..MaxProof /\ proof \in 0..MaxProof
      BY DEF SurfaceTypeOK, Proofs
    <2>2. CASE proof' = proof
      <3>1. CASE late' = late
        BY <1>0, <2>2, <3>1 DEF LateOK
      <3>2. CASE late' = late \union {proof}
        <4>1. proof <= proof /\ ~(proof < proof)
          BY <2>1
        <4> QED BY <1>0, <2>2, <3>2, <4>1 DEF LateOK
      <3> QED BY <1>l, <3>1, <3>2
    <2>3. CASE proof' = proof + 1 /\ client = "told" /\ answer.challenge
      <3>1. late' = late /\ late \subseteq overtaken
        BY <1>l, <2>1, <2>3 DEF LateOK
      <3> QED BY <1>0, <2>1, <2>3, <3>1 DEF LateOK
    <2> QED BY <1>1, <2>2, <2>3
  <1>3. PastIsClosed'
    <2>1. CASE proof' = proof
      BY <1>0, <2>1 DEF PastIsClosed
    <2>2. CASE proof' = proof + 1 /\ client = "told" /\ answer.challenge
      <3>1. \A p \in Proofs : p < proof' => p \in 1..proof
        BY <2>2 DEF Proofs, SurfaceTypeOK
      <3> QED BY <1>0, <2>2, <3>1 DEF PastIsClosed, NoChallengeWhileOpen
    <2> QED BY <1>1, <2>1, <2>2
  <1>4. NoChallengeWhileOpen' /\ SettlementIsTold'
    BY <1>0 DEF NoChallengeWhileOpen, SettlementIsTold
  <1> QED BY <1>2, <1>3, <1>4, <1>5

Closed(p) == row[p] # "reserved" /\ chain[p] # "open"

\* A step of one proof's run, or of the chain or reconciliation about it, reopens
\* no proof; when it tells the client, it tells of the client's own proof.
LEMMA RunStepKeepsSurface ==
    ASSUME SurfaceInv, NEW p \in Proofs, UNCHANGED <<way, proof>>,
           SurfaceTypeOK', RunsOK', LateOK', overtaken \subseteq overtaken',
           \A k \in Proofs : Closed(k) => Closed(k)',
           \/ UNCHANGED <<client, answer, verdict>>
           \/ proof = p /\ SettlementIsTold' /\ (answer'.challenge => Closed(p)')
    PROVE  SurfaceInv'
  <1> USE ProofBound DEF SurfaceInv
  <1>1. PastIsClosed'
    BY DEF PastIsClosed, Closed
  <1>2. \A k \in 1..proof : k \in Proofs /\ (k = proof \/ k < proof)
    BY DEF SurfaceTypeOK, Proofs
  <1>3. NoChallengeWhileOpen'
    BY <1>1, <1>2 DEF NoChallengeWhileOpen, PastIsClosed, Closed
  <1>4. SettlementIsTold'
    BY DEF SettlementIsTold
  <1> QED BY <1>1, <1>3, <1>4

\* How a run ends, told or not.
LEMMA EndOfRun ==
    ASSUME SurfaceInv, NEW p \in Proofs, NEW shown, NEW learned, EndRun(p, shown, learned),
           UNCHANGED <<proof, late>>,
           shown.settlement = "success" <=> learned = "settled",
           learned = "unknown" => ~shown.challenge /\ ~shown.retryable,
           shown.challenge => Closed(p)'
    PROVE  /\ run' = [run EXCEPT ![p] = "idle"]
           /\ \/ UNCHANGED <<client, answer, verdict>>
              \/ proof = p /\ SettlementIsTold' /\ (answer'.challenge => Closed(p)')
           /\ LateOK' /\ overtaken \subseteq overtaken' /\ overtaken' \subseteq Proofs
  <1>1. CASE Tell(shown, learned) /\ proof = p
    BY <1>1, TellKeepsLate DEF EndRun, Tell, SettlementIsTold
  <1>2. CASE UNCHANGED <<client, answer, verdict, overtaken>>
    BY <1>2 DEF EndRun, SurfaceInv, SurfaceTypeOK, LateOK
  <1> QED BY <1>1, <1>2 DEF EndRun

\* A proof is admitted, for the client or for a request it has abandoned.
LEMMA AdmitKeepsSurface ==
    ASSUME SurfaceInv, NEW p \in Proofs, Admit(p) \/ AdmitLate(p) \/ RefuseLate(p)
    PROVE  SurfaceInv'
  <1> USE ProofBound DEF SurfaceInv
  <1>1. CASE RefuseLate(p)
    <2>1. UNCHANGED <<way, proof, client, row, chain, run, answer, verdict, overtaken>>
          /\ late' = late \ {p}
      BY <1>1 DEF RefuseLate
    <2>2. SurfaceTypeOK' /\ RunsOK' /\ LateOK'
      BY <2>1 DEF SurfaceTypeOK, RunsOK, LateOK
    <2>3. PastIsClosed' /\ NoChallengeWhileOpen' /\ SettlementIsTold'
      BY <2>1 DEF PastIsClosed, NoChallengeWhileOpen, SettlementIsTold
    <2> QED BY <2>2, <2>3
  <1>2. CASE Admit(p) \/ AdmitLate(p)
    <2>1. /\ row' = [row EXCEPT ![p] = "reserved"] /\ Claimable(p)
          /\ run' = [run EXCEPT ![p] = IF way.deferred THEN "calling" ELSE "settling"]
          /\ UNCHANGED <<way, proof, chain, answer, verdict, overtaken>>
          /\ late' \in {late, late \ {p}}
          /\ client' = client \/ client' = "attending"
      BY <1>2 DEF Admit, AdmitLate, ReserveProof
    <2>2. SurfaceTypeOK'
      BY <2>1 DEF SurfaceTypeOK
    <2>3. chain[p] # "open"
      BY <2>1 DEF Claimable, RunsOK
    <2>4. RunsOK'
      BY <2>1, <2>3 DEF RunsOK, SurfaceTypeOK
    <2>5. LateOK'
      BY <2>1 DEF LateOK
    <2>6. p < proof => way.carrier # "own" \/ p \in overtaken
      BY <1>2 DEF Admit, AdmitLate, ReadProof, LateOK, SurfaceTypeOK, Proofs
    <2>7. PastIsClosed'
      BY <2>1, <2>6 DEF PastIsClosed, SurfaceTypeOK
    <2>8. NoChallengeWhileOpen'
      <3>1. CASE client' = "attending"
        BY <3>1 DEF NoChallengeWhileOpen
      <3>2. CASE client' = client /\ p \in late
        <4>1. client = "told" /\ answer.challenge => p \in overtaken
          BY <3>2 DEF LateOK
        <4>2. \A k \in (1..proof) \ {p} : row'[k] = row[k]
          BY <2>1 DEF SurfaceTypeOK, Proofs
        <4> QED BY <2>1, <3>2, <4>1, <4>2 DEF NoChallengeWhileOpen
      <3> QED BY <1>2, <3>1, <3>2 DEF Admit, AdmitLate
    <2>9. SettlementIsTold'
      BY <2>1 DEF SettlementIsTold
    <2> QED BY <2>2, <2>4, <2>5, <2>7, <2>8, <2>9
  <1> QED BY <1>1, <1>2

\* A settlement is answered.
LEMMA SettlementKeepsSurface ==
    ASSUME SurfaceInv, NEW p \in Proofs, Settled(p) \/ NotSettled(p) \/ Unconfirmed(p)
    PROVE  SurfaceInv'
  <1> USE DEF SurfaceInv
  <1>0. UNCHANGED <<way, proof, late>> /\ run[p] = "settling" /\ row[p] = "reserved"
    BY DEF Settled, NotSettled, Unconfirmed, RunsOK
  <1>1. CASE Settled(p)
    <2>1. /\ run' = [run EXCEPT ![p] = IF way.deferred THEN "idle" ELSE "calling"]
          /\ \/ UNCHANGED <<client, answer, verdict>>
             \/ proof = p /\ SettlementIsTold' /\ (answer'.challenge => Closed(p)')
          /\ LateOK' /\ overtaken \subseteq overtaken' /\ overtaken' \subseteq Proofs
      <3>1. DeliveredAnswer.settlement = "success" /\ ~DeliveredAnswer.challenge
        BY DEF DeliveredAnswer, Shown
      <3>2. UNCHANGED <<client, answer, verdict, overtaken>> => LateOK' /\ overtaken' \subseteq Proofs
        BY <1>0 DEF LateOK, SurfaceTypeOK
      <3> QED BY <1>0, <1>1, <3>1, <3>2, EndOfRun DEF Settled
    <2>2. SurfaceTypeOK' /\ RunsOK'
      BY <1>0, <1>1, <2>1 DEF Settled, SurfaceTypeOK, RunsOK
    <2>3. \A k \in Proofs : Closed(k) => Closed(k)'
      BY <1>1 DEF Settled, SurfaceTypeOK, Closed
    <2> QED BY <1>0, <2>1, <2>2, <2>3, RunStepKeepsSurface
  <1>2. CASE NotSettled(p)
    <2>1. PICK err \in {SettlementRefused, CommerceError("PAYMENT_PROVIDER_UNAVAILABLE")} :
             EndRun(p, ErrorAnswer(err), "refused")
      BY <1>2 DEF NotSettled
    <2>2. Closed(p)'
      BY <1>0, <1>2 DEF NotSettled, Closed, SurfaceTypeOK, RunsOK
    <2>3. err.payment = "none"
      BY SettlementErrors, PlainErrors
    <2>4. ErrorAnswer(err).settlement # "success"
      BY <2>3, SurfacesAgree
    <2>5. /\ run' = [run EXCEPT ![p] = "idle"]
          /\ \/ UNCHANGED <<client, answer, verdict>>
             \/ proof = p /\ SettlementIsTold' /\ (answer'.challenge => Closed(p)')
          /\ LateOK' /\ overtaken \subseteq overtaken' /\ overtaken' \subseteq Proofs
      BY <1>0, <2>1, <2>2, <2>4, EndOfRun
    <2>6. SurfaceTypeOK' /\ RunsOK'
      BY <1>0, <1>2, <2>5 DEF NotSettled, SurfaceTypeOK, RunsOK
    <2>7. \A k \in Proofs : Closed(k) => Closed(k)'
      BY <1>2 DEF NotSettled, SurfaceTypeOK, Closed
    <2> QED BY <1>0, <2>5, <2>6, <2>7, RunStepKeepsSurface
  <1>3. CASE Unconfirmed(p)
    <2>1. PICK hash \in BOOLEAN : EndRun(p, ErrorAnswer(SettlementUncertain(hash)), "unknown")
      BY <1>3 DEF Unconfirmed
    <2>2. LET shown == ErrorAnswer(SettlementUncertain(hash))
          IN  shown.settlement # "success" /\ ~shown.challenge /\ ~shown.retryable
      BY SettlementErrors, SurfacesAgree DEF Retryable
    <2>3. /\ run' = [run EXCEPT ![p] = "idle"]
          /\ \/ UNCHANGED <<client, answer, verdict>>
             \/ proof = p /\ SettlementIsTold' /\ (answer'.challenge => Closed(p)')
          /\ LateOK' /\ overtaken \subseteq overtaken' /\ overtaken' \subseteq Proofs
      BY <1>0, <2>1, <2>2, EndOfRun
    <2>4. SurfaceTypeOK' /\ RunsOK'
      BY <1>0, <1>3, <2>3 DEF Unconfirmed, SurfaceTypeOK, RunsOK
    <2>5. \A k \in Proofs : Closed(k) => Closed(k)'
      BY <1>0, <1>3 DEF Unconfirmed, SurfaceTypeOK, Closed
    <2> QED BY <1>0, <2>3, <2>4, <2>5, RunStepKeepsSurface
  <1> QED BY <1>1, <1>2, <1>3

\* The backend answers or fails.
LEMMA BackendKeepsSurface ==
    ASSUME SurfaceInv, NEW p \in Proofs, BackendAnswers(p) \/ BackendFails(p)
    PROVE  SurfaceInv'
  <1> USE DEF SurfaceInv
  <1>0. /\ UNCHANGED <<way, proof, chain, late>> /\ run[p] = "calling" /\ way.deferred \in BOOLEAN
        /\ row[p] = IF way.deferred THEN "reserved" ELSE "settled"
    BY DEF BackendAnswers, BackendFails, RunsOK, SurfaceTypeOK
  <1>1. CASE BackendAnswers(p)
    <2>1. /\ run' = [run EXCEPT ![p] = IF way.deferred THEN "settling" ELSE "idle"]
          /\ \/ UNCHANGED <<client, answer, verdict>>
             \/ proof = p /\ SettlementIsTold' /\ (answer'.challenge => Closed(p)')
          /\ LateOK' /\ overtaken \subseteq overtaken' /\ overtaken' \subseteq Proofs
      <3>1. DeliveredAnswer.settlement = "success" /\ ~DeliveredAnswer.challenge
        BY DEF DeliveredAnswer, Shown
      <3>2. UNCHANGED <<client, answer, verdict, overtaken>> => LateOK' /\ overtaken' \subseteq Proofs
        BY <1>0 DEF LateOK, SurfaceTypeOK
      <3> QED BY <1>0, <1>1, <3>1, <3>2, EndOfRun DEF BackendAnswers
    <2>2. SurfaceTypeOK' /\ RunsOK'
      BY <1>0, <1>1, <2>1 DEF BackendAnswers, SurfaceTypeOK, RunsOK
    <2>3. \A k \in Proofs : Closed(k) => Closed(k)'
      BY <1>1 DEF BackendAnswers, Closed
    <2> QED BY <1>0, <2>1, <2>2, <2>3, RunStepKeepsSurface
  <1>2. CASE BackendFails(p)
    <2>1. PICK err \in BackendErrors(~way.deferred) :
             EndRun(p, ErrorAnswer(err), IF way.deferred THEN "refused" ELSE "settled")
      BY <1>2 DEF BackendFails
    <2>2. /\ err.code \in {"BACKEND_ERROR", "BACKEND_TIMEOUT"}
          /\ err.payment = "settled" <=> ~way.deferred
          /\ ~err.challenge
      BY <1>0, BackendErrorFields
    <2>3. /\ ErrorAnswer(err).settlement = "success" <=> ~way.deferred
          /\ ~ErrorAnswer(err).challenge
      BY <2>2, SurfacesAgree
    <2>4. /\ run' = [run EXCEPT ![p] = "idle"]
          /\ \/ UNCHANGED <<client, answer, verdict>>
             \/ proof = p /\ SettlementIsTold' /\ (answer'.challenge => Closed(p)')
          /\ LateOK' /\ overtaken \subseteq overtaken' /\ overtaken' \subseteq Proofs
      BY <1>0, <2>1, <2>3, EndOfRun
    <2>5. SurfaceTypeOK' /\ RunsOK'
      BY <1>0, <1>2, <2>4 DEF BackendFails, SurfaceTypeOK, RunsOK
    <2>6. \A k \in Proofs : Closed(k) => Closed(k)'
      BY <1>0, <1>2 DEF BackendFails, SurfaceTypeOK, Closed
    <2> QED BY <1>0, <2>4, <2>5, <2>6, RunStepKeepsSurface
  <1> QED BY <1>1, <1>2

\* The chain decides an open proof, or a reconcile run does.
LEMMA ChainKeepsSurface ==
    ASSUME SurfaceInv, NEW p \in Proofs, ChainDecides(p) \/ Reconciled(p)
    PROVE  SurfaceInv'
  <1> USE DEF SurfaceInv
  <1>1. UNCHANGED <<way, proof, run, client, answer, verdict, late, overtaken>> /\ row[p] = "settlement-uncertain"
    BY DEF ChainDecides, Reconciled, RunsOK
  <1>2. SurfaceTypeOK' /\ RunsOK' /\ LateOK'
    BY <1>1 DEF LateOK, ChainDecides, Reconciled, SurfaceTypeOK, RunsOK
  <1>3. \A k \in Proofs : Closed(k) => Closed(k)'
    BY <1>1 DEF ChainDecides, Reconciled, SurfaceTypeOK, Closed
  <1> QED BY <1>1, <1>2, <1>3, RunStepKeepsSurface

\* Every step keeps the invariant.
LEMMA SurfaceSteps == SurfaceInv /\ [SurfaceNext]_surfaceVars => SurfaceInv'
  <1> SUFFICES ASSUME SurfaceInv, [SurfaceNext]_surfaceVars PROVE SurfaceInv'
    OBVIOUS
  <1>1. CASE UNCHANGED surfaceVars
    BY <1>1 DEF surfaceVars, SurfaceInv, SurfaceTypeOK, RunsOK, LateOK, PastIsClosed,
                NoChallengeWhileOpen, SettlementIsTold
  <1>2. CASE SurfaceNext
    BY <1>2, AnswerKeepsSurface, ClientKeepsSurface, AdmitKeepsSurface, SettlementKeepsSurface,
       BackendKeepsSurface, ChainKeepsSurface DEF SurfaceNext
  <1> QED BY <1>1, <1>2

(***************************************************************************)
(* On HTTP, MCP and A2A, for both rails, both orders of settlement and any *)
(* number of proofs: sendInvokeError, errorResult and paymentRequiredTask  *)
(* show no challenge to a client whose earlier proof can still be charged, *)
(* unless an abandoned request of that proof, still in its admission when  *)
(* the challenge was shown, is what charges it.                            *)
(***************************************************************************)
THEOREM NoDoubleChallenge == SurfaceSpec => []NoChallengeWhileOpen
  <1>1. SurfaceInv => NoChallengeWhileOpen
    BY DEF SurfaceInv
  <1> QED BY <1>1, SurfaceStarts, SurfaceSteps, PTL DEF SurfaceSpec

\* settlementResponseFromDetails, paymentFailureMetadata and toDeliverySummary
\* report a settlement exactly when the run settled, on every surface and rail.
THEOREM SettlementReported == SurfaceSpec => []SettlementIsTold
  <1>1. SurfaceInv => SettlementIsTold
    BY DEF SurfaceInv
  <1> QED BY <1>1, SurfaceStarts, SurfaceSteps, PTL DEF SurfaceSpec

-----------------------------------------------------------------------------
(* The surfaces keep the same ledger as the pipeline.                      *)

\* The attempts of a client's proofs as a ledger of statuses.
Ledger == INSTANCE IdealLedger WITH
    Key <- Proofs,
    status <- [p \in Proofs |-> IF row[p] = "none" THEN "absent" ELSE row[p]]

\* What a client's proofs go through on any surface is what the pipeline and its
\* resolvers do to the attempts table: both implement one abstract ledger, in
\* which a settled attempt is final.
THEOREM SurfacesKeepLedger == SurfaceSpec => Ledger!LedgerSpec
  <1> DEFINE StatusOfProof(p) == IF row[p] = "none" THEN "absent" ELSE row[p]
             status == [p \in Proofs |-> StatusOfProof(p)]
  <1>1. SurfaceInit => Ledger!LedgerInit
    BY DEF SurfaceInit, Ledger!LedgerInit
  <1>2. SurfaceInv /\ [SurfaceNext]_surfaceVars => [Ledger!LedgerNext]_status
    <2> SUFFICES ASSUME SurfaceInv, [SurfaceNext]_surfaceVars
                 PROVE  Ledger!LedgerNext \/ status' = status
      OBVIOUS
    <2>t. row \in [Proofs -> {"none", "reserved", "settled", "rejected", "settlement-uncertain"}]
      BY DEF SurfaceInv, SurfaceTypeOK
    <2>m. ASSUME NEW p \in Proofs, NEW to, row' = [row EXCEPT ![p] = to],
                 \/ to = "reserved" /\ row[p] \in {"none", "rejected"}
                 \/ to = "settlement-uncertain" /\ row[p] = "reserved"
                 \/ /\ to \in {"settled", "rejected"}
                    /\ row[p] \in {"reserved", "settlement-uncertain"}
          PROVE  Ledger!LedgerNext
      <3>1. status' = [status EXCEPT ![p] = to]
        BY <2>m, <2>t
      <3>2. status[p] = IF row[p] = "none" THEN "absent" ELSE row[p]
        OBVIOUS
      <3> QED
        BY <2>m, <3>1, <3>2
           DEF Ledger!LedgerNext, Ledger!Claim, Ledger!Doubt, Ledger!Settle, Ledger!Reject,
               Ledger!Move
    <2>1. CASE row' = row
      BY <2>1
    <2>2. ASSUME NEW p \in Proofs, Admit(p) \/ AdmitLate(p) PROVE Ledger!LedgerNext
      BY <2>2, <2>m DEF Admit, AdmitLate, ReserveProof, Claimable
    <2>3. ASSUME NEW p \in Proofs, Settled(p) \/ NotSettled(p) \/ Unconfirmed(p)
          PROVE  Ledger!LedgerNext
      <3>1. row[p] = "reserved"
        BY <2>3 DEF Settled, NotSettled, Unconfirmed, SurfaceInv, RunsOK
      <3> QED BY <2>3, <2>m, <3>1 DEF Settled, NotSettled, Unconfirmed
    <2>4. ASSUME NEW p \in Proofs, BackendFails(p) PROVE Ledger!LedgerNext \/ row' = row
      <3>1. way.deferred => row[p] = "reserved"
        BY <2>4 DEF BackendFails, SurfaceInv, RunsOK
      <3> QED BY <2>4, <2>m, <3>1 DEF BackendFails
    <2>5. ASSUME NEW p \in Proofs, Reconciled(p) PROVE Ledger!LedgerNext
      BY <2>5, <2>m DEF Reconciled
    <2> QED
      BY <2>1, <2>2, <2>3, <2>4, <2>5
         DEF SurfaceNext, surfaceVars, ClientSends, RefuseEarly, Challenge, GiveUp, ClientActs,
             RefuseProof, RefuseReplay, RefuseLate, BackendAnswers, ChainDecides
  <1> QED
    BY <1>1, <1>2, SurfaceStarts, SurfaceSteps, PTL DEF SurfaceSpec, Ledger!LedgerSpec
=============================================================================
