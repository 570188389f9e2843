--------------------------- MODULE GatewayProcess ---------------------------
(***************************************************************************)
(* The gateway as a process (src/gateway/run.ts, server.ts, adapters.ts    *)
(* and the MCP adapter): startup, the mount's cap on requests, the MCP     *)
(* adapter's semaphore on tool calls, clients that leave, and shutdown by  *)
(* signal.  A connection carries one request; an MCP request may be a      *)
(* batch of tool calls, a request of the HTTP routes is one call.          *)
(***************************************************************************)
EXTENDS Naturals, Sequences, FiniteSets

CONSTANTS
    Call, Conn,
    ConnOf,      \* the request that a call belongs to
    OverMcp,     \* the requests that go to the MCP mount
    MountCap,    \* MOUNT_MAX_CONCURRENT_REQUESTS
    CallCap,     \* MAX_CONCURRENT_TOOL_CALLS
    QueueCap     \* MAX_QUEUED_TOOL_CALLS

ASSUME GatewayConstants ==
    /\ ConnOf \in [Call -> Conn]
    /\ OverMcp \subseteq Conn
    /\ MountCap \in Nat \ {0} /\ CallCap \in Nat \ {0} /\ QueueCap \in Nat

VARIABLES
    phase,     \* where run.ts is
    forced,    \* a second signal ended the process
    store,     \* the receipt store
    adapter,   \* the MCP adapter
    link,      \* each request's connection
    stage,     \* each request's handler
    inFlight,  \* the mount's counter
    at,        \* each call
    permits,   \* inFlightToolCalls
    waiters    \* toolCallWaiters, oldest first

processVars == <<phase, forced, store, adapter>>
requestVars == <<link, stage, inFlight>>
callVars == <<at, permits, waiters>>
gatewayVars == <<processVars, requestVars, callVars>>

Holding == {"granted", "executing"}
Final == {"finished", "refused", "left"}
Mcp(c) == ConnOf[c] \in OverMcp
CallsOf(q) == {c \in Call : ConnOf[c] = q}

GatewayInit ==
    /\ phase = "loading"
    /\ forced = FALSE
    /\ store = "none"
    /\ adapter = "idle"
    /\ link = [q \in Conn |-> "none"]
    /\ stage = [q \in Conn |-> "none"]
    /\ inFlight = 0
    /\ at = [c \in Call |-> "none"]
    /\ permits = 0
    /\ waiters = <<>>

Alive == phase # "exited"

-----------------------------------------------------------------------------
(* runGateway.                                                             *)

\* Config and peers first: without them no database is left behind.
OpenStore ==
    /\ phase = "loading"
    /\ \/ phase' = "exited" /\ UNCHANGED store
       \/ phase' = "exited" /\ store' = "closed"
       \/ phase' = "opened" /\ store' = "open"
    /\ UNCHANGED <<forced, adapter, requestVars, callVars>>

\* start() registers a tool for each resource it can name, or throws.
AdapterStarts == adapter' \in {"started", "failed"}

\* A failing adapter is reported and left out; two that claim one path end the
\* start.
StartAndMountAdapters ==
    \/ AdapterStarts /\ phase' = "created"
    \/ UNCHANGED adapter /\ phase' = "exited"

\* createGateway: routes and adapters are in place before anything listens.
CreateGateway ==
    /\ phase = "opened"
    /\ StartAndMountAdapters
    /\ UNCHANGED <<forced, store, requestVars, callVars>>

\* gateway.listen and the signal handlers; a port in use ends the start, with
\* the store left as it is.
Listen ==
    /\ phase = "created"
    /\ phase' \in {"serving", "exited"}
    /\ UNCHANGED <<forced, store, adapter, requestVars, callVars>>

-----------------------------------------------------------------------------
(* Requests: mountHttpAdapter and the adapter's handleHttp.                *)

\* A request of the routes, one over the cap, or one that is being read.
Accept(q) ==
    /\ phase = "serving"
    /\ link[q] = "none"
    /\ IF q \in OverMcp /\ (adapter = "failed" \/ inFlight >= MountCap)
       THEN /\ link' = [link EXCEPT ![q] = "over"]
            /\ stage' = [stage EXCEPT ![q] = "done"]
            /\ UNCHANGED inFlight
       ELSE /\ link' = [link EXCEPT ![q] = "open"]
            /\ stage' = [stage EXCEPT ![q] = IF q \in OverMcp THEN "reading" ELSE "calling"]
            /\ inFlight' = IF q \in OverMcp THEN inFlight + 1 ELSE inFlight
    /\ UNCHANGED <<processVars, callVars>>

\* The response closes before it is written, which aborts the request's signal.
Disconnect(q) ==
    /\ Alive
    /\ link[q] = "open"
    /\ link' = [link EXCEPT ![q] = "gone"]
    /\ UNCHANGED <<processVars, stage, inFlight, callVars>>

\* The handler ends; what it held of the mount is given back on every path.
Close(q) ==
    /\ stage' = [stage EXCEPT ![q] = "done"]
    /\ link' = [link EXCEPT ![q] = IF @ = "open" THEN "over" ELSE @]
    /\ inFlight' = IF q \in OverMcp THEN inFlight - 1 ELSE inFlight

\* The body is too large, cannot be read, or is no request for this revision.
BodyRejected(q) ==
    /\ Alive
    /\ stage[q] = "reading"
    /\ Close(q)
    /\ UNCHANGED <<processVars, callVars>>

\* A stopped adapter has no handler left to pass the body to.
BodyRead(q) ==
    /\ Alive
    /\ stage[q] = "reading"
    /\ adapter = "started"
    /\ stage' = [stage EXCEPT ![q] = "calling"]
    /\ UNCHANGED <<processVars, link, inFlight, callVars>>

\* The answer is written once every call has one; the transport may give up a
\* request whose client has left before that.
Respond(q) ==
    /\ Alive
    /\ stage[q] = "calling"
    /\ link[q] = "gone" \/ \A c \in CallsOf(q) : at[c] \in Final
    /\ Close(q)
    /\ UNCHANGED <<processVars, callVars>>

-----------------------------------------------------------------------------
(* Tool calls: handleToolCall.                                             *)

\* Mutant: the permit is only counted back, and no waiter is woken.
ReleasedByCount(c, to) ==
    /\ at' = [at EXCEPT ![c] = to]
    /\ permits' = permits - 1
    /\ UNCHANGED waiters

\* releaseToolCallSlot: the permit goes to the oldest waiter, if there is one.
Released(c, to) ==
    IF waiters # <<>>
    THEN /\ at' = [at EXCEPT ![c] = to, ![Head(waiters)] = "granted"]
         /\ waiters' = Tail(waiters)
         /\ UNCHANGED permits
    ELSE /\ at' = [at EXCEPT ![c] = to]
         /\ permits' = permits - 1
         /\ UNCHANGED waiters

\* acquireToolCallSlot: a permit, a place in the queue, or GATEWAY_BUSY.
Acquire(c) ==
    \/ /\ permits < CallCap
       /\ permits' = permits + 1
       /\ at' = [at EXCEPT ![c] = "granted"]
       /\ UNCHANGED waiters
    \/ /\ permits >= CallCap /\ Len(waiters) < QueueCap
       /\ waiters' = Append(waiters, c)
       /\ at' = [at EXCEPT ![c] = "queued"]
       /\ UNCHANGED permits
    \/ /\ permits >= CallCap /\ Len(waiters) >= QueueCap
       /\ at' = [at EXCEPT ![c] = "refused"]
       /\ UNCHANGED <<permits, waiters>>

StartCall(c) ==
    /\ Alive
    /\ at[c] = "none"
    /\ stage[ConnOf[c]] = "calling"
    /\ IF ~Mcp(c) THEN at' = [at EXCEPT ![c] = "executing"] /\ UNCHANGED <<permits, waiters>>
       ELSE IF adapter = "started" THEN Acquire(c)
       ELSE at' = [at EXCEPT ![c] = "refused"] /\ UNCHANGED <<permits, waiters>>
    /\ UNCHANGED <<processVars, requestVars>>

\* Mutant: a call whose client has left keeps the permit it was handed.
ProceedKeepsPermit(c) ==
    /\ Alive
    /\ at[c] = "granted"
    /\ at' = [at EXCEPT ![c] = IF link[ConnOf[c]] = "gone" THEN "left" ELSE "executing"]
    /\ UNCHANGED <<permits, waiters, processVars, requestVars>>

\* The last point of cancellation: a client that left passes its permit on.
Proceed(c) ==
    /\ Alive
    /\ at[c] = "granted"
    /\ IF link[ConnOf[c]] = "gone" THEN Released(c, "left")
       ELSE at' = [at EXCEPT ![c] = "executing"] /\ UNCHANGED <<permits, waiters>>
    /\ UNCHANGED <<processVars, requestVars>>

\* pipeline.execute returns or throws: nothing cancels it once it has started.
Finish(c) ==
    /\ Alive
    /\ at[c] = "executing"
    /\ IF Mcp(c) THEN Released(c, "finished")
       ELSE at' = [at EXCEPT ![c] = "finished"] /\ UNCHANGED <<permits, waiters>>
    /\ UNCHANGED <<processVars, requestVars>>

-----------------------------------------------------------------------------
(* Shutdown.                                                               *)

FirstSignal ==
    /\ phase = "serving"
    /\ phase' = "draining"
    /\ UNCHANGED <<forced, store, adapter, requestVars, callVars>>

SecondSignal ==
    /\ phase \in {"draining", "drained"}
    /\ phase' = "exited"
    /\ forced' = TRUE
    /\ UNCHANGED <<store, adapter, requestVars, callVars>>

\* stop() drops the handler; calls that have started keep what they hold.
AdapterStopped == IF adapter = "started" THEN "stopped" ELSE adapter

\* server.close waits for connections; the adapters are stopped after it.
StopAdapters ==
    /\ phase = "draining"
    /\ \A q \in Conn : link[q] # "open"
    /\ phase' = "drained"
    /\ adapter' = AdapterStopped
    /\ UNCHANGED <<forced, store, requestVars, callVars>>

\* Providers and store are closed, and the process exits with status 0.
CloseStore ==
    /\ phase = "drained"
    /\ store' = "closed"
    /\ phase' = "exited"
    /\ UNCHANGED <<forced, adapter, requestVars, callVars>>

\* A provider or the store fails to close: the process exits with status 1.
UncleanExit ==
    /\ phase = "drained"
    /\ phase' = "exited"
    /\ UNCHANGED <<forced, store, adapter, requestVars, callVars>>

CallStep(c) == StartCall(c) \/ Proceed(c) \/ Finish(c)

GatewayNext ==
    \/ OpenStore \/ CreateGateway \/ Listen
    \/ FirstSignal \/ SecondSignal \/ StopAdapters \/ CloseStore \/ UncleanExit
    \/ \E q \in Conn : Accept(q) \/ Disconnect(q) \/ BodyRejected(q) \/ BodyRead(q) \/ Respond(q)
    \/ \E c \in Call : CallStep(c)

(***************************************************************************)
(* Pipeline runs end: every call that one makes to a backend, facilitator  *)
(* or chain has a timeout.  Nothing is assumed of clients, who may stall   *)
(* a body, stay connected or leave, nor of signals.                        *)
(***************************************************************************)
GatewayFairness == \A c \in Call : WF_gatewayVars(CallStep(c))

GatewaySpec == GatewayInit /\ [][GatewayNext]_gatewayVars /\ GatewayFairness

-----------------------------------------------------------------------------
\* No permit and no place on the mount is lost or given out twice, whoever
\* leaves while queued, handed a permit or executing (releaseToolCallSlot,
\* acquireToolCallSlot and the finally of mountHttpAdapter); calls wait only
\* while every permit is in use.
SlotsAreAccounted ==
    /\ permits = Cardinality({c \in Call : Mcp(c) /\ at[c] \in Holding})
    /\ permits <= CallCap
    /\ waiters # <<>> => permits = CallCap
    /\ inFlight = Cardinality({q \in OverMcp : stage[q] \in {"reading", "calling"}})
    /\ inFlight <= MountCap

\* A queued tool call gets its permit (releaseToolCallSlot hands it to the oldest
\* waiter), unless the process ends.
QueuedCallsRun == \A c \in Call : at[c] = "queued" ~> at[c] # "queued" \/ ~Alive

\* docs/security.md: "In-flight requests finish before adapters stop; `close()`
\* resolves after both."  Without a second signal, no call is executing once
\* gateway.close has stopped the adapters and goes on to close the store.
InFlightFinishFirst ==
    phase \in {"drained", "exited"} /\ ~forced => \A c \in Call : at[c] # "executing"
=============================================================================
