--------------------------- MODULE SessionGateway ---------------------------
(***************************************************************************)
(* One session of the gateway: its event bus with the replay ring, the     *)
(* turns that publish on it, the SSE streams that read it and reconnect,   *)
(* the permission requests a turn waits for, cancellation, and the three   *)
(* ways the session's memory is reclaimed (idle sweep, DELETE, shutdown).  *)
(* A handler runs without interruption up to its next await.               *)
(***************************************************************************)
EXTENDS Integers, Sequences, FiniteSets

CONSTANTS
    Turns,          \* POST /turns requests
    NoTurn,
    Streams,        \* clients of GET /events
    Answers,        \* POST /approvals requests
    MaxRing,
    MaxBuses,       \* bound: buses made for the session
    MaxWork,        \* bound: events of a turn between its first and its last
    MaxConnects,    \* bound: connections of a client
    MaxMishaps      \* bound: cancels, idle times, deletes, shutdowns and disconnects

ASSUME NoTurnAssumption == NoTurn \notin Turns
ASSUME MaxRingAssumption == MaxRing \in Nat \ {0}
ASSUME BoundsAssumption == {MaxBuses, MaxWork, MaxConnects, MaxMishaps} \subseteq Nat

VARIABLES
    bus,        \* [1..MaxBuses -> bus]: every bus ever made for the session
    made,       \* buses made
    current,    \* the one in the map, or 0
    turn,       \* [Turns -> turn]
    stream,     \* [Streams -> connection]
    answer,     \* [Answers -> handler of an answer]
    idle,       \* whether the session has not been touched for the idle time
    context,    \* the session context in the map, or 0
    disposal,   \* [Disposers -> a call of disposeSession and the context it closes]
    mishaps     \* how much of MaxMishaps has happened

\* The supervisor's sweep, DELETE /sessions/:id and runtime.dispose.
Disposers == {"sweep", "delete", "shutdown"}

vars == <<bus, made, current, turn, stream, answer, idle, context, disposal, mishaps>>

MinOf(a, b) == IF a < b THEN a ELSE b
MaxOf(a, b) == IF a > b THEN a ELSE b

-----------------------------------------------------------------------------
(* The event bus.                                                           *)

NewBus == [closed |-> FALSE, seq |-> 0, ring |-> <<>>, start |-> 0, active |-> FALSE,
           subscribers |-> {}, turnAbort |-> NoTurn]

\* getOrCreateBus: the bus that a handler works with from now on.
CanGetBus == current # 0 \/ made < MaxBuses
GotBus == IF current # 0 THEN current ELSE made + 1
GetOrCreateBus ==
    /\ CanGetBus
    /\ current' = GotBus
    /\ made' = IF current # 0 THEN made ELSE made + 1

MarkTurnStart(b) == [b EXCEPT !.start = b.seq + 1, !.active = TRUE]

Retained(ring, ev) == IF Len(ring) + 1 > MaxRing THEN Tail(Append(ring, ev)) ELSE Append(ring, ev)

\* publish of the next event: nothing on a closed bus, whose sequence numbers
\* nobody reads.
Published(b, kind) ==
    IF b.closed THEN b
    ELSE [b EXCEPT !.seq = @ + 1,
                   !.ring = Retained(@, [seq |-> b.seq + 1, kind |-> kind]),
                   !.active = @ /\ kind # "end"]

\* The fan-out: a subscriber's callback appends to the queue of its stream.
FannedOut(i, kind) ==
    [s \in Streams |->
        IF s \in bus[i].subscribers
        THEN [stream[s] EXCEPT !.queue = Append(@, [seq |-> bus[i].seq + 1, kind |-> kind])]
        ELSE stream[s]]

Publish(i, kind) ==
    /\ bus' = [bus EXCEPT ![i] = Published(@, kind)]
    /\ stream' = FannedOut(i, kind)
    /\ idle' = FALSE

\* close; the other fields of a closed bus are read by nobody.
ClosedBus == [NewBus EXCEPT !.closed = TRUE]

\* Mutant: the bus leaves the map, and nobody closes it.
DisposeBusQuietly ==
    /\ current' = 0
    /\ UNCHANGED bus

DisposeBus ==
    /\ current' = 0
    /\ bus' = IF current = 0 THEN bus ELSE [bus EXCEPT ![current] = ClosedBus]

-----------------------------------------------------------------------------
NoAnswer == [pc |-> "none", turn |-> NoTurn, approved |-> FALSE]

Init ==
    /\ bus = [i \in 1..MaxBuses |-> NewBus]
    /\ made = 0
    /\ current = 0
    /\ turn = [t \in Turns |-> [pc |-> "none", bus |-> 0, work |-> 0,
                                aborted |-> FALSE, asked |-> "no"]]
    /\ stream = [s \in Streams |-> [pc |-> "none", bus |-> 0, queue |-> <<>>, cursor |-> 0,
                                    next |-> 0, follow |-> FALSE, connects |-> 0]]
    /\ answer = [a \in Answers |-> NoAnswer]
    /\ idle = FALSE
    /\ context = 0
    /\ disposal = [d \in Disposers |-> [phase |-> "idle", context |-> 0]]
    /\ mishaps = 0

Mishap == mishaps < MaxMishaps /\ mishaps' = mishaps + 1

\* Requests are served, and the session's row exists.
Up == disposal["shutdown"].phase = "idle"
Open == Up /\ disposal["delete"].phase # "done"

-----------------------------------------------------------------------------
(* POST /turns and runTurnInBackground.                                     *)

\* The session exists; the body is awaited.
PostTurn(t) ==
    /\ Open
    /\ turn[t].pc = "none"
    /\ turn' = [turn EXCEPT ![t].pc = "parsing"]
    /\ UNCHANGED <<bus, made, current, stream, answer, idle, context, disposal, mishaps>>

\* The contexts that are being closed.
HalfClosed == {disposal[d].context : d \in Disposers} \ {0}
NewContext == CHOOSE c \in 1..(Cardinality(Disposers) + 1) : c \notin HalfClosed

\* getSessionContext: the cached one or a new one.
GetSessionContext == context' = IF context # 0 THEN context ELSE NewContext

\* The turn begins whether or not another one runs: mark the boundary,
\* register its abort controller.
BeginTurn(t) ==
    /\ turn[t].pc = "parsing"
    /\ disposal["shutdown"].phase # "done"
    /\ GetOrCreateBus
    /\ idle' = FALSE
    /\ bus' = [bus EXCEPT ![GotBus] = [MarkTurnStart(@) EXCEPT !.turnAbort = t]]
    /\ GetSessionContext
    /\ turn' = [turn EXCEPT ![t].pc = "running", ![t].bus = GotBus]
    /\ UNCHANGED <<stream, answer, disposal, mishaps>>

\* turnSignal: the turn's own controller or the bus's.
Aborted(t) == turn[t].aborted \/ bus[turn[t].bus].closed

\* An event of the model's stream or of a tool.
Emit(t) ==
    /\ turn[t].pc = "running"
    /\ ~Aborted(t)
    /\ turn[t].work < MaxWork
    /\ turn' = [turn EXCEPT ![t].work = @ + 1]
    /\ Publish(turn[t].bus, "work")
    /\ UNCHANGED <<made, current, answer, context, disposal, mishaps>>

\* createServerAsk: the request is pending before it is published.
Ask(t) ==
    /\ turn[t].pc = "running"
    /\ ~Aborted(t)
    /\ turn[t].work < MaxWork
    /\ turn[t].asked = "no"
    /\ turn' = [turn EXCEPT ![t].pc = "asking", ![t].asked = "pending", ![t].work = @ + 1]
    /\ Publish(turn[t].bus, "ask")
    /\ UNCHANGED <<made, current, answer, context, disposal, mishaps>>

\* turn_complete or turn_error, on every path.
EndTurn(t) ==
    /\ turn[t].pc = "running"
    /\ turn' = [turn EXCEPT ![t].pc = "ended"]
    /\ Publish(turn[t].bus, "end")
    /\ UNCHANGED <<made, current, answer, context, disposal, mishaps>>

\* What is left of a turn.
Over(r) == [r EXCEPT !.pc = "done", !.bus = 0, !.work = 0, !.aborted = FALSE]

\* The finally block: clearCurrentTurnAbort, whoever's controller it is.
FinishTurn(t) ==
    /\ turn[t].pc = "ended"
    /\ turn' = [turn EXCEPT ![t] = Over(@)]
    /\ bus' = [bus EXCEPT ![turn[t].bus].turnAbort = NoTurn]
    /\ UNCHANGED <<made, current, stream, answer, idle, context, disposal, mishaps>>

\* POST /cancel.
CancelTurn ==
    /\ Up
    /\ Mishap
    /\ current # 0
    /\ bus[current].turnAbort # NoTurn
    /\ turn' = [turn EXCEPT ![bus[current].turnAbort].aborted = TRUE]
    /\ UNCHANGED <<bus, made, current, stream, answer, idle, context, disposal>>

-----------------------------------------------------------------------------
(* POST /approvals and the approval queue.                                  *)

\* hasPending, then the body is awaited; otherwise the reply is a 404.
PostAnswer(a, t) ==
    /\ Open
    /\ answer[a].pc = "none"
    /\ turn[t].asked = "pending"
    /\ \E yes \in BOOLEAN : answer' = [answer EXCEPT ![a] = [pc |-> "parsing", turn |-> t, approved |-> yes]]
    /\ UNCHANGED <<bus, made, current, turn, stream, idle, context, disposal, mishaps>>

\* The promise settles and the turn goes on: the tool runs, is denied, or the
\* wait is rejected.  Nothing happens to a request that is not pending.
Settled(r, how) == IF r.asked = "pending" THEN [r EXCEPT !.asked = how, !.pc = "running"] ELSE r

\* resolve, which may come too late; the reply is a 200 all the same.  A refusal is not remembered.
Resolve(a) ==
    /\ answer[a].pc = "parsing"
    /\ turn' = [turn EXCEPT ![answer[a].turn] = Settled(@, IF answer[a].approved THEN "allow" ELSE "deny")]
    /\ answer' = [answer EXCEPT ![a] = IF @.approved THEN [@ EXCEPT !.pc = "200"] ELSE NoAnswer]
    /\ UNCHANGED <<bus, made, current, stream, idle, context, disposal, mishaps>>

\* Mutant: a response without the verdict.
ApprovalTimeoutAllows(t) ==
    /\ turn[t].asked = "pending"
    /\ turn' = [turn EXCEPT ![t] = Settled(@, "allow")]
    /\ UNCHANGED <<bus, made, current, stream, answer, idle, context, disposal, mishaps>>

\* The timer of createPending.
ApprovalTimeout(t) ==
    /\ turn[t].asked = "pending"
    /\ turn' = [turn EXCEPT ![t] = Settled(@, "deny")]
    /\ UNCHANGED <<bus, made, current, stream, answer, idle, context, disposal, mishaps>>

-----------------------------------------------------------------------------
(* GET /events.                                                             *)

\* What is left of a connection: the client's Last-Event-ID.
Gone(c) == [c EXCEPT !.pc = "closed", !.bus = 0, !.queue = <<>>, !.next = 0, !.follow = FALSE]

\* The bus is taken, the first comment line is awaited; ?follow=true or not.
Connect(s) ==
    /\ Open
    /\ stream[s].pc \in {"none", "closed"}
    /\ stream[s].connects < MaxConnects
    /\ GetOrCreateBus
    /\ idle' = (idle /\ current # 0)
    /\ \E follow \in BOOLEAN :
          stream' = [stream EXCEPT ![s].pc = "connecting", ![s].bus = GotBus, ![s].follow = follow,
                                   ![s].connects = @ + 1]
    /\ UNCHANGED <<bus, turn, answer, context, disposal, mishaps>>

\* filter, in the order of the ring: its events at the places in W, of which
\* this is the k-th.
Place(W, k) == CHOOSE i \in W : Cardinality({h \in W : h <= i}) = k
Filtered(ring, W) == [k \in 1..Cardinality(W) |-> ring[Place(W, k)]]

\* Mutant: the event that the client has already seen is replayed.
ReplayInclusive(s, b) ==
    Filtered(b.ring, {i \in 1..Len(b.ring) :
        IF stream[s].cursor > 0 THEN b.ring[i].seq >= stream[s].cursor ELSE b.ring[i].seq >= b.start})

\* The slice of the ring that subscribe replays: after Last-Event-ID, which
\* the client sends if it has one, or from the start of the turn.
Replay(s, b) ==
    Filtered(b.ring, {i \in 1..Len(b.ring) :
        IF stream[s].cursor > 0 THEN b.ring[i].seq > stream[s].cursor ELSE b.ring[i].seq >= b.start})

\* The first event that the client is owed: the one after its cursor, or the
\* first of the turn, as far as the ring reaches back.
Owed(s, b) ==
    MaxOf(IF stream[s].cursor > 0 THEN MinOf(stream[s].cursor, b.seq) + 1 ELSE MaxOf(b.start, 1),
          b.seq - MaxRing + 1)

\* A stream that does not follow has nothing to wait for if nothing was
\* replayed and no turn is active.
NothingToWaitFor(s, b) ==
    b.closed \/ (~stream[s].follow /\ Replay(s, b) = <<>> /\ ~b.active)

Subscribe(s) ==
    /\ stream[s].pc = "connecting"
    /\ LET i == stream[s].bus
           b == bus[i]
       IN IF NothingToWaitFor(s, b)
          THEN /\ stream' = [stream EXCEPT ![s] = Gone(@)]
               /\ UNCHANGED bus
          ELSE /\ stream' = [stream EXCEPT ![s].pc = "open", ![s].queue = Replay(s, b), ![s].next = Owed(s, b)]
               /\ bus' = [bus EXCEPT ![i].subscribers = @ \cup {s}]
    /\ idle' = FALSE
    /\ UNCHANGED <<made, current, turn, answer, context, disposal, mishaps>>

\* The finally block of the stream.
Unsubscribe(s) == bus' = [bus EXCEPT ![stream[s].bus].subscribers = @ \ {s}]

\* writeSSE of the oldest event; the end of a turn ends the stream.
WriteEvent(s) ==
    /\ stream[s].pc = "open"
    /\ ~bus[stream[s].bus].closed
    /\ stream[s].queue # <<>>
    /\ LET ev == Head(stream[s].queue)
           ends == ev.kind = "end" /\ ~stream[s].follow
           written == [stream[s] EXCEPT !.queue = Tail(@), !.next = @ + 1, !.cursor = ev.seq]
       IN /\ stream' = [stream EXCEPT ![s] = IF ends THEN Gone(written) ELSE written]
          /\ IF ends THEN Unsubscribe(s) ELSE UNCHANGED bus
    /\ UNCHANGED <<made, current, turn, answer, idle, context, disposal, mishaps>>

\* Mutant: the bus's abort signal wakes nobody.
BusAbortUnheard(s) ==
    /\ stream[s].pc = "open"
    /\ bus[stream[s].bus].closed
    /\ stream[s].queue # <<>>
    /\ stream' = [stream EXCEPT ![s] = Gone(@)]
    /\ UNCHANGED <<bus, made, current, turn, answer, idle, context, disposal, mishaps>>

\* The bus is closed: what was still queued is not written.
BusAbort(s) ==
    /\ stream[s].pc = "open"
    /\ bus[stream[s].bus].closed
    /\ stream' = [stream EXCEPT ![s] = Gone(@)]
    /\ UNCHANGED <<bus, made, current, turn, answer, idle, context, disposal, mishaps>>

\* The client goes away, in the middle of anything.
Disconnect(s) ==
    /\ stream[s].pc \in {"connecting", "open"}
    /\ Mishap
    /\ stream' = [stream EXCEPT ![s] = Gone(@)]
    /\ Unsubscribe(s)
    /\ UNCHANGED <<made, current, turn, answer, idle, context, disposal>>

-----------------------------------------------------------------------------
(* disposeSession, and who calls it.                                        *)

\* The context leaves the map before its disposal is awaited.
EvictContext(d) ==
    /\ disposal' = [disposal EXCEPT ![d] = [phase |-> "disposing", context |-> context]]
    /\ context' = 0

\* Half an hour without a subscribe, a turn's start or an event: longer than a
\* request takes to arrive or an approval to expire, but not than a tool.
IdleTimePasses ==
    /\ Up
    /\ ~idle
    /\ Mishap
    /\ \A s \in Streams : stream[s].pc # "connecting"
    /\ \A t \in Turns : turn[t].pc \notin {"parsing", "asking", "ended"}
    /\ \A d \in Disposers : disposal[d].phase # "disposing"
    /\ idle' = TRUE
    /\ UNCHANGED <<bus, made, current, turn, stream, answer, context, disposal>>

\* runSweep: no turn and no watcher, and the idle time has passed.
SweepJudge ==
    /\ Up
    /\ idle
    /\ disposal["sweep"].phase = "idle"
    /\ current # 0 \/ context # 0
    /\ current # 0 => ~bus[current].active /\ bus[current].subscribers = {}
    /\ EvictContext("sweep")
    /\ UNCHANGED <<bus, made, current, turn, stream, answer, idle, mishaps>>

DeleteSession ==
    /\ Up
    /\ Mishap
    /\ disposal["delete"].phase = "idle"
    /\ EvictContext("delete")
    /\ UNCHANGED <<bus, made, current, turn, stream, answer, idle>>

\* Back from the awaits: the bus goes, and with DELETE the row.
Dispose(d) ==
    /\ d \in {"sweep", "delete"}
    /\ disposal[d].phase = "disposing"
    /\ disposal' = [disposal EXCEPT ![d] = [phase |-> IF d = "sweep" THEN "idle" ELSE "done", context |-> 0]]
    /\ DisposeBus
    /\ UNCHANGED <<made, turn, stream, answer, idle, context, mishaps>>

\* runtime.dispose, once the sweep is drained: abort every bus, left in the
\* map for now ...
Shutdown ==
    /\ Up
    /\ Mishap
    /\ disposal["sweep"].phase = "idle"
    /\ bus' = IF current = 0 THEN bus ELSE [bus EXCEPT ![current] = ClosedBus]
    /\ EvictContext("shutdown")
    /\ UNCHANGED <<made, current, turn, stream, answer, idle>>

\* ... then clear the map, and reject every pending approval.
ShutdownEnds ==
    /\ disposal["shutdown"].phase = "disposing"
    /\ disposal' = [disposal EXCEPT !["shutdown"] = [phase |-> "done", context |-> 0]]
    /\ DisposeBus
    /\ turn' = [t \in Turns |-> Settled(turn[t], "rejected")]
    /\ UNCHANGED <<made, stream, answer, idle, context, mishaps>>

-----------------------------------------------------------------------------
TurnStep(t) == BeginTurn(t) \/ EndTurn(t) \/ FinishTurn(t)

StreamStep(s) == Subscribe(s) \/ WriteEvent(s) \/ BusAbort(s)

Reclaim == (\E d \in Disposers : Dispose(d)) \/ ShutdownEnds

Next ==
    \/ \E t \in Turns :
          \/ PostTurn(t) \/ TurnStep(t) \/ Emit(t) \/ Ask(t) \/ ApprovalTimeout(t)
          \/ \E a \in Answers : PostAnswer(a, t)
    \/ \E a \in Answers : Resolve(a)
    \/ \E s \in Streams : Connect(s) \/ StreamStep(s) \/ Disconnect(s)
    \/ CancelTurn \/ IdleTimePasses \/ SweepJudge \/ DeleteSession \/ Shutdown
    \/ Reclaim

Spec == Init /\ [][Next]_vars

\* What the process does by itself: a turn's work ends (the model answers,
\* tools return, the signal is heeded), timers fire, awaited calls return.
System ==
    \/ \E t \in Turns : TurnStep(t) \/ ApprovalTimeout(t)
    \/ \E s \in Streams : StreamStep(s)
    \/ \E a \in Answers : Resolve(a)
    \/ Reclaim

\* The event loop does not rest while it has something to do.  Nobody has to
\* connect, answer, cancel, delete or shut down.
FairSpec == Spec /\ WF_vars(System)

-----------------------------------------------------------------------------
(* Properties.                                                               *)

Events == [seq : Nat \ {0}, kind : {"work", "ask", "end"}]

TypeOK ==
    /\ bus \in [1..MaxBuses ->
                 [closed : BOOLEAN, seq : Nat, ring : Seq(Events), start : Nat, active : BOOLEAN,
                  subscribers : SUBSET Streams, turnAbort : Turns \cup {NoTurn}]]
    /\ \A i \in 1..MaxBuses : Len(bus[i].ring) <= MaxRing
    /\ made \in 0..MaxBuses
    /\ current \in 0..made
    /\ turn \in [Turns ->
                  [pc : {"none", "parsing", "running", "asking", "ended", "done"}, bus : 0..made,
                   work : 0..MaxWork, aborted : BOOLEAN,
                   asked : {"no", "pending", "allow", "deny", "rejected"}]]
    /\ stream \in [Streams ->
                    [pc : {"none", "connecting", "open", "closed"}, bus : 0..made, queue : Seq(Events),
                     cursor : Nat, next : Nat, follow : BOOLEAN, connects : 0..MaxConnects]]
    /\ answer \in [Answers ->
                    [pc : {"none", "parsing", "200"}, turn : Turns \cup {NoTurn}, approved : BOOLEAN]]
    /\ context \in Nat
    /\ idle \in BOOLEAN
    /\ mishaps \in 0..MaxMishaps
    /\ disposal \in [Disposers -> [phase : {"idle", "disposing", "done"}, context : Nat]]

\* A client reads one event after the other: from the one after its cursor,
\* or from the first of the turn, nothing is left out and nothing comes
\* twice, across reconnects too, as far back as the ring is meant to reach.
NoGapNoRepeat ==
    \A s \in Streams :
        LET c == stream[s]
        IN c.pc = "open" /\ ~bus[c.bus].closed =>
              /\ \A i \in 1..Len(c.queue) : c.queue[i].seq = c.next + i - 1
              /\ c.next + Len(c.queue) = bus[c.bus].seq + 1

\* A bus that is not in the map is closed: no turn runs on where nobody can
\* watch or cancel it.
OneOpenBus == \A i \in 1..made : bus[i].closed \/ i = current

\* A cancel never fires the controller of a turn that is over.
NoStaleController ==
    \A i \in 1..made : \A t \in Turns :
        bus[i].turnAbort = t => turn[t].pc \in {"running", "asking", "ended"} /\ turn[t].bus = i

\* A turn that begins during a disposal is not handed the context that is
\* being closed ("rebuilds rather than handing back a half-closed writer").
NeverHalfClosed == context \notin HalfClosed

\* What the maps of the server say is so: types, no orphaned bus, no stale
\* controller, no context that is being closed.
GatewayConsistent == TypeOK /\ OneOpenBus /\ NoStaleController /\ NeverHalfClosed

\* A tool is allowed only by an answer that reached the queue in time; a
\* time-out, a shutdown or a second answer never allows it.
AllowedByUser ==
    \A t \in Turns :
        turn[t].asked = "allow" =>
            \E a \in Answers : answer[a] = [pc |-> "200", turn |-> t, approved |-> TRUE]

\* After the last request everything comes to an end, whatever was cancelled,
\* evicted, deleted or shut down: every turn, although it waits for a
\* permission without its abort signal, and every stream that does not
\* follow, or whose bus is closed; no client stays parked.
Quiesces ==
    <>[]( /\ \A t \in Turns : turn[t].pc \notin {"running", "asking", "ended"}
          /\ \A s \in Streams :
                stream[s].pc \in {"connecting", "open"} => stream[s].follow /\ ~bus[stream[s].bus].closed )

\* What sessionSupervisor.ts 21-29 says of the sweep: it reclaims sessions
\* that are "NOT turn-active, with zero SSE subscribers".
EvictsOnlyIdle ==
    [][ Dispose("sweep") /\ current # 0 =>
            /\ bus[current].subscribers = {}
            /\ \A t \in Turns : turn[t].bus = current => turn[t].pc \in {"ended", "done"} ]_vars
=============================================================================
