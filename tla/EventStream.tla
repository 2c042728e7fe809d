---------------------------- MODULE EventStream ----------------------------
(***************************************************************************)
(* The timeline of one session, as it is stored and as it is streamed.     *)
(* Worker processes emit AgentEvents: the row is inserted, then the event  *)
(* is sent to the session's channel-layer group.  WebSocket consumers      *)
(* (one per connection) check that the session exists, join the group,     *)
(* read the recent history and then pass on what arrives in their inbox.   *)
(* A consumer handles one message at a time; a connection that comes back  *)
(* is another consumer.                                                    *)
(***************************************************************************)
EXTENDS Integers, Sequences, FiniteSets

CONSTANTS
    Writer,            \* worker processes that emit events of the session
    Creator,           \* the one that creates the session
    Consumer,          \* connections
    Capacity,          \* messages the channel layer keeps for a consumer
    DefaultLimit,      \* length of the history sent on connect
    Limits,            \* limits asked for by a client's history message
    ChannelMayFail,    \* may the channel layer fail to deliver?
    DbMayFail,         \* may an INSERT or a COMMIT raise?
    ConsumerMayFail,   \* may a consumer's handler raise?
    MaxEvents,         \* bound: events a writer emits
    MaxRequests,       \* bound: history messages of a client
    MaxCrashes         \* bound: writers killed

ASSUME WriterAssumption == Creator \in Writer /\ IsFiniteSet(Writer)
ASSUME LimitAssumption ==
    /\ Capacity \in Nat
    /\ DefaultLimit \in Nat \ {0}
    /\ Limits \subseteq Nat
ASSUME FailureAssumption ==
    {ChannelMayFail, DbMayFail, ConsumerMayFail} \subseteq BOOLEAN
ASSUME EventBoundAssumption ==
    MaxEvents \in Nat /\ MaxRequests \in Nat /\ MaxCrashes \in Nat

(* The n-th event of writer w is <<w, n>>.                                 *)
Event == Writer \X (1..MaxEvents)

VARIABLES
    exists,     \* the session's row is committed
    stored,     \* committed AgentEvent rows
    created,    \* their created_at, as the order of the timestamps; 0: none
    clock,      \* timestamps taken so far
    pc,         \* what each writer does next
    count,      \* the event each writer is at
    published,  \* observer: events handed to the channel layer
    group,      \* members of the session's group
    inbox,      \* per consumer: messages delivered by the channel layer
    phase,      \* how far each consumer is
    known,      \* per consumer: events its client was sent in any way
    live,       \* per consumer: events its client was sent as live events
    lost,       \* observer: events not delivered to a member of the group
    cut,        \* observer: events older than the history sent on connect
    requests, crashes   \* counters of the bounds

timeline == <<exists, stored, created, clock>>
writers  == <<pc, count, published>>
clients  == <<phase, known, live, cut>>
layer    == <<group, inbox, lost>>
counters == <<requests, crashes>>
vars     == <<timeline, writers, clients, layer, counters>>

Init ==
    /\ exists = FALSE /\ stored = {} /\ clock = 0
    /\ created = [e \in Event |-> 0]
    /\ pc = [w \in Writer |-> "idle"]
    /\ count = [w \in Writer |-> 0]
    /\ published = {}
    /\ group = {}
    /\ inbox = [c \in Consumer |-> <<>>]
    /\ phase = [c \in Consumer |-> "new"]
    /\ known = [c \in Consumer |-> {}]
    /\ live = [c \in Consumer |-> {}]
    /\ lost = [c \in Consumer |-> {}]
    /\ cut = [c \in Consumer |-> {}]
    /\ requests = [c \in Consumer |-> 0] /\ crashes = 0

Queued(c) == {inbox[c][i] : i \in 1..Len(inbox[c])}

-----------------------------------------------------------------------------
(* Writers: ResearchEventService.emit and emit_event.                      *)

Current(w) == <<w, count[w]>>
Goto(w, label) == pc' = [pc EXCEPT ![w] = label]

(* Only the creator works on a session that is not committed yet.          *)
InTransaction(w) == w = Creator /\ ~exists

(* create() takes created_at before the row reaches the database.          *)
Stamp(w) ==
    /\ pc[w] = "idle" /\ count[w] < MaxEvents
    /\ exists \/ InTransaction(w)
    /\ count' = [count EXCEPT ![w] = count[w] + 1]
    /\ clock' = clock + 1
    /\ created' = [created EXCEPT ![<<w, count[w] + 1>>] = clock + 1]
    /\ Goto(w, "insert")
    /\ UNCHANGED <<exists, stored, published, clients, layer, counters>>

(* The INSERT.  create_session is atomic: its event stays invisible.       *)
Insert(w) ==
    /\ pc[w] = "insert"
    /\ stored' = IF InTransaction(w) THEN stored ELSE stored \cup {Current(w)}
    /\ Goto(w, "publish")
    /\ UNCHANGED <<exists, created, clock, count, published, clients, layer,
                   counters>>

(* The INSERT raises: the emitter's caller handles it and goes on, but the *)
(* creation of the session is rolled back.                                 *)
InsertRaises(w) ==
    /\ DbMayFail /\ pc[w] = "insert"
    /\ Goto(w, IF InTransaction(w) THEN "stopped" ELSE "idle")
    /\ UNCHANGED <<timeline, count, published, clients, layer, counters>>

(* Fault: the sender waits until every member has room.                    *)
PublishWaits(w) ==
    /\ pc[w] = "publish"
    /\ \A c \in group : Len(inbox[c]) < Capacity
    /\ inbox' = [c \in Consumer |-> IF c \in group THEN Append(inbox[c], Current(w))
                                                   ELSE inbox[c]]
    /\ published' = published \cup {Current(w)}
    /\ Goto(w, IF InTransaction(w) THEN "commit" ELSE "idle")
    /\ UNCHANGED <<timeline, count, group, lost, clients, counters>>

(* Fault: a failed delivery is tried again for everyone, over the capacity. *)
PublishRetries(w) ==
    /\ pc[w] = "publish"
    /\ inbox' = [c \in Consumer |-> IF c \in group
                                    THEN inbox[c] \o <<Current(w), Current(w)>>
                                    ELSE inbox[c]]
    /\ published' = published \cup {Current(w)}
    /\ Goto(w, IF InTransaction(w) THEN "commit" ELSE "idle")
    /\ UNCHANGED <<timeline, count, group, lost, clients, counters>>

(* RealtimeEventPublisher.publish: the members get the event, except those *)
(* whose inbox is full and those the layer does not reach when it fails;   *)
(* an exception of the layer is swallowed.                                 *)
Publish(w) ==
    /\ pc[w] = "publish"
    /\ \E reached \in IF ChannelMayFail THEN SUBSET group ELSE {group} :
           LET got == {c \in reached : Len(inbox[c]) < Capacity} IN
           /\ inbox' = [c \in Consumer |-> IF c \in got THEN Append(inbox[c], Current(w))
                                                        ELSE inbox[c]]
           /\ lost' = [c \in Consumer |-> IF c \in group \ got
                                          THEN lost[c] \cup {Current(w)} ELSE lost[c]]
    /\ published' = published \cup {Current(w)}
    /\ Goto(w, IF InTransaction(w) THEN "commit" ELSE "idle")
    /\ UNCHANGED <<timeline, count, group, clients, counters>>

(* The end of create_session's transaction.                                *)
Commit(w) ==
    /\ pc[w] = "commit"
    /\ exists' = TRUE
    /\ stored' = stored \cup {Current(w)}
    /\ Goto(w, "idle")
    /\ UNCHANGED <<created, clock, count, published, clients, layer, counters>>
Rollback(w) ==
    /\ DbMayFail /\ pc[w] = "commit"
    /\ Goto(w, "stopped")
    /\ UNCHANGED <<timeline, count, published, clients, layer, counters>>

(* The worker is killed.  An open transaction is rolled back.              *)
Crash(w) ==
    /\ crashes < MaxCrashes /\ pc[w] # "stopped"
    /\ crashes' = crashes + 1
    /\ Goto(w, "stopped")
    /\ UNCHANGED <<timeline, count, published, clients, layer, requests>>

-----------------------------------------------------------------------------
(* Consumers: ResearchSessionConsumer.                                     *)

Become(c, label) == phase' = [phase EXCEPT ![c] = label]

(* get_recent_events: the newest rows by created_at, at most limit.        *)
Recent(limit) ==
    {e \in stored : Cardinality({f \in stored : created[f] > created[e]}) < limit}

(* Fault: the session is not looked up.                                    *)
ConnectUnchecked(c) ==
    /\ phase[c] = "new"
    /\ Become(c, "checked")
    /\ UNCHANGED <<timeline, writers, known, live, cut, layer, counters>>

(* connect, up to session_exists; a missing session closes with 4404.      *)
Connect(c) ==
    /\ phase[c] = "new"
    /\ Become(c, IF exists THEN "checked" ELSE "closed")
    /\ UNCHANGED <<timeline, writers, known, live, cut, layer, counters>>

(* Fault: the group is joined once the history is sent.                    *)
GroupAddLate(c) ==
    /\ \/ phase[c] = "checked" /\ Become(c, "joined") /\ UNCHANGED group
       \/ phase[c] = "ready" /\ group' = group \cup {c} /\ UNCHANGED phase
    /\ UNCHANGED <<timeline, writers, known, live, cut, inbox, lost, counters>>

GroupAdd(c) ==
    /\ phase[c] = "checked"
    /\ group' = group \cup {c}
    /\ Become(c, "joined")
    /\ UNCHANGED <<timeline, writers, known, live, cut, inbox, lost, counters>>

(* accept, connection_ready and event_history, the rest of connect.        *)
SendHistory(c) ==
    /\ phase[c] = "joined"
    /\ known' = [known EXCEPT ![c] = Recent(DefaultLimit)]
    /\ cut' = [cut EXCEPT ![c] = stored \ Recent(DefaultLimit)]
    /\ Become(c, "ready")
    /\ UNCHANGED <<timeline, writers, live, layer, counters>>

(* Faults: the inbox is emptied from its end, or not passed on.            *)
AgentEventNewest(c) ==
    /\ phase[c] = "ready" /\ inbox[c] # <<>>
    /\ known' = [known EXCEPT ![c] = known[c] \cup {inbox[c][Len(inbox[c])]}]
    /\ live' = [live EXCEPT ![c] = live[c] \cup {inbox[c][Len(inbox[c])]}]
    /\ inbox' = [inbox EXCEPT ![c] = SubSeq(inbox[c], 1, Len(inbox[c]) - 1)]
    /\ UNCHANGED <<timeline, writers, phase, cut, group, lost, counters>>
AgentEventDropped(c) ==
    /\ phase[c] = "ready" /\ inbox[c] # <<>>
    /\ inbox' = [inbox EXCEPT ![c] = Tail(inbox[c])]
    /\ UNCHANGED <<timeline, writers, clients, group, lost, counters>>

(* agent_event: the next message of the inbox goes to the client.          *)
AgentEvent(c) ==
    /\ phase[c] = "ready" /\ inbox[c] # <<>>
    /\ known' = [known EXCEPT ![c] = known[c] \cup {Head(inbox[c])}]
    /\ live' = [live EXCEPT ![c] = live[c] \cup {Head(inbox[c])}]
    /\ inbox' = [inbox EXCEPT ![c] = Tail(inbox[c])]
    /\ UNCHANGED <<timeline, writers, phase, cut, group, lost, counters>>

(* receive_json with a history message; a limit of 0 means the default.    *)
ReceiveHistory(c, limit) ==
    /\ phase[c] = "ready" /\ requests[c] < MaxRequests
    /\ requests' = [requests EXCEPT ![c] = requests[c] + 1]
    /\ known' = [known EXCEPT ![c] = known[c] \cup
                    Recent(IF limit = 0 THEN DefaultLimit ELSE limit)]
    /\ UNCHANGED <<timeline, writers, phase, live, cut, layer, crashes>>

(* disconnect, which is dispatched after connect has returned.             *)
Disconnect(c) ==
    /\ phase[c] = "ready"
    /\ group' = group \ {c}
    /\ Become(c, "closed")
    /\ UNCHANGED <<timeline, writers, known, live, cut, inbox, lost, counters>>

(* A handler raises (database, channel layer, a limit that is no positive  *)
(* number): the application is gone and never leaves the group.            *)
Die(c) ==
    /\ ConsumerMayFail
    /\ phase[c] \in {"new", "checked", "joined", "ready"}
    /\ Become(c, "dead")
    /\ UNCHANGED <<timeline, writers, known, live, cut, layer, counters>>

-----------------------------------------------------------------------------
WriterStep(w) == Insert(w) \/ InsertRaises(w) \/ Publish(w) \/ Commit(w) \/ Rollback(w)
ConsumerStep(c) == Connect(c) \/ GroupAdd(c) \/ SendHistory(c) \/ AgentEvent(c)

Next ==
    \/ \E w \in Writer : Stamp(w) \/ WriterStep(w) \/ Crash(w)
    \/ \E c \in Consumer :
           \/ ConsumerStep(c) \/ Disconnect(c) \/ Die(c)
           \/ \E limit \in Limits : ReceiveHistory(c, limit)

Spec == Init /\ [][Next]_vars

(* A worker that has begun to emit goes on, and the server dispatches what *)
(* is waiting for a consumer; nobody has to emit, connect or disconnect.   *)
FairSpec ==
    /\ Spec
    /\ \A w \in Writer : WF_vars(WriterStep(w))
    /\ \A c \in Consumer : WF_vars(AgentEvent(c)) /\ WF_vars(SendHistory(c))

-----------------------------------------------------------------------------
(* Type invariant.                                                         *)
TypeOK ==
    /\ exists \in BOOLEAN
    /\ stored \subseteq Event
    /\ created \in [Event -> Nat]
    /\ clock \in Nat
    /\ pc \in [Writer -> {"idle", "insert", "publish", "commit", "stopped"}]
    /\ count \in [Writer -> 0..MaxEvents]
    /\ published \subseteq Event
    /\ group \subseteq Consumer
    /\ inbox \in [Consumer -> Seq(Event)]
    /\ \A c \in Consumer : Len(inbox[c]) <= Capacity
    /\ phase \in [Consumer -> {"new", "checked", "joined", "ready", "closed", "dead"}]
    /\ known \in [Consumer -> SUBSET Event]
    /\ live \in [Consumer -> SUBSET Event]
    /\ lost \in [Consumer -> SUBSET Event]
    /\ cut \in [Consumer -> SUBSET Event]
    /\ requests \in [Consumer -> Nat]
    /\ crashes \in Nat

(* Between the history and the live events there is no gap: a connected    *)
(* client has been sent, or has waiting, every stored event whose emitter  *)
(* is done with it, unless the channel layer lost it or the history was    *)
(* too short.  It rests on joining before reading and on inserting before  *)
(* publishing.                                                             *)
NoGap ==
    \A c \in Consumer : phase[c] = "ready" =>
        stored \cap published \subseteq known[c] \cup Queued(c) \cup lost[c] \cup cut[c]

(* No client is told of an event that is not in the database, although the *)
(* first event is published before its transaction is committed: nobody    *)
(* can join the group of a session that is not committed.                  *)
KnownIsStored == \A c \in Consumer : known[c] \cup Queued(c) \subseteq stored

(* A client never learns of a step of a process before the earlier stored  *)
(* steps of that process, across the seam of history and live events; only *)
(* one that asks for a short history itself can get ahead of its inbox.    *)
NoStepSkipped ==
    \A c \in Consumer : requests[c] = 0 => \A e \in known[c] : \A f \in stored :
        f[1] = e[1] /\ f[2] < e[2] => f \in known[c] \cup lost[c] \cup cut[c]

(* Realtime never breaks the agent: an event that is being emitted is done *)
(* with, whatever the channel layer and the consumers do.                  *)
EmitReturns == \A w \in Writer : pc[w] = "publish" ~> pc[w] \in {"idle", "stopped"}

(* What the channel layer delivered reaches the client while it stays.     *)
Delivered ==
    \A c \in Consumer : \A e \in Event :
        e \in Queued(c) ~> e \in known[c] \/ phase[c] \in {"closed", "dead"}
=============================================================================
