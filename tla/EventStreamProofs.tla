------------------------- MODULE EventStreamProofs -------------------------
(***************************************************************************)
(* Theorems about EventStream for any number of writers and connections    *)
(* and any capacity of the channel layer.                                  *)
(***************************************************************************)
EXTENDS EventStream, TLAPS

USE WriterAssumption, LimitAssumption, FailureAssumption, EventBoundAssumption

Items(q) == {q[i] : i \in 1..Len(q)}

(* What is in an inbox after a message has come or gone.                   *)
LEMMA ItemsOfAppend ==
    ASSUME NEW S, NEW q \in Seq(S), NEW x \in S
    PROVE  Append(q, x) \in Seq(S) /\ Len(Append(q, x)) = Len(q) + 1
               /\ Items(Append(q, x)) = Items(q) \cup {x}
<1> DEFINE r == Append(q, x)
<1>1. r \in Seq(S) /\ Len(r) = Len(q) + 1 /\ Len(q) \in Nat
  OBVIOUS
<1>2. r[Len(q) + 1] = x /\ \A i \in 1..Len(q) : r[i] = q[i]
  OBVIOUS
<1> HIDE DEF r
<1> QED
  BY <1>1, <1>2 DEF Items, r
LEMMA ItemsOfTail ==
    ASSUME NEW S, NEW q \in Seq(S), q # <<>>
    PROVE  Tail(q) \in Seq(S) /\ Len(Tail(q)) = Len(q) - 1 /\ Head(q) \in S
               /\ Items(q) = Items(Tail(q)) \cup {Head(q)}
<1> DEFINE r == Tail(q)
<1>1. r \in Seq(S) /\ Len(r) = Len(q) - 1 /\ Len(q) \in Nat \ {0} /\ Head(q) = q[1]
  OBVIOUS
<1>2. \A i \in 1..Len(r) : r[i] = q[i + 1]
  OBVIOUS
<1>3. q[1] \in S
  OBVIOUS
<1> HIDE DEF r
<1>4. ASSUME NEW i \in 1..Len(q) PROVE q[i] \in Items(r) \cup {Head(q)}
  <2>1. CASE i = 1
    BY <2>1, <1>1
  <2>2. CASE i # 1
    BY <2>2, <1>1, <1>2, i - 1 \in 1..Len(r), r[i - 1] = q[i] DEF Items
  <2> QED
    BY <2>1, <2>2
<1>5. Items(r) \cup {Head(q)} \subseteq Items(q)
  BY <1>1, <1>2 DEF Items
<1> QED
  BY <1>1, <1>3, <1>4, <1>5 DEF Items, r

-----------------------------------------------------------------------------
(* The type invariant in parts.                                            *)
StreamOK ==
    /\ stored \subseteq Event
    /\ created \in [Event -> Nat]
    /\ clock \in Nat
    /\ published \subseteq Event
WritersOK ==
    /\ pc \in [Writer -> {"idle", "insert", "publish", "commit", "stopped"}]
    /\ count \in [Writer -> 0..MaxEvents]
    /\ \A w \in Writer : pc[w] \in {"insert", "publish", "commit"} => count[w] # 0
LayerOK ==
    /\ group \subseteq Consumer
    /\ inbox \in [Consumer -> Seq(Event)]
    /\ \A c \in Consumer : Len(inbox[c]) <= Capacity
ClientsOK ==
    /\ phase \in [Consumer -> {"new", "checked", "joined", "ready", "closed", "dead"}]
    /\ known \in [Consumer -> SUBSET Event]
    /\ live \in [Consumer -> SUBSET Event]
    /\ lost \in [Consumer -> SUBSET Event]
    /\ cut \in [Consumer -> SUBSET Event]
    /\ requests \in [Consumer -> Nat]
    /\ crashes \in Nat
FlagOK == exists \in BOOLEAN
TypeInv == FlagOK /\ StreamOK /\ WritersOK /\ LayerOK /\ ClientsOK

LEMMA TypeInit == Init => TypeInv
<1> SUFFICES ASSUME Init PROVE TypeInv
  OBVIOUS
<1>1. FlagOK
  BY DEF Init, FlagOK
<1>2. StreamOK
  BY DEF Init, StreamOK, Event
<1>3. WritersOK
  BY DEF Init, WritersOK
<1>4. LayerOK
  BY DEF Init, LayerOK
<1>5. ClientsOK
  BY DEF Init, ClientsOK
<1> QED
  BY <1>1, <1>2, <1>3, <1>4, <1>5 DEF TypeInv

LEMMA CurrentIsEvent ==
    ASSUME WritersOK, NEW w \in Writer, pc[w] \in {"insert", "publish", "commit"}
    PROVE  Current(w) \in Event
BY DEF WritersOK, Current, Event

(* Two facts on the channel layer: what a publish, and what a message that *)
(* is handled, do to inboxes.                                              *)
Delivers(w, got) ==
    inbox' = [c \in Consumer |-> IF c \in got THEN Append(inbox[c], Current(w))
                                              ELSE inbox[c]]

LEMMA PublishDelivers ==
    ASSUME LayerOK, NEW w \in Writer, Publish(w)
    PROVE  \E got \in SUBSET group :
               /\ Delivers(w, got)
               /\ \A c \in got : Len(inbox[c]) < Capacity
               /\ lost' = [c \in Consumer |-> IF c \in group \ got
                                              THEN lost[c] \cup {Current(w)} ELSE lost[c]]
<1>1. PICK reached \in SUBSET group :
        LET got == {c \in reached : Len(inbox[c]) < Capacity} IN
        /\ inbox' = [c \in Consumer |-> IF c \in got THEN Append(inbox[c], Current(w))
                                                     ELSE inbox[c]]
        /\ lost' = [c \in Consumer |-> IF c \in group \ got
                                       THEN lost[c] \cup {Current(w)} ELSE lost[c]]
  <2>1. (IF ChannelMayFail THEN SUBSET group ELSE {group}) \subseteq SUBSET group
    OBVIOUS
  <2> QED
    BY <2>1 DEF Publish
<1> DEFINE taken == {c \in reached : Len(inbox[c]) < Capacity}
<1> WITNESS taken \in SUBSET group
<1> QED
  BY <1>1 DEF Delivers

LEMMA TypeNext == TypeInv /\ [Next]_vars => TypeInv'
<1> SUFFICES ASSUME TypeInv, [Next]_vars PROVE TypeInv'
  OBVIOUS
<1> USE DEF TypeInv
<1>1. ASSUME NEW w \in Writer, Stamp(w) PROVE TypeInv'
  <2>1. FlagOK' /\ LayerOK' /\ ClientsOK'
    BY <1>1 DEF FlagOK, LayerOK, ClientsOK, Stamp, clients, layer, counters
  <2>2. StreamOK'
    BY <1>1 DEF StreamOK, WritersOK, Event, Stamp
  <2>3. WritersOK'
    BY <1>1 DEF WritersOK, Stamp, Goto
  <2> QED
    BY <2>1, <2>2, <2>3
<1>2. ASSUME NEW w \in Writer, Insert(w) PROVE TypeInv'
  <2>1. FlagOK' /\ LayerOK' /\ ClientsOK'
    BY <1>2 DEF FlagOK, LayerOK, ClientsOK, Insert, clients, layer, counters
  <2>2. StreamOK'
    BY <1>2, CurrentIsEvent DEF StreamOK, Insert
  <2>3. WritersOK'
    BY <1>2 DEF WritersOK, Insert, Goto
  <2> QED
    BY <2>1, <2>2, <2>3
<1>3. ASSUME NEW w \in Writer, Publish(w) PROVE TypeInv'
  <2>1. Current(w) \in Event
    BY <1>3, CurrentIsEvent DEF Publish
  <2>2. PICK got \in SUBSET group :
          /\ Delivers(w, got)
          /\ \A c \in got : Len(inbox[c]) < Capacity
          /\ lost' = [c \in Consumer |-> IF c \in group \ got
                                         THEN lost[c] \cup {Current(w)} ELSE lost[c]]
    BY <1>3, PublishDelivers
  <2>3. LayerOK'
    <3>1. group' = group
      BY <1>3 DEF Publish
    <3>2. ASSUME NEW c \in Consumer
          PROVE  inbox'[c] \in Seq(Event) /\ Len(inbox'[c]) <= Capacity
      <4>1. inbox[c] \in Seq(Event) /\ Len(inbox[c]) <= Capacity /\ Len(inbox[c]) \in Nat
        BY DEF LayerOK
      <4>2. CASE c \in got
        BY <2>1, <2>2, <4>1, <4>2, ItemsOfAppend DEF Delivers
      <4>3. CASE c \notin got
        BY <2>2, <4>1, <4>3 DEF Delivers
      <4> QED
        BY <4>2, <4>3
    <3> QED
      BY <2>2, <3>1, <3>2 DEF LayerOK, Delivers
  <2>4. ClientsOK'
    BY <1>3, <2>1, <2>2 DEF ClientsOK, Publish, clients, counters
  <2>5. FlagOK' /\ StreamOK'
    BY <1>3, <2>1 DEF FlagOK, StreamOK, Publish, timeline
  <2>6. WritersOK'
    BY <1>3 DEF WritersOK, Publish, Goto
  <2> QED
    BY <2>3, <2>4, <2>5, <2>6
<1>4. ASSUME NEW w \in Writer, Commit(w) PROVE TypeInv'
  <2>1. FlagOK'
    BY <1>4 DEF FlagOK, Commit
  <2>2. StreamOK'
    BY <1>4, CurrentIsEvent DEF StreamOK, Commit
  <2>3. WritersOK'
    BY <1>4 DEF WritersOK, Commit, Goto
  <2>4. LayerOK' /\ ClientsOK'
    BY <1>4 DEF LayerOK, ClientsOK, Commit, clients, layer, counters
  <2> QED
    BY <2>1, <2>2, <2>3, <2>4
<1>5. ASSUME NEW w \in Writer, InsertRaises(w) \/ Rollback(w) \/ Crash(w)
      PROVE  TypeInv'
  <2>1. FlagOK' /\ StreamOK' /\ LayerOK'
    BY <1>5 DEF FlagOK, StreamOK, LayerOK, InsertRaises, Rollback, Crash, timeline,
                layer
  <2>2. WritersOK'
    BY <1>5 DEF WritersOK, InsertRaises, Rollback, Crash, Goto
  <2>3. ClientsOK'
    BY <1>5 DEF ClientsOK, InsertRaises, Rollback, Crash, clients, layer, counters
  <2> QED
    BY <2>1, <2>2, <2>3
<1>6. ASSUME NEW c \in Consumer,
             Connect(c) \/ GroupAdd(c) \/ SendHistory(c) \/ Disconnect(c) \/ Die(c)
      PROVE  TypeInv'
  <2>1. FlagOK' /\ StreamOK' /\ WritersOK'
    BY <1>6 DEF FlagOK, StreamOK, WritersOK, Connect, GroupAdd, SendHistory,
                Disconnect, Die, timeline, writers
  <2>2. LayerOK'
    BY <1>6 DEF LayerOK, Connect, GroupAdd, SendHistory, Disconnect, Die, layer
  <2>3. ClientsOK'
    BY <1>6 DEF ClientsOK, StreamOK, Connect, GroupAdd, SendHistory, Disconnect, Die,
                Become, Recent, layer, counters
  <2> QED
    BY <2>1, <2>2, <2>3
<1>7. ASSUME NEW c \in Consumer, AgentEvent(c) PROVE TypeInv'
  <2>1. Head(inbox[c]) \in Event /\ Tail(inbox[c]) \in Seq(Event)
          /\ Len(Tail(inbox[c])) <= Capacity
    BY <1>7, ItemsOfTail DEF LayerOK, AgentEvent
  <2>2. FlagOK' /\ StreamOK' /\ WritersOK'
    BY <1>7 DEF FlagOK, StreamOK, WritersOK, AgentEvent, timeline, writers
  <2>3. LayerOK'
    BY <1>7, <2>1 DEF LayerOK, AgentEvent
  <2>4. ClientsOK'
    BY <1>7, <2>1 DEF ClientsOK, AgentEvent, counters
  <2> QED
    BY <2>2, <2>3, <2>4
<1>8. ASSUME NEW c \in Consumer, NEW limit \in Limits, ReceiveHistory(c, limit)
      PROVE  TypeInv'
  <2>1. Recent(IF limit = 0 THEN DefaultLimit ELSE limit) \in SUBSET Event
    BY DEF Recent, StreamOK
  <2>2. FlagOK' /\ StreamOK' /\ WritersOK' /\ LayerOK'
    BY <1>8 DEF FlagOK, StreamOK, WritersOK, LayerOK, ReceiveHistory, timeline,
                writers, layer
  <2>3. ClientsOK'
    BY <1>8, <2>1 DEF ClientsOK, ReceiveHistory, layer
  <2> QED
    BY <2>2, <2>3
<1>9. ASSUME UNCHANGED vars PROVE TypeInv'
  BY <1>9 DEF FlagOK, StreamOK, WritersOK, LayerOK, ClientsOK, vars, timeline,
              writers, clients, layer, counters
<1> QED
  BY <1>1, <1>2, <1>3, <1>4, <1>5, <1>6, <1>7, <1>8, <1>9
     DEF Next, WriterStep, ConsumerStep

LEMMA TypeAlways == Spec => []TypeInv
BY TypeInit, TypeNext, PTL DEF Spec

(* The types of the stream, its writers and its clients; no inbox is ever  *)
(* over its capacity.                                                      *)
THEOREM StreamTypeCorrect == Spec => []TypeOK
<1>1. TypeInv => TypeOK
  <2> SUFFICES ASSUME TypeInv PROVE TypeOK
    OBVIOUS
  <2>1. exists \in BOOLEAN
    BY DEF TypeInv, FlagOK
  <2> QED
    BY <2>1 DEF TypeInv, StreamOK, WritersOK, LayerOK, ClientsOK, TypeOK
<1> QED
  BY <1>1, TypeAlways, PTL

-----------------------------------------------------------------------------
(* What the order of the statements of the code maintains.  Until the      *)
(* session is committed only its creator works and nobody is in the group; *)
(* afterwards an event is stored before it is published; a consumer that   *)
(* is to read the history is in the group.                                 *)
BeforeCommit ==
    ~exists =>
        /\ stored = {} /\ group = {}
        /\ \A c \in Consumer : phase[c] \in {"new", "closed", "dead"}
        /\ \A w \in Writer : w # Creator => pc[w] \in {"idle", "stopped"}
StoredFirst ==
    \A w \in Writer :
        /\ pc[w] = "publish" => InTransaction(w) \/ Current(w) \in stored
        /\ pc[w] = "commit" => InTransaction(w)
PublishedOnce ==
    \A w \in Writer : \A n \in 1..MaxEvents :
        <<w, n>> \in published => n <= count[w] /\ (pc[w] = "insert" => n # count[w])
JoinedFirst == \A c \in Consumer : phase[c] \in {"joined", "ready"} => c \in group
OrderInv == BeforeCommit /\ StoredFirst /\ PublishedOnce /\ JoinedFirst

LEMMA OrderInit == Init => OrderInv
BY DEF Init, OrderInv, BeforeCommit, StoredFirst, PublishedOnce, JoinedFirst

LEMMA OrderNext == TypeInv /\ OrderInv /\ [Next]_vars => OrderInv'
<1> SUFFICES ASSUME TypeInv, OrderInv, [Next]_vars PROVE OrderInv'
  OBVIOUS
<1> USE DEF OrderInv, InTransaction, Current
<1>0. WritersOK
  BY DEF TypeInv
<1>1. ASSUME NEW w \in Writer, Stamp(w) PROVE OrderInv'
  <2>1. BeforeCommit' /\ StoredFirst' /\ JoinedFirst'
    BY <1>0, <1>1 DEF WritersOK, BeforeCommit, StoredFirst, JoinedFirst, Stamp, Goto,
                      clients, layer
  <2>2. PublishedOnce'
    BY <1>0, <1>1 DEF WritersOK, PublishedOnce, Stamp, Goto
  <2> QED
    BY <2>1, <2>2
<1>2. ASSUME NEW w \in Writer, Insert(w) PROVE OrderInv'
  <2>1. BeforeCommit' /\ StoredFirst' /\ JoinedFirst'
    BY <1>0, <1>2 DEF WritersOK, BeforeCommit, StoredFirst, JoinedFirst, Insert, Goto,
                      clients, layer
  <2>2. PublishedOnce'
    BY <1>0, <1>2 DEF WritersOK, PublishedOnce, Insert, Goto
  <2> QED
    BY <2>1, <2>2
<1>3. ASSUME NEW w \in Writer, Publish(w) PROVE OrderInv'
  <2>1. BeforeCommit' /\ StoredFirst' /\ JoinedFirst'
    BY <1>0, <1>3 DEF WritersOK, BeforeCommit, StoredFirst, JoinedFirst, Publish, Goto,
                      timeline, clients
  <2>2. PublishedOnce'
    BY <1>0, <1>3 DEF WritersOK, PublishedOnce, Publish, Goto
  <2> QED
    BY <2>1, <2>2
<1>4. ASSUME NEW w \in Writer, Commit(w) PROVE OrderInv'
  <2>1. exists' /\ w = Creator
    BY <1>4 DEF Commit, StoredFirst
  <2>2. \A v \in Writer : v # w => pc'[v] \in {"idle", "stopped"}
    BY <1>0, <1>4 DEF WritersOK, BeforeCommit, StoredFirst, Commit, Goto
  <2>3. pc'[w] = "idle"
    BY <1>0, <1>4 DEF WritersOK, Commit, Goto
  <2>4. BeforeCommit' /\ StoredFirst'
    BY <2>1, <2>2, <2>3 DEF BeforeCommit, StoredFirst
  <2>5. JoinedFirst'
    BY <1>4 DEF JoinedFirst, Commit, clients, layer
  <2>6. PublishedOnce'
    BY <1>0, <1>4 DEF WritersOK, PublishedOnce, Commit, Goto
  <2> QED
    BY <2>4, <2>5, <2>6
<1>5. ASSUME NEW w \in Writer, InsertRaises(w) \/ Rollback(w) \/ Crash(w)
      PROVE  OrderInv'
  <2>1. BeforeCommit' /\ StoredFirst' /\ JoinedFirst'
    BY <1>0, <1>5 DEF WritersOK, BeforeCommit, StoredFirst, JoinedFirst, InsertRaises,
                      Rollback, Crash, Goto, timeline, clients, layer
  <2>2. PublishedOnce'
    BY <1>0, <1>5 DEF WritersOK, PublishedOnce, InsertRaises, Rollback, Crash, Goto
  <2> QED
    BY <2>1, <2>2
<1>6. ASSUME NEW c \in Consumer,
             Connect(c) \/ GroupAdd(c) \/ SendHistory(c) \/ Disconnect(c) \/ Die(c)
      PROVE  OrderInv'
  <2>1. ClientsOK
    BY DEF TypeInv
  <2>2. StoredFirst' /\ PublishedOnce'
    BY <1>6 DEF StoredFirst, PublishedOnce, Connect, GroupAdd, SendHistory,
                Disconnect, Die, timeline, writers
  <2>3. BeforeCommit'
    BY <1>6, <2>1 DEF ClientsOK, BeforeCommit, Connect, GroupAdd, SendHistory,
                      Disconnect, Die, Become, timeline, writers, layer
  <2>4. JoinedFirst'
    BY <1>6, <2>1 DEF ClientsOK, JoinedFirst, Connect, GroupAdd, SendHistory,
                      Disconnect, Die, Become, layer
  <2> QED
    BY <2>2, <2>3, <2>4
<1>7. ASSUME NEW c \in Consumer,
             AgentEvent(c) \/ \E limit \in Limits : ReceiveHistory(c, limit)
      PROVE  OrderInv'
  BY <1>7 DEF BeforeCommit, StoredFirst, PublishedOnce, JoinedFirst, AgentEvent,
              ReceiveHistory, timeline, writers, layer
<1>8. ASSUME UNCHANGED vars PROVE OrderInv'
  BY <1>8 DEF BeforeCommit, StoredFirst, PublishedOnce, JoinedFirst, vars, timeline,
              writers, clients, layer
<1> QED
  BY <1>1, <1>2, <1>3, <1>4, <1>5, <1>6, <1>7, <1>8 DEF Next, WriterStep, ConsumerStep

LEMMA OrderAlways == Spec => []OrderInv
BY OrderInit, OrderNext, TypeAlways, PTL DEF Spec

-----------------------------------------------------------------------------
(* KnownIsStored and NoGap, in one induction.                              *)
ClientInv == KnownIsStored /\ NoGap

LEMMA ClientNext == TypeInv /\ OrderInv /\ ClientInv /\ [Next]_vars => ClientInv'
<1> SUFFICES ASSUME TypeInv, OrderInv, ClientInv, [Next]_vars PROVE ClientInv'
  OBVIOUS
<1> USE DEF ClientInv
<1>0. /\ \A c \in Consumer : Queued(c) = Items(inbox[c])
      /\ \A c \in Consumer : Queued(c)' = Items(inbox'[c])
  BY DEF Queued, Items
<1>1. ASSUME NEW w \in Writer,
             Stamp(w) \/ InsertRaises(w) \/ Rollback(w) \/ Crash(w)
      PROVE  ClientInv'
  BY <1>1 DEF KnownIsStored, NoGap, Queued, Stamp, InsertRaises, Rollback, Crash,
              timeline, clients, layer
<1>2. ASSUME NEW w \in Writer, Insert(w) PROVE ClientInv'
  <2>1. Current(w) \notin published
    BY <1>2 DEF TypeInv, WritersOK, OrderInv, PublishedOnce, Insert, Current
  <2>2. stored' \subseteq stored \cup {Current(w)} /\ stored \subseteq stored'
    BY <1>2 DEF Insert
  <2> QED
    BY <1>2, <2>1, <2>2 DEF KnownIsStored, NoGap, Queued, Insert, clients, layer
<1>3. ASSUME NEW w \in Writer, Publish(w) PROVE ClientInv'
  <2>1. Current(w) \in Event
    BY <1>3, CurrentIsEvent DEF Publish, TypeInv
  <2>2. PICK got \in SUBSET group :
          /\ Delivers(w, got)
          /\ \A c \in got : Len(inbox[c]) < Capacity
          /\ lost' = [c \in Consumer |-> IF c \in group \ got
                                         THEN lost[c] \cup {Current(w)} ELSE lost[c]]
    BY <1>3, PublishDelivers DEF TypeInv
  <2>3. ASSUME NEW c \in Consumer
        PROVE  Queued(c)' = IF c \in got THEN Queued(c) \cup {Current(w)} ELSE Queued(c)
    <3>1. inbox[c] \in Seq(Event)
      BY DEF TypeInv, LayerOK
    <3>2. CASE c \in got
      BY <1>0, <2>1, <2>2, <3>1, <3>2, ItemsOfAppend DEF Delivers
    <3>3. CASE c \notin got
      BY <1>0, <2>2, <3>3 DEF Delivers
    <3> QED
      BY <3>2, <3>3
  <2>4. got # {} => Current(w) \in stored
    BY <1>3 DEF OrderInv, StoredFirst, BeforeCommit, InTransaction, Publish
  <2>5. stored' = stored /\ known' = known /\ phase' = phase /\ cut' = cut
          /\ published' = published \cup {Current(w)} /\ group \subseteq Consumer
    BY <1>3 DEF Publish, timeline, clients, TypeInv, LayerOK
  <2>6. KnownIsStored'
    BY <2>3, <2>4, <2>5 DEF KnownIsStored
  <2>7. ASSUME NEW c \in Consumer, phase[c] = "ready"
        PROVE  Current(w) \in Queued(c)' \cup lost'[c]
    <3>1. c \in group
      BY <2>7 DEF OrderInv, JoinedFirst
    <3> QED
      BY <2>2, <2>3, <3>1
  <2>8. \A c \in Consumer : lost[c] \subseteq lost'[c] /\ Queued(c) \subseteq Queued(c)'
    BY <2>2, <2>3
  <2>9. NoGap'
    BY <2>5, <2>7, <2>8 DEF NoGap
  <2> QED
    BY <2>6, <2>9
<1>4. ASSUME NEW w \in Writer, Commit(w) PROVE ClientInv'
  <2>1. \A c \in Consumer : phase[c] \in {"new", "closed", "dead"}
    BY <1>4 DEF Commit, OrderInv, StoredFirst, InTransaction, BeforeCommit
  <2>2. stored \subseteq stored'
    BY <1>4 DEF Commit
  <2> QED
    BY <1>4, <2>1, <2>2 DEF KnownIsStored, NoGap, Queued, Commit, clients, layer
<1>5. ASSUME NEW c \in Consumer, SendHistory(c) PROVE ClientInv'
  <2>1. Recent(DefaultLimit) \subseteq stored
    BY DEF Recent
  <2>2. known' = [known EXCEPT ![c] = Recent(DefaultLimit)]
          /\ cut' = [cut EXCEPT ![c] = stored \ Recent(DefaultLimit)]
          /\ phase' = [phase EXCEPT ![c] = "ready"]
          /\ stored' = stored /\ published' = published /\ inbox' = inbox /\ lost' = lost
    BY <1>5 DEF SendHistory, Become, timeline, writers, layer
  <2>3. \A d \in Consumer : Queued(d)' = Queued(d)
    BY <2>2 DEF Queued
  <2>4. known \in [Consumer -> SUBSET Event] /\ cut \in [Consumer -> SUBSET Event]
          /\ phase \in [Consumer -> {"new", "checked", "joined", "ready", "closed", "dead"}]
    BY DEF TypeInv, ClientsOK
  <2> HIDE DEF Recent
  <2> QED
    BY <2>1, <2>2, <2>3, <2>4 DEF KnownIsStored, NoGap
<1>6. ASSUME NEW c \in Consumer,
             Connect(c) \/ GroupAdd(c) \/ Disconnect(c) \/ Die(c)
      PROVE  ClientInv'
  <2>1. ClientsOK
    BY DEF TypeInv
  <2>2. \A d \in Consumer : phase'[d] = "ready" => phase[d] = "ready"
    BY <1>6, <2>1 DEF ClientsOK, Connect, GroupAdd, Disconnect, Die, Become
  <2>3. stored' = stored /\ published' = published /\ inbox' = inbox /\ lost' = lost
          /\ known' = known /\ cut' = cut
    BY <1>6 DEF Connect, GroupAdd, Disconnect, Die, timeline, writers, layer
  <2> QED
    BY <2>2, <2>3 DEF KnownIsStored, NoGap, Queued
<1>7. ASSUME NEW c \in Consumer, AgentEvent(c) PROVE ClientInv'
  <2>1. inbox \in [Consumer -> Seq(Event)] /\ known \in [Consumer -> SUBSET Event]
    BY DEF TypeInv, LayerOK, ClientsOK
  <2>2. Items(inbox[c]) = Items(Tail(inbox[c])) \cup {Head(inbox[c])}
    BY <1>7, <2>1, ItemsOfTail DEF AgentEvent
  <2>3. inbox' = [inbox EXCEPT ![c] = Tail(inbox[c])]
          /\ known' = [known EXCEPT ![c] = known[c] \cup {Head(inbox[c])}]
          /\ stored' = stored /\ published' = published /\ lost' = lost
          /\ phase' = phase /\ cut' = cut
    BY <1>7 DEF AgentEvent, timeline, writers
  <2>4. \A d \in Consumer : known'[d] \cup Items(inbox'[d]) = known[d] \cup Items(inbox[d])
    BY <2>1, <2>2, <2>3
  <2> QED
    BY <1>0, <2>3, <2>4 DEF KnownIsStored, NoGap
<1>8. ASSUME NEW c \in Consumer, NEW limit \in Limits, ReceiveHistory(c, limit)
      PROVE  ClientInv'
  <2>1. PICK R \in SUBSET stored : known' = [known EXCEPT ![c] = known[c] \cup R]
    <3>1. Recent(IF limit = 0 THEN DefaultLimit ELSE limit) \in SUBSET stored
      BY DEF Recent
    <3> QED
      BY <1>8, <3>1 DEF ReceiveHistory
  <2>2. known \in [Consumer -> SUBSET Event]
    BY DEF TypeInv, ClientsOK
  <2> QED
    BY <1>8, <2>1, <2>2 DEF KnownIsStored, NoGap, Queued, ReceiveHistory, timeline,
                            writers, layer
<1>9. ASSUME UNCHANGED vars PROVE ClientInv'
  BY <1>9 DEF KnownIsStored, NoGap, Queued, vars, timeline, writers, clients, layer
<1> QED
  BY <1>1, <1>2, <1>3, <1>4, <1>5, <1>6, <1>7, <1>8, <1>9
     DEF Next, WriterStep, ConsumerStep

LEMMA ClientAlways == Spec => []ClientInv
<1>1. Init => ClientInv
  BY DEF Init, ClientInv, KnownIsStored, NoGap, Queued
<1> QED
  BY <1>1, ClientNext, TypeAlways, OrderAlways, PTL DEF Spec

(* Clients are only told of events that are in the database.               *)
THEOREM KnownAlwaysStored == Spec => []KnownIsStored
BY ClientAlways, PTL DEF ClientInv

(* Whatever the interleaving of inserts, sends, connections, crashes and   *)
(* failures of the channel layer, history and live events leave no gap.    *)
THEOREM NeverAGap == Spec => []NoGap
BY ClientAlways, PTL DEF ClientInv

-----------------------------------------------------------------------------
(* The order of one writer's events.  What a writer has stored it has      *)
(* published before it stamps the next event, unless it was killed; and    *)
(* every inbox holds its events in the order in which it emitted them.     *)
StoredInTurn ==
    \A w \in Writer : \A n \in 1..MaxEvents : <<w, n>> \in stored =>
        /\ n <= count[w]
        /\ pc[w] = "insert" => n # count[w]
        /\ \/ <<w, n>> \in published
           \/ n = count[w] /\ pc[w] \in {"publish", "stopped"}
PublishedInTurn ==
    \A w \in Writer :
        /\ \A n \in 1..MaxEvents : <<w, n>> \in published => n <= count[w]
        /\ pc[w] \in {"insert", "publish"} => Current(w) \notin published
        /\ pc[w] = "commit" => Current(w) \in published
Ordered(q) ==
    \A i, j \in 1..Len(q) : i < j /\ q[i][1] = q[j][1] => q[i][2] < q[j][2]
InboxInTurn ==
    \A c \in Consumer : Ordered(inbox[c]) /\ Items(inbox[c]) \subseteq published
TurnInv == StoredInTurn /\ PublishedInTurn /\ InboxInTurn

LEMMA AppendOrdered ==
    ASSUME NEW q \in Seq(Event), Ordered(q), NEW x \in Event,
           \A e \in Items(q) : e[1] = x[1] => e[2] < x[2]
    PROVE  Ordered(Append(q, x))
<1> DEFINE r == Append(q, x)
<1>1. Len(r) = Len(q) + 1 /\ Len(q) \in Nat
  OBVIOUS
<1>2. r[Len(q) + 1] = x /\ \A i \in 1..Len(q) : r[i] = q[i]
  OBVIOUS
<1> HIDE DEF r
<1>3. ASSUME NEW i \in 1..Len(r), NEW j \in 1..Len(r), i < j, r[i][1] = r[j][1]
      PROVE  r[i][2] < r[j][2]
  <2>1. i \in 1..Len(q) /\ r[i] = q[i] /\ q[i] \in Items(q)
    BY <1>1, <1>2, <1>3 DEF Items
  <2>2. CASE j = Len(q) + 1
    BY <1>2, <1>3, <2>1, <2>2
  <2>3. CASE j # Len(q) + 1
    BY <1>1, <1>2, <1>3, <2>1, <2>3 DEF Ordered
  <2> QED
    BY <2>2, <2>3
<1> QED
  BY <1>3 DEF Ordered, r

LEMMA TailOrdered ==
    ASSUME NEW q \in Seq(Event), q # <<>>, Ordered(q)
    PROVE  /\ Ordered(Tail(q))
           /\ \A e \in Items(Tail(q)) : e[1] = Head(q)[1] => Head(q)[2] < e[2]
<1> DEFINE r == Tail(q)
<1>1. Len(r) = Len(q) - 1 /\ Len(q) \in Nat \ {0} /\ Head(q) = q[1]
  OBVIOUS
<1>2. \A i \in 1..Len(r) : r[i] = q[i + 1]
  OBVIOUS
<1> HIDE DEF r
<1>3. Ordered(r)
  BY <1>1, <1>2 DEF Ordered
<1>4. \A e \in Items(r) : e[1] = Head(q)[1] => Head(q)[2] < e[2]
  BY <1>1, <1>2 DEF Ordered, Items
<1> QED
  BY <1>3, <1>4 DEF r

LEMMA TurnNext == TypeInv /\ TurnInv /\ [Next]_vars => TurnInv'
<1> SUFFICES ASSUME TypeInv, TurnInv, [Next]_vars PROVE TurnInv'
  OBVIOUS
<1> USE DEF TurnInv, Current
<1>0. WritersOK /\ LayerOK
  BY DEF TypeInv
<1>1. ASSUME NEW w \in Writer, Stamp(w) PROVE TurnInv'
  <2>1. StoredInTurn' /\ PublishedInTurn'
    BY <1>0, <1>1 DEF WritersOK, StoredInTurn, PublishedInTurn, Stamp, Goto
  <2>2. InboxInTurn'
    BY <1>1 DEF InboxInTurn, Stamp, layer
  <2> QED
    BY <2>1, <2>2
<1>2. ASSUME NEW w \in Writer, Insert(w) PROVE TurnInv'
  <2>1. StoredInTurn' /\ PublishedInTurn'
    BY <1>0, <1>2 DEF WritersOK, StoredInTurn, PublishedInTurn, Insert, Goto
  <2>2. InboxInTurn'
    BY <1>2 DEF InboxInTurn, Insert, layer
  <2> QED
    BY <2>1, <2>2
<1>3. ASSUME NEW w \in Writer, Publish(w) PROVE TurnInv'
  <2>0. Current(w) \in Event
    BY <1>0, <1>3, CurrentIsEvent DEF Publish
  <2>1. PICK got \in SUBSET group : Delivers(w, got)
    BY <1>0, <1>3, PublishDelivers
  <2>2. StoredInTurn' /\ PublishedInTurn'
    BY <1>0, <1>3 DEF WritersOK, StoredInTurn, PublishedInTurn, Publish, Goto, timeline
  <2>3. ASSUME NEW c \in Consumer
        PROVE  Ordered(inbox'[c]) /\ Items(inbox'[c]) \subseteq published'
    <3>1. inbox[c] \in Seq(Event) /\ Ordered(inbox[c]) /\ Items(inbox[c]) \subseteq published
      BY <1>0 DEF LayerOK, InboxInTurn
    <3>2. published' = published \cup {Current(w)}
      BY <1>3 DEF Publish
    <3>3. CASE c \in got
      <4>1. inbox'[c] = Append(inbox[c], Current(w))
        BY <2>1, <3>3 DEF Delivers
      <4>2. ASSUME NEW e \in Items(inbox[c]), e[1] = w PROVE e[2] < count[w]
        <5>1. e \in published /\ e \in Event
          BY <3>1 DEF TypeInv, StreamOK
        <5>2. e = <<w, e[2]>> /\ e[2] \in 1..MaxEvents
          BY <4>2, <5>1 DEF Event
        <5>3. Current(w) \notin published
          BY <1>3 DEF PublishedInTurn, Publish
        <5>4. e[2] <= count[w]
          BY <5>1, <5>2 DEF PublishedInTurn
        <5> QED
          BY <1>0, <5>1, <5>2, <5>3, <5>4 DEF WritersOK
      <4>3. Ordered(Append(inbox[c], Current(w)))
        BY <2>0, <3>1, <4>2, AppendOrdered
      <4> QED
        BY <2>0, <3>1, <3>2, <4>1, <4>3, ItemsOfAppend
    <3>4. CASE c \notin got
      BY <2>1, <3>1, <3>2, <3>4 DEF Delivers
    <3> QED
      BY <3>3, <3>4
  <2> QED
    BY <2>2, <2>3 DEF InboxInTurn
<1>4. ASSUME NEW w \in Writer, Commit(w) PROVE TurnInv'
  <2>1. StoredInTurn' /\ PublishedInTurn'
    BY <1>0, <1>4 DEF WritersOK, StoredInTurn, PublishedInTurn, Commit, Goto
  <2>2. InboxInTurn'
    BY <1>4 DEF InboxInTurn, Commit, layer
  <2> QED
    BY <2>1, <2>2
<1>5. ASSUME NEW w \in Writer, InsertRaises(w) \/ Rollback(w) \/ Crash(w)
      PROVE  TurnInv'
  <2>1. StoredInTurn' /\ PublishedInTurn'
    BY <1>0, <1>5 DEF WritersOK, StoredInTurn, PublishedInTurn, InsertRaises, Rollback,
                      Crash, Goto, timeline
  <2>2. InboxInTurn'
    BY <1>5 DEF InboxInTurn, InsertRaises, Rollback, Crash, layer
  <2> QED
    BY <2>1, <2>2
<1>6. ASSUME NEW c \in Consumer,
             \/ Connect(c) \/ GroupAdd(c) \/ SendHistory(c) \/ Disconnect(c) \/ Die(c)
             \/ \E limit \in Limits : ReceiveHistory(c, limit)
      PROVE  TurnInv'
  <2>1. /\ UNCHANGED <<stored, published, pc, count, inbox>>
    BY <1>6 DEF Connect, GroupAdd, SendHistory, Disconnect, Die, ReceiveHistory,
                timeline, writers, layer
  <2> QED
    BY <2>1 DEF StoredInTurn, PublishedInTurn, InboxInTurn
<1>7. ASSUME NEW c \in Consumer, AgentEvent(c) PROVE TurnInv'
  <2>1. /\ UNCHANGED <<stored, published, pc, count>>
        /\ inbox' = [inbox EXCEPT ![c] = Tail(inbox[c])] /\ inbox[c] # <<>>
    BY <1>7 DEF AgentEvent, timeline, writers
  <2>2. StoredInTurn' /\ PublishedInTurn'
    BY <2>1 DEF StoredInTurn, PublishedInTurn
  <2>3. inbox \in [Consumer -> Seq(Event)]
    BY <1>0 DEF LayerOK
  <2>4. InboxInTurn'
    BY <2>1, <2>3, TailOrdered, ItemsOfTail DEF InboxInTurn
  <2> QED
    BY <2>2, <2>4
<1>8. ASSUME UNCHANGED vars PROVE TurnInv'
  BY <1>8 DEF StoredInTurn, PublishedInTurn, InboxInTurn, vars, timeline, writers, layer
<1> QED
  BY <1>1, <1>2, <1>3, <1>4, <1>5, <1>6, <1>7, <1>8 DEF Next, WriterStep, ConsumerStep

LEMMA TurnAlways == Spec => []TurnInv
<1>1. Init => TurnInv
  BY DEF Init, TurnInv, StoredInTurn, PublishedInTurn, InboxInTurn, Ordered, Items
<1> QED
  BY <1>1, TurnNext, TypeAlways, PTL DEF Spec

(* A stored event of a writer that is older than a published one of his    *)
(* was published too.                                                      *)
LEMMA EarlierIsPublished ==
    ASSUME TypeInv, TurnInv, NEW e \in published, NEW f \in stored,
           f[1] = e[1], f[2] < e[2]
    PROVE  f \in published
<1>1. PICK w \in Writer, n \in 1..MaxEvents : e = <<w, n>>
  BY DEF TypeInv, StreamOK, Event
<1>2. PICK m \in 1..MaxEvents : f = <<w, m>>
  BY <1>1 DEF TypeInv, StreamOK, Event
<1>3. m < n /\ n <= count[w] /\ count[w] \in Nat
  BY <1>1, <1>2 DEF TypeInv, WritersOK, TurnInv, PublishedInTurn
<1> QED
  BY <1>2, <1>3 DEF TurnInv, StoredInTurn

LEMMA StepsNext ==
    TypeInv /\ TurnInv /\ ClientInv /\ NoStepSkipped /\ [Next]_vars => NoStepSkipped'
<1> SUFFICES ASSUME TypeInv, TurnInv, ClientInv, NoStepSkipped, [Next]_vars
             PROVE  NoStepSkipped'
  OBVIOUS
<1>0. ClientsOK /\ LayerOK /\ WritersOK
  BY DEF TypeInv
<1>1. ASSUME NEW w \in Writer, Stamp(w) \/ InsertRaises(w) \/ Rollback(w) \/ Crash(w)
      PROVE  NoStepSkipped'
  BY <1>1 DEF NoStepSkipped, Stamp, InsertRaises, Rollback, Crash, timeline, clients,
              layer, counters
<1>2. ASSUME NEW w \in Writer, Insert(w) \/ Commit(w) PROVE NoStepSkipped'
  <2>1. /\ UNCHANGED <<known, lost, cut, requests>>
        /\ stored' \subseteq stored \cup {Current(w)}
    BY <1>2 DEF Insert, Commit, clients, layer, counters
  <2>2. ASSUME NEW c \in Consumer, NEW e \in known[c], e[1] = w PROVE ~(count[w] < e[2])
    <3>1. e \in stored /\ e \in Event
      BY DEF ClientInv, KnownIsStored, TypeInv, StreamOK
    <3>2. e = <<w, e[2]>> /\ e[2] \in 1..MaxEvents
      BY <2>2, <3>1 DEF Event
    <3> QED
      BY <1>0, <3>1, <3>2 DEF TurnInv, StoredInTurn, WritersOK
  <2> QED
    BY <2>1, <2>2 DEF NoStepSkipped, Current
<1>3. ASSUME NEW w \in Writer, Publish(w) PROVE NoStepSkipped'
  <2>1. /\ UNCHANGED <<stored, known, cut, requests>>
        /\ \A c \in Consumer : lost[c] \subseteq lost'[c]
    BY <1>0, <1>3, PublishDelivers DEF Publish, timeline, clients, counters
  <2> QED
    BY <2>1 DEF NoStepSkipped
<1>4. ASSUME NEW c \in Consumer, SendHistory(c) PROVE NoStepSkipped'
  <2> DEFINE recent == Recent(DefaultLimit)
  <2>1. /\ UNCHANGED <<stored, lost, requests>>
        /\ known' = [known EXCEPT ![c] = recent]
        /\ cut' = [cut EXCEPT ![c] = stored \ recent]
    BY <1>4 DEF SendHistory, timeline, layer, counters
  <2> HIDE DEF recent
  <2> QED
    BY <1>0, <2>1 DEF NoStepSkipped, ClientsOK
<1>5. ASSUME NEW c \in Consumer, Connect(c) \/ GroupAdd(c) \/ Disconnect(c) \/ Die(c)
      PROVE  NoStepSkipped'
  BY <1>5 DEF NoStepSkipped, Connect, GroupAdd, Disconnect, Die, timeline, layer, counters
<1>6. ASSUME NEW c \in Consumer, AgentEvent(c) PROVE NoStepSkipped'
  <2> DEFINE head == Head(inbox[c])
  <2>1. /\ UNCHANGED <<stored, lost, cut, requests>>
        /\ known' = [known EXCEPT ![c] = known[c] \cup {head}]
        /\ phase[c] = "ready" /\ inbox[c] # <<>> /\ inbox[c] \in Seq(Event)
    BY <1>0, <1>6 DEF AgentEvent, timeline, counters, LayerOK
  <2>2. ASSUME NEW f \in stored, f[1] = head[1], f[2] < head[2]
        PROVE  f \in known[c] \cup lost[c] \cup cut[c]
    <3>1. /\ Items(inbox[c]) = Items(Tail(inbox[c])) \cup {head}
          /\ head \in Event
      BY <2>1, ItemsOfTail
    <3>2. head \in published
      BY <3>1 DEF TurnInv, InboxInTurn
    <3>3. f \in published
      BY <2>2, <3>2, EarlierIsPublished
    <3>4. f \in known[c] \cup Items(inbox[c]) \cup lost[c] \cup cut[c]
      BY <2>1, <3>3 DEF ClientInv, NoGap, Queued, Items
    <3>5. ASSUME f \in Items(inbox[c]) PROVE FALSE
      <4>1. f \in Event /\ f[2] \in Nat /\ head[2] \in Nat
        BY <3>1 DEF TypeInv, StreamOK, Event
      <4>2. f # head
        BY <2>2, <4>1
      <4>3. head[2] < f[2]
        BY <2>1, <2>2, <3>1, <3>5, <4>2, TailOrdered DEF TurnInv, InboxInTurn
      <4> QED
        BY <2>2, <4>1, <4>3
    <3> QED
      BY <3>4, <3>5
  <2> HIDE DEF head
  <2> QED
    BY <1>0, <2>1, <2>2 DEF NoStepSkipped, ClientsOK
<1>7. ASSUME NEW c \in Consumer, NEW limit \in Limits, ReceiveHistory(c, limit)
      PROVE  NoStepSkipped'
  <2>1. /\ UNCHANGED <<stored, lost, cut>>
        /\ requests' = [requests EXCEPT ![c] = requests[c] + 1]
        /\ \A d \in Consumer \ {c} : known'[d] = known[d]
    BY <1>0, <1>7 DEF ReceiveHistory, timeline, layer, ClientsOK
  <2>2. requests'[c] # 0
    BY <1>0, <2>1 DEF ClientsOK
  <2> QED
    BY <1>0, <2>1, <2>2 DEF NoStepSkipped, ClientsOK
<1>8. ASSUME UNCHANGED vars PROVE NoStepSkipped'
  BY <1>8 DEF NoStepSkipped, vars, timeline, clients, layer, counters
<1> QED
  BY <1>1, <1>2, <1>3, <1>4, <1>5, <1>6, <1>7, <1>8 DEF Next, WriterStep, ConsumerStep

(* No client that asks for no history learns of a step of a process before *)
(* the earlier steps of that process, for any number of writers, any       *)
(* capacity and any failure, although history and live events come to it   *)
(* by different ways.                                                      *)
THEOREM StepsNeverSkipped == Spec => []NoStepSkipped
<1>1. Init => NoStepSkipped
  BY DEF Init, NoStepSkipped
<1> QED
  BY <1>1, StepsNext, TypeAlways, TurnAlways, ClientAlways, PTL DEF Spec
=============================================================================
