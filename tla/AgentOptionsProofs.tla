-------------------------- MODULE AgentOptionsProofs --------------------------
(***************************************************************************)
(* Theorems about AgentOptions, for any number of overlapping requests and *)
(* any dictionaries that they bring.                                       *)
(***************************************************************************)
EXTENDS AgentOptions, TLAPS

USE OptionsAssumption

(* The assignments of rows: what creation and merging return.              *)
LEMMA CreatedAgrees == \A r \in Created \cup {NoRow} : r \in Row /\ Agrees(r)
<1>1. \A o \in Options : Validated(o) \in Options
  BY DEF Validated, Options, OrSteps
<1>2. \A o \in Options : o.steps \in Nat \ {0} => NewRow(o) \in Row /\ Agrees(NewRow(o))
  BY DEF NewRow, Row, Agrees, Get, OrSteps, Options
<1>3. \A r \in Created : r \in Row /\ Agrees(r)
  BY <1>1, <1>2 DEF Created
<1>4. NoOptions \in Options /\ Validated(NoOptions).steps = 8
  BY DEF NoOptions, Options, Validated, OrSteps
<1> QED
  BY <1>1, <1>2, <1>3, <1>4 DEF NoRow

LEMMA UpdatedOptions ==
    \A o, by \in Options : Updated(o, by) \in Options /\ Updated(o, NoOptions) = o
BY DEF Updated, Options, NoOptions, Get

LEMMA MergedAgrees ==
    ASSUME NEW r \in Row, NEW by \in Options
    PROVE  /\ Merged(r, by) \in Row
           /\ Agrees(r) => Agrees(Merged(r, by))
           /\ Merged(r, by).options = Updated(r.options, by)
<1> DEFINE o == Updated(r.options, by)
<1>1. r.options \in Options /\ o \in Options
  BY UpdatedOptions DEF Row
<1>2. Merged(r, by) \in Row
  BY <1>1 DEF Merged, Row, Get, OrSteps, Options
<1>3. ASSUME Agrees(r) PROVE Agrees(Merged(r, by))
  <2>1. Get(o.provider, r.provider) = Get(o.provider, "openai")
    BY <1>1, <1>3 DEF Agrees, Updated, Get, Options
  <2>2. Get(o.model, r.model) = Get(o.model, ColumnModel)
    BY <1>1, <1>3 DEF Agrees, Updated, Get, Options
  <2>3. OrSteps(o.steps, r.steps) = OrSteps(o.steps, OrSteps(o.steps, r.steps))
    BY DEF OrSteps
  <2> QED
    BY <2>1, <2>2, <2>3 DEF Agrees, Merged
<1> QED
  BY <1>2, <1>3 DEF Merged

(* The type invariant.                                                     *)
LEMMA TypeInit == Init => TypeOK
<1> SUFFICES ASSUME Init PROVE TypeOK
  OBVIOUS
<1>1. row \in Row /\ NoRow \in Row
  BY CreatedAgrees DEF Init
<1>2. NoOptions \in Options /\ NoState \in [provider : Provider, model : Model \cup {Blank}]
  BY DEF NoOptions, Options, NoState
<1> QED
  BY <1>1, <1>2 DEF Init, TypeOK
LEMMA LeaveTypes ==
    ASSUME TypeOK, NEW w \in Worker, Leave(w), row' \in Row
    PROVE  TypeOK'
<1>1. NoRow \in Row /\ NoOptions \in Options
  BY CreatedAgrees DEF NoOptions, Options
<1>2. NoState \in [provider : Provider, model : Model \cup {Blank}]
  BY DEF NoState
<1> QED
  BY <1>1, <1>2 DEF TypeOK, Leave
LEMMA InvokeTypes ==
    ASSUME TypeOK, NEW w \in Worker, NEW node \in {"planner", "writer"},
           NEW provider, NEW model \in Model \cup {Blank}, Invoke(w, node, provider, model)
    PROVE  asked' \in [Worker -> SUBSET Call]
<1> DEFINE to == Client(provider)
           call == [by |-> node, to |-> to, model |-> Or(model, DefaultModel[to])]
<1>1. to \in {"openai", "anthropic"}
  BY DEF Client
<1>2. call \in Call
  BY <1>1 DEF Call, Or
<1>3. asked' = asked \/ asked' = [asked EXCEPT ![w] = @ \cup {call}]
  BY DEF Invoke
<1> QED
  BY <1>2, <1>3 DEF TypeOK
LEMMA TypeNext == TypeOK /\ [Next]_vars => TypeOK'
<1> SUFFICES ASSUME TypeOK, [Next]_vars PROVE TypeOK'
  OBVIOUS
<1>1. ASSUME NEW w \in Worker, RunRequest(w) PROVE TypeOK'
  <2>1. PICK o \in Offered : /\ request' = [request EXCEPT ![w] = o]
                             /\ wanted' = [wanted EXCEPT ![w] = Updated(row.options, o)]
    BY <1>1 DEF RunRequest
  <2>2. o \in Options /\ Updated(row.options, o) \in Options
    BY UpdatedOptions DEF TypeOK, Row
  <2>3. request' \in [Worker -> Options] /\ wanted' \in [Worker -> Options]
    BY <2>1, <2>2 DEF TypeOK
  <2>4. alone' \in [Worker -> BOOLEAN]
    <3> DEFINE others == {v \in Worker \ {w} : pc[v] # "idle"}
    <3>1. alone' = [v \in Worker |-> IF v = w THEN others = {} ELSE alone[v] /\ v \notin others]
      BY <1>1 DEF RunRequest
    <3>2. ASSUME NEW v \in Worker
          PROVE  (IF v = w THEN others = {} ELSE alone[v] /\ v \notin others) \in BOOLEAN
      OBVIOUS
    <3> QED
      BY <3>1, <3>2, Zenon
  <2>5. requests' \in 0..MaxRequests
    BY <1>1 DEF TypeOK, RunRequest
  <2>6. /\ row' = row /\ refreshed' = refreshed /\ state' = state /\ asked' = asked
        /\ pc' = [pc EXCEPT ![w] = "merge"] /\ instance' = [instance EXCEPT ![w] = row]
    BY <1>1 DEF RunRequest, Goto, Holds
  <2> QED
    BY <2>3, <2>4, <2>5, <2>6 DEF TypeOK
<1>2. ASSUME NEW w \in Worker, MergeOptions(w) PROVE TypeOK'
  <2>1. Merged(instance[w], request[w]) \in Row
    BY MergedAgrees DEF TypeOK
  <2> QED
    BY <1>2, <2>1 DEF TypeOK, MergeOptions, Goto, Holds, history
<1>3. ASSUME NEW w \in Worker, RunnerGet(w) PROVE TypeOK'
  BY <1>3 DEF TypeOK, RunnerGet, Goto, Holds, history
<1>4. ASSUME NEW w \in Worker, RunnerMarkRunning(w) PROVE TypeOK'
  BY <1>4 DEF TypeOK, RunnerMarkRunning, Goto, history
<1>5. ASSUME NEW w \in Worker, LoadContext(w) PROVE TypeOK'
  <2>1. /\ Or(row.options.provider, "openai") \in Provider
        /\ Or(row.options.model, Blank) \in Model \cup {Blank}
    BY DEF TypeOK, Row, Options, Or
  <2> QED
    BY <1>5, <2>1 DEF TypeOK, LoadContext, Goto, history
<1>6. ASSUME NEW w \in Worker, Planner(w) PROVE TypeOK'
  <2>1. Or(state[w].model, row.model) \in Model \cup {Blank}
    BY DEF TypeOK, Row, Or
  <2>2. asked' \in [Worker -> SUBSET Call]
    BY <1>6, <2>1, InvokeTypes DEF Planner
  <2> QED
    BY <1>6, <2>2 DEF TypeOK, Planner, Goto, history
<1>7. ASSUME NEW w \in Worker, AnswerWriter(w) PROVE TypeOK'
  <2>1. asked' \in [Worker -> SUBSET Call]
    BY <1>7, InvokeTypes DEF AnswerWriter, TypeOK
  <2> QED
    BY <1>7, <2>1 DEF TypeOK, AnswerWriter, Goto, history
<1>8. ASSUME NEW w \in Worker, AnswerRefresh(w) \/ SaveAnswer(w) PROVE TypeOK'
  BY <1>8 DEF TypeOK, AnswerRefresh, SaveAnswer, Goto, history
<1>9. ASSUME NEW w \in Worker, RunnerRefresh(w) PROVE TypeOK'
  BY <1>9 DEF TypeOK, RunnerRefresh, Goto, Holds, history
<1>10. ASSUME NEW w \in Worker, RunnerReturn(w) \/ RunFails(w) PROVE TypeOK'
  <2>1. Leave(w) /\ row' \in Row
    BY <1>10 DEF TypeOK, RunnerReturn, RunFails
  <2> QED
    BY <2>1, LeaveTypes
<1>11. CASE UNCHANGED vars
  BY <1>11 DEF TypeOK, vars, history
<1> QED
  BY <1>1, <1>2, <1>3, <1>4, <1>5, <1>6, <1>7, <1>8, <1>9, <1>10, <1>11 DEF Next

(* Every variable keeps its type, and the stored max_steps stays positive. *)
THEOREM TypeCorrect == Spec => []TypeOK
BY TypeInit, TypeNext, PTL DEF Spec

-----------------------------------------------------------------------------
(* Dictionary and columns agree in the row because they agree in every     *)
(* instance that anybody may save.                                         *)
AllAgree ==
    /\ Agrees(row)
    /\ \A w \in Worker : Agrees(instance[w]) /\ Agrees(refreshed[w])

LEMMA AgreeInit == Init => AllAgree
BY CreatedAgrees DEF Init, AllAgree
LEMMA AgreeNext == TypeOK /\ AllAgree /\ [Next]_vars => AllAgree'
<1> SUFFICES ASSUME TypeOK, AllAgree, [Next]_vars PROVE AllAgree'
  OBVIOUS
<1>1. ASSUME NEW w \in Worker, MergeOptions(w) PROVE AllAgree'
  <2>1. Agrees(Merged(instance[w], request[w]))
    BY MergedAgrees DEF TypeOK, AllAgree
  <2> QED
    BY <1>1, <2>1 DEF TypeOK, AllAgree, MergeOptions, Holds
<1>2. ASSUME NEW w \in Worker, RunRequest(w) PROVE AllAgree'
  BY <1>2 DEF TypeOK, AllAgree, RunRequest, Holds
<1>3. ASSUME NEW w \in Worker, RunnerGet(w) \/ RunnerRefresh(w) PROVE AllAgree'
  BY <1>3 DEF TypeOK, AllAgree, RunnerGet, RunnerRefresh, Holds
<1>4. ASSUME NEW w \in Worker, RunnerMarkRunning(w) PROVE AllAgree'
  BY <1>4 DEF TypeOK, AllAgree, RunnerMarkRunning
<1>5. ASSUME NEW w \in Worker, AnswerRefresh(w) \/ SaveAnswer(w) PROVE AllAgree'
  BY <1>5 DEF TypeOK, AllAgree, AnswerRefresh, SaveAnswer
<1>6. ASSUME NEW w \in Worker, LoadContext(w) \/ Planner(w) \/ AnswerWriter(w)
      PROVE AllAgree'
  BY <1>6 DEF AllAgree, LoadContext, Planner, AnswerWriter
<1>7. ASSUME NEW w \in Worker, RunnerReturn(w) \/ RunFails(w) PROVE AllAgree'
  <2>1. row' = row \/ row' = instance[w]
    BY <1>7 DEF RunnerReturn, RunFails
  <2>2. /\ instance' = [instance EXCEPT ![w] = NoRow]
        /\ refreshed' = [refreshed EXCEPT ![w] = NoRow]
    BY <1>7 DEF RunnerReturn, RunFails, Leave
  <2>3. Agrees(NoRow)
    BY CreatedAgrees
  <2> QED
    BY <2>1, <2>2, <2>3 DEF TypeOK, AllAgree
<1>8. CASE UNCHANGED vars
  BY <1>8 DEF AllAgree, vars
<1> QED
  BY <1>1, <1>2, <1>3, <1>4, <1>5, <1>6, <1>7, <1>8 DEF Next

(* Options and columns of the stored row never come apart.                 *)
THEOREM ColumnsAlwaysAgree == Spec => []ColumnsAgree
<1>1. Init => TypeOK /\ AllAgree
  BY TypeInit, AgreeInit
<1>2. TypeOK /\ AllAgree /\ [Next]_vars => (TypeOK /\ AllAgree)'
  BY TypeNext, AgreeNext
<1>3. AllAgree => ColumnsAgree
  BY DEF AllAgree, ColumnsAgree
<1> QED
  BY <1>1, <1>2, <1>3, PTL DEF Spec

-----------------------------------------------------------------------------
(* What a run asks.  Before it has loaded its context nothing is asked;    *)
(* then the calls follow its state.  While it is alone the row holds what  *)
(* it should run with, from the merge to the load, and so does its         *)
(* instance when it saves that.                                            *)
Loaded == {"plan", "write", "refresh", "save", "close", "totals"}
Follows(w) ==
    /\ pc[w] \notin Loaded => asked[w] = {}
    /\ \A call \in asked[w] : Honours(call, state[w].provider, state[w].model)
Named(w) ==
    alone[w] =>
        /\ pc[w] # "idle" => \A v \in Worker \ {w} : pc[v] = "idle"
        /\ pc[w] = "merge" => /\ instance[w].options = row.options
                              /\ wanted[w] = Updated(row.options, request[w])
        /\ pc[w] \in {"get", "start", "load"} => row.options = wanted[w]
        /\ pc[w] = "start" => instance[w].options = wanted[w]
        /\ pc[w] \in Loaded => /\ state[w].provider = Or(wanted[w].provider, "openai")
                               /\ state[w].model = Or(wanted[w].model, Blank)
Asking == \A w \in Worker : Follows(w) /\ Named(w)

LEMMA AskingImplies == TypeOK /\ Asking => AskedAsRequested
<1> SUFFICES ASSUME TypeOK, Asking, NEW w \in Worker, NEW call \in asked[w], alone[w]
             PROVE  Honours(call, wanted[w].provider, wanted[w].model)
  BY DEF Asking, Follows, AskedAsRequested
<1>1. Honours(call, state[w].provider, state[w].model)
  BY DEF Asking, Follows
<1>2. /\ state[w].provider = Or(wanted[w].provider, "openai")
      /\ state[w].model = Or(wanted[w].model, Blank)
  BY DEF Asking, Follows, Named
<1>3. Or(Or(wanted[w].provider, "openai"), "openai") = Or(wanted[w].provider, "openai")
  BY DEF Or
<1>4. Or(wanted[w].model, Blank) # Blank =>
         /\ Or(Or(wanted[w].model, Blank), Blank) # Blank
         /\ Or(wanted[w].model, Blank) = wanted[w].model
  BY DEF Or
<1> QED
  BY <1>1, <1>2, <1>3, <1>4 DEF Honours

(* A call names the model of the state, if the state has one.              *)
LEMMA InvokeHonours ==
    ASSUME TypeOK, NEW w \in Worker, NEW node, NEW fallback,
           Invoke(w, node, state[w].provider, Or(state[w].model, fallback))
           \/ Invoke(w, node, state[w].provider, state[w].model),
           \A call \in asked[w] : Honours(call, state[w].provider, state[w].model)
    PROVE  /\ \A call \in asked'[w] : Honours(call, state[w].provider, state[w].model)
           /\ \A v \in Worker \ {w} : asked'[v] = asked[v]
<1> DEFINE to == Client(state[w].provider)
<1>1. PICK model : /\ state[w].model # Blank => model = state[w].model
                   /\ \/ asked' = asked
                      \/ asked' = [asked EXCEPT ![w] = @ \cup
                            {[by |-> node, to |-> to, model |-> Or(model, DefaultModel[to])]}]
  <2>1. state[w].model # Blank => Or(state[w].model, fallback) = state[w].model
    BY DEF TypeOK, Or
  <2> QED
    BY <2>1 DEF Invoke
<1> DEFINE new == [by |-> node, to |-> to, model |-> Or(model, DefaultModel[to])]
<1>2. Honours(new, state[w].provider, state[w].model)
  BY <1>1 DEF TypeOK, Honours, Or
<1>3. asked' = asked \/ asked' = [asked EXCEPT ![w] = @ \cup {new}]
  BY <1>1
<1> HIDE DEF new
<1> QED
  BY <1>2, <1>3 DEF TypeOK

LEMMA AskingInit == Init => Asking
BY DEF Init, Asking, Follows, Named, Loaded
LEMMA AskingLeave ==
    ASSUME TypeOK, Asking, NEW w \in Worker, Leave(w), pc[w] # "idle",
           row' = row \/ row' = instance[w]
    PROVE  Asking'
<1> SUFFICES ASSUME NEW v \in Worker PROVE Follows(v)' /\ Named(v)'
  BY DEF Asking
<1>1. Follows(v) /\ Named(v)
  BY DEF Asking
<1>2. CASE v = w
  BY <1>2 DEF TypeOK, Leave, Follows, Named, Loaded
<1>3. CASE v # w
  <2>1. /\ pc'[v] = pc[v] /\ asked'[v] = asked[v] /\ state'[v] = state[v]
        /\ alone'[v] = alone[v] /\ wanted'[v] = wanted[v] /\ request'[v] = request[v]
        /\ instance'[v] = instance[v]
    BY <1>3 DEF TypeOK, Leave
  <2>2. \A u \in Worker : pc[u] = "idle" => pc'[u] = "idle"
    BY DEF TypeOK, Leave
  <2>3. alone[v] => pc[v] = "idle"
    BY <1>1, <1>3 DEF Named
  <2> QED
    BY <1>1, <2>1, <2>2, <2>3 DEF Follows, Named, Loaded
<1> QED
  BY <1>2, <1>3

(* A step of one run leaves the others as they are; who is alone has no    *)
(* others.                                                                 *)
LEMMA AskingOthers ==
    ASSUME TypeOK, Asking, NEW w \in Worker, NEW to,
           pc[w] # "idle", pc' = [pc EXCEPT ![w] = to],
           UNCHANGED <<request, wanted, alone>>,
           \A v \in Worker \ {w} :
               asked'[v] = asked[v] /\ state'[v] = state[v] /\ instance'[v] = instance[v]
    PROVE  \A v \in Worker \ {w} : Follows(v)' /\ Named(v)'
<1> SUFFICES ASSUME NEW v \in Worker \ {w} PROVE Follows(v)' /\ Named(v)'
  OBVIOUS
<1>1. Follows(v) /\ Named(v)
  BY DEF Asking
<1>2. pc'[v] = pc[v]
  BY DEF TypeOK
<1>3. alone[v] => pc[v] = "idle"
  BY <1>1 DEF Named
<1> QED
  BY <1>1, <1>2, <1>3 DEF Follows, Named, Loaded

LEMMA AskingNext == TypeOK /\ Asking /\ [Next]_vars => Asking'
<1> SUFFICES ASSUME TypeOK, Asking, [Next]_vars PROVE Asking'
  OBVIOUS
<1>0. ASSUME NEW w \in Worker, NEW to, pc[w] # "idle", pc' = [pc EXCEPT ![w] = to],
             alone[w], Named(w)
      PROVE  \A v \in Worker \ {w} : pc'[v] = "idle"
  BY <1>0 DEF TypeOK, Named
<1>1. ASSUME NEW w \in Worker, RunRequest(w) PROVE Asking'
  <2>1. PICK o \in Offered : /\ request' = [request EXCEPT ![w] = o]
                             /\ wanted' = [wanted EXCEPT ![w] = Updated(row.options, o)]
    BY <1>1 DEF RunRequest
  <2>2. /\ pc[w] = "idle" /\ pc' = [pc EXCEPT ![w] = "merge"]
        /\ instance' = [instance EXCEPT ![w] = row]
        /\ row' = row /\ state' = state /\ asked' = asked
    BY <1>1 DEF RunRequest, Goto, Holds
  <2> DEFINE others == {v \in Worker \ {w} : pc[v] # "idle"}
  <2>3. alone' = [v \in Worker |-> IF v = w THEN others = {} ELSE alone[v] /\ v \notin others]
    BY <1>1 DEF RunRequest
  <2>4. Follows(w)'
    BY <2>2 DEF TypeOK, Asking, Follows, Loaded
  <2>5. Named(w)'
    <3>1. alone'[w] => \A v \in Worker \ {w} : pc[v] = "idle"
      BY <2>3
    <3> QED
      BY <3>1, <2>1, <2>2 DEF TypeOK, Named, Loaded
  <2>6. ASSUME NEW v \in Worker \ {w} PROVE Follows(v)' /\ Named(v)'
    <3>1. alone'[v] => alone[v] /\ pc[v] = "idle"
      BY <2>3
    <3>2. Follows(v) /\ pc'[v] = pc[v] /\ asked'[v] = asked[v] /\ state'[v] = state[v]
      BY <2>2 DEF TypeOK, Asking
    <3> QED
      BY <3>1, <3>2 DEF Follows, Named, Loaded
  <2> QED
    BY <2>4, <2>5, <2>6 DEF Asking
<1>2. ASSUME NEW w \in Worker, MergeOptions(w) PROVE Asking'
  <2>1. /\ pc[w] = "merge" /\ pc' = [pc EXCEPT ![w] = "get"]
        /\ state' = state /\ asked' = asked /\ UNCHANGED <<request, wanted, alone>>
        /\ \A v \in Worker \ {w} : instance'[v] = instance[v]
    BY <1>2 DEF MergeOptions, Goto, Holds, history, TypeOK
  <2>2. Follows(w)'
    BY <2>1 DEF TypeOK, Asking, Follows, Loaded
  <2>3. alone[w] => row'.options = wanted[w]
    <3>1. CASE request[w] = NoOptions
      BY <1>2, <2>1, <3>1, UpdatedOptions DEF MergeOptions, Asking, Named, TypeOK, Row
    <3>2. CASE request[w] # NoOptions
      <4>1. row' = Merged(instance[w], request[w])
        BY <1>2, <3>2 DEF MergeOptions
      <4> QED
        BY <2>1, <4>1, MergedAgrees DEF Asking, Named, TypeOK
    <3> QED
      BY <3>1, <3>2
  <2>4. Named(w)'
    BY <1>0, <2>1, <2>3 DEF TypeOK, Asking, Named, Loaded
  <2> QED
    BY <2>1, <2>2, <2>4, AskingOthers DEF Asking
<1>3. ASSUME NEW w \in Worker, RunnerGet(w) PROVE Asking'
  <2>1. /\ pc[w] = "get" /\ pc' = [pc EXCEPT ![w] = "start"] /\ row' = row
        /\ instance' = [instance EXCEPT ![w] = row]
        /\ state' = state /\ asked' = asked /\ UNCHANGED <<request, wanted, alone>>
    BY <1>3 DEF RunnerGet, Goto, Holds, history
  <2>2. Follows(w)' /\ Named(w)'
    BY <1>0, <2>1 DEF TypeOK, Asking, Follows, Named, Loaded
  <2>3. \A v \in Worker \ {w} : instance'[v] = instance[v]
    BY <2>1 DEF TypeOK
  <2> QED
    BY <2>1, <2>2, <2>3, AskingOthers DEF Asking
<1>4. ASSUME NEW w \in Worker, RunnerMarkRunning(w) PROVE Asking'
  <2>1. /\ pc[w] = "start" /\ pc' = [pc EXCEPT ![w] = "load"] /\ row' = instance[w]
        /\ instance' = instance
        /\ state' = state /\ asked' = asked /\ UNCHANGED <<request, wanted, alone>>
    BY <1>4 DEF RunnerMarkRunning, Goto, history
  <2>2. Follows(w)' /\ Named(w)'
    BY <1>0, <2>1 DEF TypeOK, Asking, Follows, Named, Loaded
  <2> QED
    BY <2>1, <2>2, AskingOthers DEF Asking
<1>5. ASSUME NEW w \in Worker, LoadContext(w) PROVE Asking'
  <2>1. /\ pc[w] = "load" /\ pc' = [pc EXCEPT ![w] = "plan"] /\ row' = row
        /\ state' = [state EXCEPT ![w] = [provider |-> Or(row.options.provider, "openai"),
                                          model    |-> Or(row.options.model, Blank)]]
        /\ instance' = instance /\ asked' = asked /\ UNCHANGED <<request, wanted, alone>>
    BY <1>5 DEF LoadContext, Goto, history
  <2>2. asked[w] = {}
    BY <2>1 DEF Asking, Follows, Loaded
  <2>3. /\ state'[w].provider = Or(row.options.provider, "openai")
        /\ state'[w].model = Or(row.options.model, Blank)
    BY <2>1 DEF TypeOK
  <2>4. Follows(w)'
    BY <2>1, <2>2 DEF Follows
  <2>5. Named(w)'
    BY <1>0, <2>1, <2>3 DEF TypeOK, Asking, Named, Loaded
  <2>6. \A v \in Worker \ {w} : state'[v] = state[v]
    BY <2>1 DEF TypeOK
  <2> QED
    BY <2>1, <2>4, <2>5, <2>6, AskingOthers DEF Asking
<1>6. ASSUME NEW w \in Worker, Planner(w) \/ AnswerWriter(w) PROVE Asking'
  <2>1. PICK to \in {"write", "refresh"} :
           /\ pc[w] \in {"plan", "write"} /\ pc' = [pc EXCEPT ![w] = to]
           /\ row' = row /\ instance' = instance /\ state' = state
           /\ UNCHANGED <<request, wanted, alone>>
    BY <1>6 DEF Planner, AnswerWriter, Goto, history
  <2>2. \A call \in asked[w] : Honours(call, state[w].provider, state[w].model)
    BY DEF Asking, Follows
  <2>3. PICK node, fallback :
           \/ Invoke(w, node, state[w].provider, Or(state[w].model, fallback))
           \/ Invoke(w, node, state[w].provider, state[w].model)
    BY <1>6 DEF Planner, AnswerWriter
  <2>4. /\ \A call \in asked'[w] : Honours(call, state[w].provider, state[w].model)
        /\ \A v \in Worker \ {w} : asked'[v] = asked[v]
    BY <2>2, <2>3, InvokeHonours
  <2>5. Follows(w)'
    BY <2>1, <2>4 DEF TypeOK, Follows, Loaded, Honours
  <2>6. Named(w)'
    BY <1>0, <2>1 DEF TypeOK, Asking, Named, Loaded
  <2> QED
    BY <2>1, <2>4, <2>5, <2>6, AskingOthers DEF Asking
<1>7. ASSUME NEW w \in Worker, AnswerRefresh(w) \/ SaveAnswer(w) \/ RunnerRefresh(w)
      PROVE Asking'
  <2>1. PICK to \in {"save", "close", "totals"} :
           /\ pc[w] \in {"refresh", "save", "close"} /\ pc' = [pc EXCEPT ![w] = to]
           /\ state' = state /\ asked' = asked /\ UNCHANGED <<request, wanted, alone>>
           /\ \A v \in Worker \ {w} : instance'[v] = instance[v]
    BY <1>7 DEF AnswerRefresh, SaveAnswer, RunnerRefresh, Goto, Holds, history, TypeOK
  <2>2. Follows(w)' /\ Named(w)'
    BY <1>0, <2>1 DEF TypeOK, Asking, Follows, Named, Loaded, Honours
  <2> QED
    BY <2>1, <2>2, AskingOthers DEF Asking
<1>8. ASSUME NEW w \in Worker, RunnerReturn(w) \/ RunFails(w) PROVE Asking'
  <2>1. Leave(w) /\ pc[w] # "idle" /\ (row' = row \/ row' = instance[w])
    BY <1>8 DEF RunnerReturn, RunFails
  <2> QED
    BY <2>1, AskingLeave
<1>9. CASE UNCHANGED vars
  BY <1>9 DEF Asking, Follows, Named, Honours, vars, history
<1> QED
  BY <1>1, <1>2, <1>3, <1>4, <1>5, <1>6, <1>7, <1>8, <1>9 DEF Next

(* A run asks one provider, for the model its dictionary names; one that   *)
(* nobody overlapped asks what its request names.                          *)
THEOREM AlwaysAskedAsRequested == Spec => []AskedAsRequested
<1>1. Init => TypeOK /\ Asking
  BY TypeInit, AskingInit
<1>2. TypeOK /\ Asking /\ [Next]_vars => (TypeOK /\ Asking)'
  BY TypeNext, AskingNext
<1>3. TypeOK /\ Asking => AskedAsRequested
  BY AskingImplies
<1> QED
  BY <1>1, <1>2, <1>3, PTL DEF Spec
=============================================================================
