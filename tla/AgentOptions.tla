----------------------------- MODULE AgentOptions -----------------------------
(***************************************************************************)
(* Which provider and model a run asks.  The options of a session are      *)
(* stored twice: as the JSON dictionary that requests bring and merge, and *)
(* as three typed columns.  load_context reads the dictionary, the planner *)
(* reads dictionary and columns, the runner saves both from an instance    *)
(* that may be old, and the requests of one session overlap.               *)
(*                                                                         *)
(* A dictionary is a record whose absent keys are Unset; Blank is the      *)
(* empty string.  Python's d.get(k, x) replaces Unset only, d.get(k) or x  *)
(* replaces Blank and 0 as well.                                           *)
(***************************************************************************)
EXTENDS Integers

CONSTANTS
    Worker,        \* processes that serve requests of the session
    Provider,      \* names of providers, "openai" and "anthropic" among them
    Model,         \* names of models
    ColumnModel,   \* "gpt-4o-mini", the default that create_session writes
    DefaultModel,  \* OPENAI_MODEL and ANTHROPIC_MODEL of the settings
    Offered,       \* dictionaries that requests bring
    Unset, Blank,
    MaxRequests    \* bound: run requests

Options == [provider : Provider \cup {Unset, Blank},
            model    : Model \cup {Unset, Blank},
            steps    : Nat \cup {Unset}]
NoOptions == [provider |-> Unset, model |-> Unset, steps |-> Unset]

ASSUME OptionsAssumption ==
    /\ {"openai", "anthropic"} \subseteq Provider
    /\ ColumnModel \in Model
    /\ DefaultModel \in [{"openai", "anthropic"} -> Model]
    /\ Unset \notin Provider \cup Model \cup Nat \cup {Blank}
    /\ Blank \notin Provider \cup Model
    /\ NoOptions \in Offered /\ Offered \subseteq Options
    /\ MaxRequests \in Nat

VARIABLES
    row,       \* the session's row: dictionary and columns
    pc,        \* where each request is
    request,   \* the dictionary that each request brought
    instance,  \* the instance of the view, later the one of the runner
    refreshed, \* the instance of answer_writer_node
    state,     \* llm_provider and model_name in the state of each run
    asked,     \* the calls that each run has sent to a provider
    wanted,    \* observed: the dictionary that each request should run with
    alone,     \* observed: has no other request overlapped this one?
    requests   \* run requests so far

history == <<wanted, alone, requests>>
vars == <<row, pc, request, instance, refreshed, state, asked, history>>

Row == [options  : Options,
        provider : Provider \cup {Blank},
        model    : Model \cup {Blank},
        steps    : Nat \ {0}]
Call == [by : {"planner", "writer"}, to : {"openai", "anthropic"}, model : Model]

Get(value, default) == IF value = Unset THEN default ELSE value
Or(value, default) == IF value \in {Unset, Blank} THEN default ELSE value
OrSteps(value, default) == IF value \in {Unset, 0} THEN default ELSE value

-----------------------------------------------------------------------------
(* Creation.  The serializer completes max_steps and bounds it; the        *)
(* service copies the dictionary into the columns.                         *)
Validated(o) == [o EXCEPT !.steps = OrSteps(@, 8)]
NewRow(o) == [options  |-> o,
              provider |-> Get(o.provider, "openai"),
              model    |-> Get(o.model, ColumnModel),
              steps    |-> o.steps]
Created == {NewRow(o) : o \in {p \in {Validated(q) : q \in Offered} : p.steps \in 1..20}}

(* What a process remembers while it serves no request.                    *)
NoRow == NewRow(Validated(NoOptions))
NoState == [provider |-> "openai", model |-> Blank]

Init ==
    /\ row \in Created
    /\ pc = [w \in Worker |-> "idle"]
    /\ request = [w \in Worker |-> NoOptions]
    /\ instance = [w \in Worker |-> NoRow]
    /\ refreshed = [w \in Worker |-> NoRow]
    /\ state = [w \in Worker |-> NoState]
    /\ asked = [w \in Worker |-> {}]
    /\ wanted = [w \in Worker |-> NoOptions]
    /\ alone = [w \in Worker |-> TRUE]
    /\ requests = 0

Goto(w, from, to) == pc[w] = from /\ pc' = [pc EXCEPT ![w] = to]
Holds(w, r) == instance' = [instance EXCEPT ![w] = r]

(* The request is answered, or its worker killed: its memory is gone.      *)
Leave(w) ==
    /\ pc' = [pc EXCEPT ![w] = "idle"]
    /\ request' = [request EXCEPT ![w] = NoOptions]
    /\ instance' = [instance EXCEPT ![w] = NoRow]
    /\ refreshed' = [refreshed EXCEPT ![w] = NoRow]
    /\ state' = [state EXCEPT ![w] = NoState]
    /\ asked' = [asked EXCEPT ![w] = {}]
    /\ wanted' = [wanted EXCEPT ![w] = NoOptions]
    /\ alone' = [alone EXCEPT ![w] = TRUE]
    /\ UNCHANGED requests

-----------------------------------------------------------------------------
(* run_existing_session.                                                   *)

(* dict.update: the keys of the request win.                               *)
Updated(o, by) == [provider |-> Get(by.provider, o.provider),
                   model    |-> Get(by.model, o.model),
                   steps    |-> Get(by.steps, o.steps)]

(* Faults: a merged max_steps of 0 is stored; the model is not saved.      *)
MergedZero(r, by) ==
    LET o == Updated(r.options, by)
    IN [options |-> o, provider |-> Get(o.provider, r.provider),
        model |-> Get(o.model, r.model), steps |-> Get(o.steps, r.steps)]
MergedNoModel(r, by) ==
    LET o == Updated(r.options, by)
    IN [options |-> o, provider |-> Get(o.provider, r.provider),
        model |-> r.model, steps |-> OrSteps(o.steps, r.steps)]
(* The assignments of the merge; the range of max_steps is not checked.    *)
Merged(r, by) ==
    LET o == Updated(r.options, by)
    IN [options |-> o, provider |-> Get(o.provider, r.provider),
        model |-> Get(o.model, r.model), steps |-> OrSteps(o.steps, r.steps)]

(* The view fetches the session.  A request without options is also how    *)
(* the creating request runs its session.                                  *)
RunRequest(w) ==
    /\ requests < MaxRequests /\ requests' = requests + 1
    /\ Goto(w, "idle", "merge")
    /\ \E o \in Offered :
           /\ request' = [request EXCEPT ![w] = o]
           /\ wanted' = [wanted EXCEPT ![w] = Updated(row.options, o)]
    /\ LET others == {v \in Worker \ {w} : pc[v] # "idle"}
       IN alone' = [v \in Worker |-> IF v = w THEN others = {}
                                     ELSE alone[v] /\ v \notin others]
    /\ Holds(w, row)
    /\ UNCHANGED <<row, refreshed, state, asked>>

(* Without options nothing is saved; with options all of them are, from    *)
(* the instance that the view fetched.                                     *)
MergeOptions(w) ==
    /\ Goto(w, "merge", "get")
    /\ IF request[w] = NoOptions THEN UNCHANGED <<row, instance>>
       ELSE LET r == Merged(instance[w], request[w]) IN row' = r /\ Holds(w, r)
    /\ UNCHANGED <<request, refreshed, state, asked, history>>

-----------------------------------------------------------------------------
(* AgentRunner.run and the nodes, as far as they touch the options.        *)

RunnerGet(w) ==
    /\ Goto(w, "get", "start") /\ Holds(w, row)
    /\ UNCHANGED <<row, request, refreshed, state, asked, history>>

(* save() without update_fields: all columns of the instance.              *)
RunnerMarkRunning(w) ==
    /\ Goto(w, "start", "load") /\ row' = instance[w]
    /\ UNCHANGED <<request, instance, refreshed, state, asked, history>>

LoadContext(w) ==
    /\ Goto(w, "load", "plan")
    /\ state' = [state EXCEPT ![w] = [provider |-> Or(row.options.provider, "openai"),
                                      model    |-> Or(row.options.model, Blank)]]
    /\ UNCHANGED <<row, request, instance, refreshed, asked, history>>

(* LLMFactory: every provider but anthropic is asked through OpenAI's      *)
(* client; without a key nothing is sent, and the node falls back.         *)
Client(provider) == IF provider = "anthropic" THEN "anthropic" ELSE "openai"
Invoke(w, node, provider, model) ==
    LET to == Client(provider)
        call == [by |-> node, to |-> to, model |-> Or(model, DefaultModel[to])]
    IN UNCHANGED asked \/ asked' = [asked EXCEPT ![w] = @ \cup {call}]

(* Fault: the planner prefers the columns, which may be newer.             *)
PlannerPrefersColumns(w) ==
    /\ Goto(w, "plan", "write")
    /\ Invoke(w, "planner", Or(row.provider, state[w].provider),
                            Or(row.model, state[w].model))
    /\ UNCHANGED <<row, request, instance, refreshed, state, history>>
(* The planner completes a model that is not named from the column.        *)
Planner(w) ==
    /\ Goto(w, "plan", "write")
    /\ Invoke(w, "planner", state[w].provider, Or(state[w].model, row.model))
    /\ UNCHANGED <<row, request, instance, refreshed, state, history>>

AnswerWriter(w) ==
    /\ Goto(w, "write", "refresh")
    /\ Invoke(w, "writer", state[w].provider, state[w].model)
    /\ UNCHANGED <<row, request, instance, refreshed, state, history>>

(* answer_writer_node refreshes an instance of its own and saves it whole. *)
AnswerRefresh(w) ==
    /\ Goto(w, "refresh", "save") /\ refreshed' = [refreshed EXCEPT ![w] = row]
    /\ UNCHANGED <<row, request, instance, state, asked, history>>
SaveAnswer(w) ==
    /\ Goto(w, "save", "close") /\ row' = refreshed[w]
    /\ UNCHANGED <<request, instance, refreshed, state, asked, history>>

(* The runner refreshes its instance; what it saves then are the totals.   *)
RunnerRefresh(w) ==
    /\ Goto(w, "close", "totals") /\ Holds(w, row)
    /\ UNCHANGED <<row, request, refreshed, state, asked, history>>
RunnerReturn(w) ==
    /\ pc[w] = "totals" /\ Leave(w)
    /\ UNCHANGED row

(* Anything raises, or the worker is killed.  Once the runner has its      *)
(* instance, its except clause saves all of it, unless that fails too.     *)
RunFails(w) ==
    /\ pc[w] # "idle" /\ Leave(w)
    /\ \/ row' = row
       \/ pc[w] \notin {"merge", "get"} /\ row' = instance[w]

Next == \E w \in Worker :
    \/ RunRequest(w) \/ MergeOptions(w) \/ RunnerGet(w) \/ RunnerMarkRunning(w)
    \/ LoadContext(w) \/ Planner(w) \/ AnswerWriter(w) \/ AnswerRefresh(w)
    \/ SaveAnswer(w) \/ RunnerRefresh(w) \/ RunnerReturn(w) \/ RunFails(w)

Spec == Init /\ [][Next]_vars

-----------------------------------------------------------------------------
(* Type invariant; the column max_steps is positive although the merge     *)
(* checks nothing.                                                         *)
TypeOK ==
    /\ row \in Row
    /\ pc \in [Worker -> {"idle", "merge", "get", "start", "load", "plan", "write",
                          "refresh", "save", "close", "totals"}]
    /\ request \in [Worker -> Options]
    /\ instance \in [Worker -> Row]
    /\ refreshed \in [Worker -> Row]
    /\ state \in [Worker -> [provider : Provider, model : Model \cup {Blank}]]
    /\ asked \in [Worker -> SUBSET Call]
    /\ wanted \in [Worker -> Options]
    /\ alone \in [Worker -> BOOLEAN]
    /\ requests \in 0..MaxRequests

(* The two representations of the options agree: however merges, failing   *)
(* runs and full saves of old instances interleave, the columns are those  *)
(* of the stored dictionary, or the defaults of create_session; only a     *)
(* merged max_steps of 0 is in the dictionary alone.                       *)
Agrees(r) ==
    /\ r.provider = Get(r.options.provider, "openai")
    /\ r.model = Get(r.options.model, ColumnModel)
    /\ r.steps = OrSteps(r.options.steps, r.steps)
ColumnsAgree == Agrees(row)

(* The calls of one run go to one provider and ask for the model that its  *)
(* dictionary named, whatever other requests store meanwhile; and a run    *)
(* that no other request overlapped asks what its request, completed by    *)
(* the session's earlier options, names.                                   *)
Honours(call, provider, model) ==
    /\ call.to = Client(Or(provider, "openai"))
    /\ Or(model, Blank) # Blank => call.model = model
AskedAsRequested ==
    \A w \in Worker : \A call \in asked[w] :
        /\ Honours(call, state[w].provider, state[w].model)
        /\ alone[w] => Honours(call, wanted[w].provider, wanted[w].model)
=============================================================================
