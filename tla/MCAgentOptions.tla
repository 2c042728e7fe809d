--------------------------- MODULE MCAgentOptions ---------------------------
(* Instances of AgentOptions for TLC: two requests at a time.               *)
EXTENDS AgentOptions, TLC

CONSTANTS w1, w2, gpt, gpt5, claude, missing, empty

Settings == [to \in {"openai", "anthropic"} |-> IF to = "openai" THEN gpt5 ELSE claude]

(* What requests bring: nothing; a provider only; both names; a model with  *)
(* a blank provider and max_steps above the range that creation checks; a   *)
(* blank model with an unknown provider and max_steps 0.                    *)
Dictionaries == {
    NoOptions,
    [NoOptions EXCEPT !.provider = "anthropic"],
    [NoOptions EXCEPT !.provider = "anthropic", !.model = claude],
    [provider |-> empty, model |-> gpt5, steps |-> 50],
    [provider |-> "other", model |-> empty, steps |-> 0] }

AnyWorker == Permutations(Worker)
=============================================================================
