------------------------- MODULE EvidenceSelection -------------------------
(***************************************************************************)
(* How a run chooses its evidence: the planner decides what to search, the *)
(* graph hands its decision to the researcher, which searches each term,   *)
(* ranks what it found, reads around the best matches and cites them.  A   *)
(* line of a file is the set of the words it contains; a call of a tool is *)
(* one step, and the repository may be synchronised between two steps.     *)
(* The statements by which a run saves what it does may all fail: they are *)
(* those of ResearchSession and left out here.                             *)
(***************************************************************************)
EXTENDS Integers, Sequences, FiniteSets

CONSTANTS
    File,             \* paths of the repository
    Attributes,       \* what the tools look at in a path, see FileAttributes
    WalkOrder,        \* place of a file in the order of os.walk
    Term,             \* search terms
    Unsearchable,     \* those a model may plan that are no strings
    FallbackTerms,    \* search_terms of fallback_plan
    Texts,            \* contents the files may have: functions on File
    PlannedTerms,     \* search_terms a model may plan: sequences of terms
    PlannedPaths,     \* likely_paths a model may plan: the files they name
    Limits,           \* max_files_to_read
    MaxTerms, MaxResults,     \* search terms of a run, results of a search
    Before, After,            \* lines read before and after a match
    MaxChanges        \* bound: synchronisations during a run

(* A line, as splitlines separates them, in which detect_function_name     *)
(* finds a function, which has one of IMPLEMENTATION_HINTS, or which ends  *)
(* in a separator that does not end a line of the open file (a form feed). *)
Word == Term \cup {"def", "hint", "feed"}
Text == Seq(SUBSET Word)

(* The directories among the parts of the path, the first part, how many   *)
(* parts are SOURCE_PRIORITY_DIRS, the suffix, the terms in the path, a    *)
(* hint in the path, more than max_file_bytes, a link to a file that is    *)
(* not in the repository.                                                  *)
FileAttributes ==
    [ parts : SUBSET {"excluded", "docs", "tests", "test", "examples"},
      top : {"docs", "other"}, priority : Nat,
      suffix : {"py", "md", "source", "unsupported"},
      named : SUBSET Term, hint : BOOLEAN, large : BOOLEAN, outside : BOOLEAN ]

ASSUME FileAssumption ==
    /\ IsFiniteSet(File)
    /\ Attributes \in [File -> FileAttributes]
    /\ WalkOrder \in [File -> Nat]
    /\ \A f, g \in File : WalkOrder[f] = WalkOrder[g] => f = g
    /\ Texts \subseteq [File -> Text]
ASSUME TermAssumption ==
    /\ Term \cap {"def", "hint", "feed"} = {}
    /\ Unsearchable \subseteq Term
    /\ FallbackTerms \in Seq(Term \ Unsearchable) \ {<<>>}
    /\ PlannedTerms \subseteq Seq(Term)
    /\ PlannedPaths \subseteq SUBSET File
ASSUME SizeAssumption ==
    /\ Limits \subseteq Int \ {0}
    /\ MaxTerms \in Nat \ {0} /\ MaxResults \in Nat
    /\ Before \in Nat /\ After \in Nat
    /\ MaxChanges \in Nat

VARIABLES
    root,      \* the repository's directory exists
    tree,      \* files in it
    text,      \* their lines
    node,      \* the node of the graph that works, or how the run ended
    limit,     \* max_files_to_read of the session's options
    numeric,   \* int() accepts it and max_file_chars
    plan,      \* the plan that planning_completed announces
    state,     \* the part of it that reaches the researcher
    term,      \* number of the term to search
    found,     \* all_matches
    selected,  \* selected_matches that are not read yet
    cited,     \* findings and references, with what was read for them
    changed    \* observer: synchronisations since the plan

repository == <<root, tree, text, changed>>
options == <<limit, numeric>>
vars == <<repository, node, options, plan, state, term, found, selected, cited>>

Smaller(a, b) == IF a < b THEN a ELSE b
Larger(a, b) == IF a > b THEN a ELSE b

-----------------------------------------------------------------------------
(* planner_node.                                                           *)

(* Only the first of equal terms is kept, and MaxTerms of these: the k-th  *)
(* is the term at the k-th place where a term is used first.               *)
FirstUses(terms) ==
    {i \in 1..Len(terms) : \A j \in 1..(i - 1) : terms[j] # terms[i]}
UsedUpTo(terms, i) == {j \in FirstUses(terms) : j <= i}
Merged(terms) ==
    [k \in 1..Smaller(MaxTerms, Cardinality(FirstUses(terms))) |->
        terms[CHOOSE i \in FirstUses(terms) : Cardinality(UsedUpTo(terms, i)) = k]]

NoPlan == [terms |-> <<>>, likely_paths |-> {}, source_first |-> TRUE,
           include_docs |-> FALSE, include_tests |-> FALSE]

(* Fault: the fallback's terms are added to a full list.                   *)
CompletedUncut(p) == [p EXCEPT !.terms = Merged(p.terms) \o FallbackTerms]

(* What the model, or the fallback, planned, with the terms merged.        *)
Completed(p) == [p EXCEPT !.terms = Merged(p.terms \o FallbackTerms)]

(* A model's plan, or fallback_plan when there is none.                    *)
Plans ==
    [terms : PlannedTerms \cup {FallbackTerms}, likely_paths : PlannedPaths,
     source_first : BOOLEAN, include_docs : BOOLEAN, include_tests : BOOLEAN]

(* Fault: a default that does not prefer sources.                          *)
HandedOverOpen(p) == [NoPlan EXCEPT !.terms = p.terms, !.source_first = FALSE]

(* LangGraph passes on the keys that ResearchAgentState declares; the      *)
(* researcher has defaults for the others.                                 *)
HandedOver(p) == [NoPlan EXCEPT !.terms = p.terms]

Init ==
    /\ text \in Texts
    /\ \/ root = TRUE /\ tree = File
       \/ root = FALSE /\ tree = {}
    /\ node = "plan" /\ limit \in Limits /\ numeric \in BOOLEAN
    /\ plan = NoPlan /\ state = NoPlan
    /\ term = 1 /\ found = {} /\ selected = {} /\ cited = {}
    /\ changed = 0

Planner ==
    /\ node = "plan"
    /\ \E p \in Plans :
           /\ plan' = Completed(p)
           /\ state' = HandedOver(Completed(p))
    /\ node' = "search"
    /\ UNCHANGED <<repository, options, term, found, selected, cited>>

(* JSON that is no object, or whose terms are no list, raises out of the   *)
(* node.                                                                   *)
PlannerRaises ==
    /\ node = "plan" /\ node' = "failed"
    /\ UNCHANGED <<repository, options, plan, state, term, found, selected, cited>>

-----------------------------------------------------------------------------
(* search_code.                                                            *)

Under(f, directories) == Attributes[f].parts \cap directories # {}

ShouldSkip(f) ==
    \/ Under(f, {"excluded"})
    \/ /\ state.source_first
       /\ \/ ~state.include_docs /\ Under(f, {"docs"})
          \/ ~state.include_tests /\ Under(f, {"tests", "test"})
          \/ Under(f, {"examples"})

Searched(f) ==
    /\ f \in tree /\ ~ShouldSkip(f)
    /\ Attributes[f].suffix # "unsupported" /\ ~Attributes[f].large

(* The number that iterating the open file gives the i-th of splitlines,   *)
(* all the numbers, and what is in the line of a number.                   *)
Number(f, i) == i - Cardinality({j \in 1..(i - 1) : "feed" \in text[f][j]})
Lines(f) == {Number(f, i) : i \in 1..Len(text[f])}
Pieces(f, n) == {i \in 1..Len(text[f]) : Number(f, i) = n}
Words(f, n) == UNION {text[f][i] : i \in Pieces(f, n)}

InFunction(f, n) == \E k \in Lines(f) : k <= n /\ "def" \in Words(f, k)

(* score_match in twentieths.                                              *)
ScoreMatch(f, n, t) ==
    LET a == Attributes[f]
        When(condition, points) == IF condition THEN points ELSE 0
        sum == 10 + When(t \in Words(f, n), 5) + 5 * a.priority
                  + When(a.suffix = "py", 4) + When(InFunction(f, n), 3)
                  + When(a.hint \/ "hint" \in Words(f, n), 7)
                  - When(a.top = "docs", 7) - When("tests" \in a.parts, 4)
                  - When(a.suffix = "md", 4)
    IN Larger(0, Smaller(sum, 20))

Matches(f, n, t) ==
    t \in Words(f, n) \/ t \in Attributes[f].named \/ f \in state.likely_paths

MatchAt(f, n, t) ==
    [file |-> f, line |-> n, words |-> Words(f, n), term |-> t,
     score |-> ScoreMatch(f, n, state.terms[t])]

(* The stable sorts: by score, then in the order in which all_matches and  *)
(* os.walk list them.                                                      *)
Listed(m, n) ==
    \/ WalkOrder[m.file] < WalkOrder[n.file]
    \/ m.file = n.file /\ m.line < n.line
Outranks(m, n) ==
    \/ m.score > n.score
    \/ m.score = n.score /\ m.term < n.term
    \/ m.score = n.score /\ m.term = n.term /\ Listed(m, n)

(* Fault: the list is cut before it is sorted.                             *)
BestFirstListed(matches, k) ==
    {m \in matches : Cardinality({n \in matches : Listed(n, m)}) < k}

(* The first k of the sorted list.                                         *)
Best(matches, k) ==
    {m \in matches : Cardinality({n \in matches : Outranks(n, m)}) < k}

SearchCode(t) ==
    Best(UNION {{MatchAt(f, n, t) :
                    n \in {i \in Lines(f) : Matches(f, i, state.terms[t])}} :
                f \in {g \in File : Searched(g)}},
         MaxResults)

-----------------------------------------------------------------------------
(* researcher_node.                                                        *)

(* Fault: the same line found for two terms is two matches.                *)
LocationOfTerm(m) == <<m.file, m.line, m.words, m.term>>
Location(m) == <<m.file, m.line, m.words>>

(* all_matches[:max_files_to_read], where a negative number drops the last *)
(* ones.                                                                   *)
FirstMatches(matches) ==
    Best(matches, IF limit > 0 THEN limit ELSE Cardinality(matches) + limit)

(* The limits are numbers, the directory and the term can be searched.     *)
Searchable == numeric /\ root /\ state.terms[term] \notin Unsearchable

(* One term: matches seen before keep their first score.                   *)
Search ==
    /\ node = "search" /\ Searchable
    /\ found' = found \cup {m \in SearchCode(term) :
                               \A n \in found : Location(n) # Location(m)}
    /\ IF term < Len(state.terms)
       THEN term' = term + 1 /\ UNCHANGED <<node, selected>>
       ELSE /\ selected' = FirstMatches(found') /\ node' = "read"
            /\ UNCHANGED term
    /\ UNCHANGED <<repository, options, plan, state, cited>>

SearchRaises ==
    /\ node = "search" /\ ~Searchable /\ node' = "failed"
    /\ UNCHANGED <<repository, options, plan, state, term, found, selected, cited>>

(* Fault: the first line is taken for line 0.                              *)
WindowFromZero(n, total) ==
    [first |-> Larger(1, n - Before) + 1, last |-> Smaller(total, n + After)]

(* read_around_match and read_file: the lines that are asked for, as far   *)
(* as they exist.                                                          *)
Window(n, total) ==
    [first |-> Larger(1, n - Before), last |-> Smaller(total, n + After)]

(* The content is all of the window or, cut off after max_file_chars, what *)
(* is whole of its lines; max_file_chars may be any number and lines may   *)
(* have any length.                                                        *)
ReadFile(f, n) ==
    LET w == Window(n, Len(text[f]))
        shown(last) == [i \in w.first..last |-> text[f][i]]
    IN {[content |-> shown(w.last), truncated |-> FALSE]} \cup
       {[content |-> shown(k), truncated |-> TRUE] :
           k \in (w.first - 1)..(w.last - 1)}

Cite(m) ==
    \E r \in ReadFile(m.file, m.line) :
        cited' = cited \cup {[match |-> m, read |-> r]}

(* Fault: what lies beyond the end of the file cannot be read.             *)
ReadWholeWindow ==
    /\ node = "read"
    /\ \E m \in selected :
           /\ \A n \in selected \ {m} : Outranks(m, n)
           /\ IF m.file \in tree /\ m.line + After <= Len(text[m.file])
              THEN Cite(m) /\ selected' = selected \ {m} /\ UNCHANGED node
              ELSE node' = "failed" /\ UNCHANGED <<selected, cited>>
    /\ UNCHANGED <<repository, options, plan, state, term, found>>

(* The next match is read, saved as a finding and cited.  A file that is   *)
(* not there, or is not in the repository, raises.                         *)
Read ==
    /\ node = "read"
    /\ \E m \in selected :
           /\ \A n \in selected \ {m} : Outranks(m, n)
           /\ IF m.file \in tree /\ ~Attributes[m.file].outside
              THEN Cite(m) /\ selected' = selected \ {m} /\ UNCHANGED node
              ELSE node' = "failed" /\ UNCHANGED <<selected, cited>>
    /\ UNCHANGED <<repository, options, plan, state, term, found>>

ResearchCompleted ==
    /\ node = "read" /\ selected = {} /\ node' = "answer"
    /\ UNCHANGED <<repository, options, plan, state, term, found, selected, cited>>

-----------------------------------------------------------------------------
(* A sync that replaces the clone's files while the run goes on.           *)
Change ==
    /\ node \in {"search", "read"} /\ changed < MaxChanges
    /\ changed' = changed + 1
    /\ \/ root' = FALSE /\ tree' = {} /\ UNCHANGED text
       \/ /\ root' = TRUE
          /\ \E f \in File :
                 \/ tree' = tree \ {f} /\ UNCHANGED text
                 \/ /\ tree' = tree \cup {f}
                    /\ \/ text' = [text EXCEPT ![f] = <<{}>> \o text[f]]
                       \/ /\ text[f] # <<>>
                          /\ text' = [text EXCEPT ![f] = Tail(text[f])]
    /\ UNCHANGED <<node, options, plan, state, term, found, selected, cited>>

Next ==
    \/ Planner \/ PlannerRaises
    \/ Search \/ SearchRaises
    \/ Read \/ ResearchCompleted
    \/ Change

Spec == Init /\ [][Next]_vars

-----------------------------------------------------------------------------
Match ==
    [file : File, line : Nat \ {0}, words : SUBSET Word, term : 1..MaxTerms,
     score : 0..20]

(* Type invariant.                                                         *)
TypeOK ==
    /\ root \in BOOLEAN
    /\ tree \subseteq File
    /\ text \in [File -> Text]
    /\ node \in {"plan", "search", "read", "answer", "failed"}
    /\ limit \in Limits /\ numeric \in BOOLEAN
    /\ {plan, state} \subseteq
           [terms : Seq(Term), likely_paths : SUBSET File, source_first : BOOLEAN,
            include_docs : BOOLEAN, include_tests : BOOLEAN]
    /\ Len(plan.terms) <= MaxTerms /\ state.terms = plan.terms
    /\ term \in 1..Larger(1, Len(state.terms))
    /\ found \subseteq Match /\ selected \subseteq found
    /\ \A c \in cited :
           c.match \in found /\ DOMAIN c.read.content \subseteq Nat \ {0}
    /\ changed \in 0..MaxChanges

(* While the repository stays as it is, a cited line was found for one of  *)
(* the terms, and what was read for it shows all of it as it is, unless    *)
(* the content was cut off or the separators that only read_file counts    *)
(* move the line out of the window.                                        *)
CitedLineShown ==
    changed = 0 => \A c \in cited :
        LET m == c.match IN
        /\ state.terms[m.term] \in m.words \cup Attributes[m.file].named
        /\ \A i \in Pieces(m.file, m.line) : i <= m.line + After =>
               \/ c.read.truncated
               \/ i \in DOMAIN c.read.content /\ c.read.content[i] = text[m.file][i]

(* While the repository stays as it is, no line is cited twice, however    *)
(* many terms find it.                                                     *)
NoLineTwice ==
    changed = 0 => \A c, d \in cited :
        c.match.file = d.match.file /\ c.match.line = d.match.line => c = d

(* The term that the planner put first is ranked exactly: nothing that is  *)
(* chosen scores less than a line found for this term that is left out,    *)
(* although results are cut for every term and again for all.              *)
FirstTermRanked ==
    changed = 0 /\ limit \in 1..MaxResults /\ node \in {"read", "answer"} =>
        \A f \in {g \in File : Searched(g)} : \A n \in Lines(f) :
            LET chosen == selected \cup {c.match : c \in cited}
                first == MatchAt(f, n, 1)
            IN Matches(f, n, state.terms[1]) =>
                   first \in chosen \/ \A m \in chosen : m.score >= first.score

(* Docs, tests and examples are cited only when the announced plan asked   *)
(* for them.                                                               *)
DocsOnlyIfPlanned ==
    \A c \in cited : plan.source_first =>
        /\ Under(c.match.file, {"docs"}) => plan.include_docs
        /\ Under(c.match.file, {"tests", "test"}) => plan.include_tests
        /\ ~Under(c.match.file, {"examples"})

(* Once there is a plan, research fails only when an option is no number,  *)
(* the term that it has come to is no string, the repository is not there  *)
(* or was changed meanwhile, or one of the matches to be read lies outside *)
(* it: never because of where in its file a match is.                      *)
FailureExplained ==
    node = "failed" /\ plan # NoPlan =>
        \/ changed > 0 \/ ~root \/ ~numeric
        \/ state.terms[term] \in Unsearchable
        \/ \E m \in selected : Attributes[m.file].outside

(* README.md: "The planner decides what to search."  The researcher works  *)
(* with the plan that was announced.                                       *)
PlannerDecides == node \in {"search", "read", "answer"} => state = plan
=============================================================================
