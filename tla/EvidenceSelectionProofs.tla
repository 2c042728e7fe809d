---------------------- MODULE EvidenceSelectionProofs ----------------------
(***************************************************************************)
(* What the researcher cites, for repositories, plans and limits of any    *)
(* size.                                                                   *)
(***************************************************************************)
EXTENDS EvidenceSelection, FiniteSetTheorems, TLAPS

-----------------------------------------------------------------------------
(* Facts on numbers and on finite ordered sets.                            *)

(* Induction on the natural numbers, in the form of the least element.     *)
LEMMA LeastNumber ==
    ASSUME NEW S \in SUBSET Nat, S # {}
    PROVE  \E m \in S : \A n \in S : m <= n
<1> DEFINE R == OpToRel(<, Nat)
<1>1. IsWellFoundedOn(R, Nat)
    BY NatLessThanWellFounded
<1>2. \E m \in S : \A n \in S : <<n, m>> \notin R
    <2> HIDE DEF R
    <2> QED
        BY <1>1, WFMin
<1>3. PICK m \in S : \A n \in S : <<n, m>> \notin R
    BY <1>2
<1>4. ASSUME NEW n \in S PROVE m <= n
    <2>1. <<n, m>> \notin {p \in Nat \X Nat : p[1] < p[2]}
        BY <1>3 DEF OpToRel
    <2> QED
        BY <2>1
<1> QED
    BY <1>3, <1>4

(* What ranks above x in S, and sets of which any two elements are ranked. *)
Above(S, x) == {n \in S : Outranks(n, x)}
Ranked(S) ==
    /\ IsFiniteSet(S)
    /\ \A m \in S : m.file \in File /\ m.line \in Int /\ m.term \in Int /\ m.score \in Int
    /\ \A m, n \in S : m # n => Outranks(m, n) \/ Outranks(n, m)

LEMMA RankTransitive ==
    ASSUME NEW l, NEW m, NEW n,
           \A k \in {l, m, n} : k.file \in File /\ k.line \in Int /\ k.term \in Int
                                /\ k.score \in Int
    PROVE  /\ ~Outranks(m, m)
           /\ Outranks(l, m) /\ Outranks(m, n) => Outranks(l, n)
<1>1. \A k \in {l, m, n} : /\ WalkOrder[k.file] \in Int /\ k.line \in Int
                           /\ k.term \in Int /\ k.score \in Int
    BY FileAssumption
<1>2. ~Listed(m, m)
    BY <1>1 DEF Listed
<1>3. Listed(l, m) /\ Listed(m, n) => Listed(l, n)
    BY <1>1 DEF Listed
<1> QED
    BY <1>1, <1>2, <1>3 DEF Outranks

LEMMA OutranksOrders ==
    ASSUME NEW S, Ranked(S), NEW l \in S, NEW m \in S, NEW n \in S
    PROVE  /\ ~Outranks(m, m)
           /\ Outranks(l, m) /\ Outranks(m, n) => Outranks(l, n)
<1>1. \A k \in {l, m, n} : k.file \in File /\ k.line \in Int /\ k.term \in Int
                           /\ k.score \in Int
    BY DEF Ranked
<1> QED
    BY <1>1, RankTransitive

(* The better of two elements has fewer above it.                          *)
LEMMA FewerAbove ==
    ASSUME NEW S, Ranked(S), NEW m \in S, NEW n \in S, Outranks(m, n)
    PROVE  /\ Above(S, m) \subseteq Above(S, n)
           /\ Cardinality(Above(S, m)) \in Nat /\ Cardinality(Above(S, n)) \in Nat
           /\ Cardinality(Above(S, m)) < Cardinality(Above(S, n))
<1>1. Above(S, m) \subseteq Above(S, n) /\ m \in Above(S, n) /\ m \notin Above(S, m)
    BY OutranksOrders DEF Above
<1>2. IsFiniteSet(Above(S, n))
    BY FS_Subset DEF Above, Ranked
<1>3. /\ Cardinality(Above(S, m)) <= Cardinality(Above(S, n))
      /\ Cardinality(Above(S, m)) # Cardinality(Above(S, n))
      /\ IsFiniteSet(Above(S, m))
    BY <1>1, <1>2, FS_Subset
<1> QED
    BY <1>1, <1>2, <1>3, FS_CardinalityType

(* Whatever is left out when k of S are kept has k kept ones above it.     *)
LEMMA BestAreAbove ==
    ASSUME NEW S, Ranked(S), NEW k \in Int, NEW x \in S \ Best(S, k)
    PROVE  Cardinality({n \in Best(S, k) : Outranks(n, x)}) >= k
<1> DEFINE left == S \ Best(S, k)
           numbers == {Cardinality(Above(S, y)) : y \in left}
<1>1. \A y \in S : IsFiniteSet(Above(S, y)) /\ Cardinality(Above(S, y)) \in Nat
    BY FS_Subset, FS_CardinalityType DEF Ranked, Above
<1>2. \A y \in S : y \in Best(S, k) <=> Cardinality(Above(S, y)) < k
    BY DEF Best, Above
<1>3. \E number \in numbers : \A other \in numbers : number <= other
    <2>1. numbers \in SUBSET Nat /\ numbers # {}
        BY <1>1
    <2> HIDE DEF numbers
    <2> QED
        BY <2>1, LeastNumber
<1>4. PICK y \in left : \A z \in left : Cardinality(Above(S, y)) <= Cardinality(Above(S, z))
    BY <1>3
<1>5. Above(S, y) \subseteq Best(S, k)
    <2> SUFFICES ASSUME NEW z \in Above(S, y), z \notin Best(S, k) PROVE FALSE
        OBVIOUS
    <2>1. z \in left /\ Outranks(z, y)
        BY DEF Above
    <2> QED
        BY <1>4, <2>1, FewerAbove
<1>6. Above(S, y) \subseteq Above(S, x)
    <2>1. ~Outranks(x, y)
        BY <1>4, FewerAbove
    <2>2. x = y \/ Outranks(y, x)
        BY <2>1 DEF Ranked
    <2> QED
        BY <2>2, FewerAbove
<1>7. Above(S, y) \subseteq {n \in Best(S, k) : Outranks(n, x)}
    BY <1>5, <1>6 DEF Above
<1>8. {n \in Best(S, k) : Outranks(n, x)} \subseteq S
    BY DEF Best
<1>9. Cardinality(Above(S, y)) >= k
    BY <1>1, <1>2
<1>10. IsFiniteSet({n \in Best(S, k) : Outranks(n, x)})
    BY <1>8, FS_Subset DEF Ranked
<1> QED
    BY <1>1, <1>7, <1>9, <1>10, FS_Subset, FS_CardinalityType

(* No more than k of S are kept, and fewer only if there are fewer.        *)
LEMMA BestCount ==
    ASSUME NEW S, Ranked(S), NEW k \in Nat
    PROVE  Cardinality(Best(S, k)) = Smaller(k, Cardinality(S))
<1> DEFINE size == Cardinality(S)
           place == [x \in S |-> Cardinality(Above(S, x))]
           kept == Smaller(k, size)
<1>1. size \in Nat /\ IsFiniteSet(S)
    BY FS_CardinalityType DEF Ranked
<1>2. place \in Injection(S, 0..(size - 1))
    <2>1. ASSUME NEW x \in S PROVE place[x] \in 0..(size - 1)
        <3>1. Above(S, x) \in SUBSET (S \ {x})
            BY OutranksOrders DEF Above
        <3>2. IsFiniteSet(S \ {x}) /\ Cardinality(S \ {x}) = size - 1
            BY <1>1, FS_RemoveElement
        <3>3. IsFiniteSet(Above(S, x)) /\ Cardinality(Above(S, x)) <= size - 1
            BY <3>1, <3>2, FS_Subset
        <3>4. Cardinality(Above(S, x)) \in Nat
            BY <3>3, FS_CardinalityType
        <3> QED
            BY <1>1, <3>3, <3>4
    <2>2. ASSUME NEW x \in S, NEW y \in S, place[x] = place[y] PROVE x = y
        <3>1. ~Outranks(x, y) /\ ~Outranks(y, x)
            BY <2>2, FewerAbove
        <3> QED
            BY <3>1 DEF Ranked
    <2> HIDE DEF place
    <2>3. place \in [S -> 0..(size - 1)]
        BY <2>1 DEF place
    <2> QED
        BY <2>2, <2>3 DEF Injection, IsInjective
<1>3. IsFiniteSet(0..(size - 1)) /\ Cardinality(0..(size - 1)) = size
    BY <1>1, FS_Interval
<1>4. place \in Surjection(S, 0..(size - 1))
    <2> HIDE DEF place, size
    <2> QED
        BY <1>2, <1>3, FS_Injection DEF size
<1> DEFINE shorter == [x \in Best(S, k) |-> place[x]]
<1>5. \A x \in S : x \in Best(S, k) <=> place[x] < k
    BY DEF Best, Above
<1>6. Best(S, k) \subseteq S
    BY DEF Best
<1>7. place \in [S -> 0..(size - 1)] /\ \A x, y \in S : place[x] = place[y] => x = y
    BY <1>2 DEF Injection, IsInjective
<1>8. \A i \in 0..(size - 1) : \E x \in S : place[x] = i
    BY <1>4 DEF Surjection
<1> HIDE DEF place
<1>9. shorter \in [Best(S, k) -> 0..(kept - 1)]
    BY <1>1, <1>5, <1>6, <1>7 DEF Smaller
<1>10. shorter \in Bijection(Best(S, k), 0..(kept - 1))
    <2>1. \A x, y \in Best(S, k) : shorter[x] = shorter[y] => x = y
        BY <1>6, <1>7
    <2>2. \A i \in 0..(kept - 1) : \E x \in Best(S, k) : shorter[x] = i
        <3> SUFFICES ASSUME NEW i \in 0..(kept - 1)
                     PROVE  \E x \in Best(S, k) : shorter[x] = i
            OBVIOUS
        <3>1. i \in 0..(size - 1) /\ i < k
            BY <1>1 DEF Smaller
        <3>2. PICK x \in S : place[x] = i
            BY <1>8, <3>1
        <3> QED
            BY <1>5, <3>1, <3>2
    <2> HIDE DEF shorter, kept
    <2> QED
        BY <1>9, <2>1, <2>2 DEF Bijection, Injection, IsInjective, Surjection
<1>11. IsFiniteSet(Best(S, k))
    BY <1>1, <1>6, FS_Subset
<1>12. Cardinality(0..(kept - 1)) = kept
    <2>1. kept \in Nat
        BY <1>1 DEF Smaller
    <2> HIDE DEF kept
    <2>2. Cardinality(0..(kept - 1)) = IF 0 > kept - 1 THEN 0 ELSE kept - 1 - 0 + 1
        BY <2>1, FS_Interval
    <2> QED
        BY <2>1, <2>2
<1> QED
    <2> HIDE DEF shorter, kept
    <2>1. ExistsBijection(Best(S, k), 0..(kept - 1))
        BY <1>10 DEF ExistsBijection
    <2> QED
        BY <1>11, <1>12, <2>1, FS_Bijection DEF kept

-----------------------------------------------------------------------------

(* The researcher's settings are the defaults, with the announced terms.   *)
StateInv == state = [NoPlan EXCEPT !.terms = plan.terms]

RepositoryInv ==
    /\ text \in [File -> Text]
    /\ changed \in Nat
    /\ changed = 0 /\ root => tree = File

(* What is found is in a file that may be searched, and was found once.    *)
FoundInv ==
    /\ \A m \in found : m.file \in File /\ ~Under(m.file, {"docs"})
                        /\ ~Under(m.file, {"tests", "test"})
                        /\ ~Under(m.file, {"examples"})
    /\ \A m, n \in found : Location(m) = Location(n) => m = n
    /\ selected \subseteq found

(* While nothing changes, a match is what the file says, and what was read *)
(* for it is what would be read again.                                     *)
True(m) ==
    /\ m.line \in Lines(m.file)
    /\ m.words = Words(m.file, m.line)
    /\ state.terms[m.term] \in m.words \cup Attributes[m.file].named
Shown(c) == c.read \in ReadFile(c.match.file, c.match.line)
FreshInv ==
    changed = 0 => (\A m \in found : True(m)) /\ (\A c \in cited : Shown(c))

CitedInv == \A c \in cited : c.match \in found

PhaseInv ==
    /\ node = "plan" => plan = NoPlan /\ found = {}
    /\ FailureExplained

EvidenceInv ==
    StateInv /\ RepositoryInv /\ FoundInv /\ FreshInv /\ CitedInv /\ PhaseInv

(* No line of the open file has a number above that of splitlines.         *)
LEMMA NumberBounds ==
    ASSUME NEW f, NEW i \in Nat \ {0} PROVE Number(f, i) \in 1..i
<1> DEFINE before == {j \in 1..(i - 1) : "feed" \in text[f][j]}
<1>1. IsFiniteSet(1..(i - 1)) /\ Cardinality(1..(i - 1)) = i - 1
    BY FS_Interval
<1>2. before \subseteq 1..(i - 1)
    OBVIOUS
<1> HIDE DEF before
<1>3. Cardinality(before) <= i - 1 /\ Cardinality(before) \in Nat
    BY <1>1, <1>2, FS_Subset, FS_CardinalityType
<1> QED
    BY <1>3 DEF Number, before

LEMMA LineType ==
    ASSUME text \in [File -> Text], NEW f \in File, NEW n \in Lines(f)
    PROVE  n \in Nat \ {0} /\ Words(f, n) \subseteq Word
<1>1. text[f] \in Seq(SUBSET Word)
    BY DEF Text
<1>2. PICK i \in 1..Len(text[f]) : n = Number(f, i)
    BY DEF Lines
<1>3. \A j \in 1..Len(text[f]) : text[f][j] \in SUBSET Word
    BY <1>1
<1> QED
    BY <1>1, <1>2, <1>3, NumberBounds DEF Words, Pieces

(* read_around_match and read_file: what search_code found in a line that  *)
(* is in the window is in the content, unless that was cut.                *)
LEMMA WindowShowsLine ==
    ASSUME text \in [File -> Text], NEW f \in File, NEW n \in Nat \ {0},
           NEW r \in ReadFile(f, n), ~r.truncated,
           NEW i \in Pieces(f, n), i <= n + After
    PROVE  i \in DOMAIN r.content /\ r.content[i] = text[f][i]
<1> DEFINE w == Window(n, Len(text[f]))
<1>1. Len(text[f]) \in Nat
    BY DEF Text
<1>2. i \in 1..Len(text[f]) /\ n <= i
    BY <1>1, NumberBounds DEF Pieces
<1>3. w.first \in Int /\ w.first <= n
    BY <1>1, SizeAssumption DEF Window, Larger
<1>4. w.last \in Int /\ i <= w.last
    BY <1>1, <1>2, SizeAssumption DEF Window, Smaller
<1>5. r.content = [k \in w.first..w.last |-> text[f][k]]
    <2>1. \/ r = [content |-> [k \in w.first..w.last |-> text[f][k]], truncated |-> FALSE]
          \/ \E last : r = [content |-> [k \in w.first..last |-> text[f][k]],
                           truncated |-> TRUE]
        BY DEF ReadFile
    <2>2. ASSUME NEW content, r = [content |-> content, truncated |-> TRUE] PROVE FALSE
        BY <2>2, Zenon
    <2>3. ASSUME NEW content, r = [content |-> content, truncated |-> FALSE]
          PROVE  r.content = content
        BY <2>3, Zenon
    <2> QED
        BY <2>1, <2>2, <2>3, Zenon
<1> QED
    BY <1>2, <1>3, <1>4, <1>5

LEMMA TextUnchanged ==
    ASSUME UNCHANGED text, NEW f, NEW n
    PROVE  /\ Lines(f)' = Lines(f) /\ Words(f, n)' = Words(f, n)
           /\ Pieces(f, n)' = Pieces(f, n) /\ ReadFile(f, n)' = ReadFile(f, n)
BY DEF Lines, Words, Pieces, Number, ReadFile

LEMMA FreshUnchanged ==
    ASSUME UNCHANGED <<text, state>>
    PROVE  /\ \A m : True(m)' = True(m)
           /\ \A c : Shown(c)' = Shown(c)
BY TextUnchanged DEF True, Shown

(* What search_code returns was found where it says, in a file that is not *)
(* skipped, and each line once.                                            *)
LEMMA SearchResults ==
    ASSUME StateInv, NEW t, NEW m \in SearchCode(t)
    PROVE  /\ m.file \in File /\ Searched(m.file)
           /\ m.line \in Lines(m.file)
           /\ m = MatchAt(m.file, m.line, t)
           /\ state.terms[t] \in m.words \cup Attributes[m.file].named
<1>1. PICK f \in File : Searched(f) /\ \E n \in Lines(f) :
          Matches(f, n, state.terms[t]) /\ m = MatchAt(f, n, t)
    BY DEF SearchCode, Best
<1>a. PICK n \in Lines(f) :
          Matches(f, n, state.terms[t]) /\ m = MatchAt(f, n, t)
    BY <1>1
<1>2. m.file = f /\ m.line = n /\ m.words = Words(f, n)
    BY <1>a DEF MatchAt
<1>3. state.likely_paths = {}
    BY DEF StateInv, NoPlan
<1> QED
    BY <1>1, <1>a, <1>2, <1>3 DEF Matches

LEMMA EvidenceInductive == Spec => []EvidenceInv
<1>1. Init => EvidenceInv
    <2> SUFFICES ASSUME Init PROVE EvidenceInv
        OBVIOUS
    <2>1. StateInv
        BY DEF Init, StateInv, NoPlan
    <2>2. RepositoryInv
        BY FileAssumption DEF Init, RepositoryInv
    <2>3. FoundInv /\ FreshInv /\ CitedInv /\ PhaseInv
        BY DEF Init, FoundInv, FreshInv, CitedInv, PhaseInv, FailureExplained
    <2> QED
        BY <2>1, <2>2, <2>3 DEF EvidenceInv
<1>2. EvidenceInv /\ [Next]_vars => EvidenceInv'
    <2> SUFFICES ASSUME EvidenceInv, [Next]_vars PROVE EvidenceInv'
        OBVIOUS
    <2> USE DEF EvidenceInv
    <2>1. CASE Planner
        <3>1. PICK p \in Plans : plan' = Completed(p) /\ state' = HandedOver(Completed(p))
            BY <2>1 DEF Planner
        <3>2. StateInv'
            BY <3>1 DEF StateInv, HandedOver
        <3>3. found = {} /\ cited = {} /\ selected = {}
            BY <2>1 DEF Planner, PhaseInv, CitedInv, FoundInv
        <3>4. RepositoryInv' /\ FoundInv' /\ FreshInv' /\ CitedInv'
            BY <2>1, <3>3 DEF Planner, repository, options, RepositoryInv, FoundInv, FreshInv,
               CitedInv
        <3>5. PhaseInv'
            BY <2>1 DEF Planner, PhaseInv, FailureExplained
        <3> QED
            BY <3>2, <3>4, <3>5
    <2>2. CASE PlannerRaises
        BY <2>2, FreshUnchanged DEF PlannerRaises, repository, options, StateInv, RepositoryInv,
           FoundInv, FreshInv, CitedInv, PhaseInv, FailureExplained, Location
    <2>3. CASE Search
        <3> DEFINE new == {m \in SearchCode(term) :
                              \A n \in found : Location(n) # Location(m)}
        <3>1. /\ found' = found \cup new
              /\ UNCHANGED <<root, tree, text, changed, limit, numeric, plan, state, cited>>
              /\ node' \in {"search", "read"}
              /\ selected' \subseteq selected \cup found'
            BY <2>3 DEF Search, repository, options, FirstMatches, Best
        <3>2. StateInv' /\ RepositoryInv'
            BY <3>1 DEF StateInv, RepositoryInv
        <3>3. FoundInv'
            <4>1. ASSUME NEW m \in new
                  PROVE  /\ m.file \in File /\ ~Under(m.file, {"docs"})
                         /\ ~Under(m.file, {"tests", "test"})
                         /\ ~Under(m.file, {"examples"})
                <5>1. m.file \in File /\ Searched(m.file)
                    BY SearchResults
                <5>2. ~ShouldSkip(m.file)
                    BY <5>1 DEF Searched
                <5> QED
                    BY <5>1, <5>2 DEF ShouldSkip, StateInv, NoPlan
            <4>2. ASSUME NEW m \in new, NEW n \in new, Location(m) = Location(n)
                  PROVE  m = n
                <5>1. m = MatchAt(m.file, m.line, term) /\ n = MatchAt(n.file, n.line, term)
                    BY SearchResults
                <5>2. m.file = n.file /\ m.line = n.line
                    BY <4>2 DEF Location
                <5> QED
                    BY <5>1, <5>2
            <4>3. \A m, n \in found' : Location(m) = Location(n) => m = n
                BY <3>1, <4>2 DEF FoundInv
            <4>4. selected' \subseteq found'
                BY <3>1 DEF FoundInv
            <4>5. \A m \in found' : m.file \in File /\ ~Under(m.file, {"docs"})
                                    /\ ~Under(m.file, {"tests", "test"})
                                    /\ ~Under(m.file, {"examples"})
                BY <3>1, <4>1 DEF FoundInv
            <4> QED
                BY <4>3, <4>4, <4>5 DEF FoundInv, Location, Under
        <3>4. FreshInv'
            <4> SUFFICES ASSUME changed = 0
                         PROVE  (\A m \in found' : True(m)) /\ (\A c \in cited : Shown(c))
                BY <3>1, FreshUnchanged DEF FreshInv
            <4>1. ASSUME NEW m \in new PROVE True(m)
                <5>1. /\ m.line \in Lines(m.file)
                      /\ m = MatchAt(m.file, m.line, term)
                      /\ state.terms[term] \in m.words \cup Attributes[m.file].named
                    BY SearchResults
                <5>2. m.term = term /\ m.words = Words(m.file, m.line)
                    BY <5>1 DEF MatchAt
                <5> QED
                    BY <5>1, <5>2 DEF True
            <4> QED
                BY <3>1, <4>1 DEF FreshInv
        <3>5. CitedInv' /\ PhaseInv'
            BY <3>1 DEF CitedInv, PhaseInv, FailureExplained
        <3> QED
            BY <3>2, <3>3, <3>4, <3>5
    <2>4. CASE SearchRaises
        BY <2>4, FreshUnchanged DEF SearchRaises, repository, options, StateInv, RepositoryInv,
           FoundInv, FreshInv, CitedInv, PhaseInv, FailureExplained, Location, Searchable
    <2>5. CASE Read
        <3>1. /\ UNCHANGED <<root, tree, text, changed, limit, plan, state, found>>
              /\ node = "read" /\ selected' \subseteq selected
            BY <2>5 DEF Read, repository, options
        <3>2. PICK m \in selected :
                  IF m.file \in tree /\ ~Attributes[m.file].outside
                  THEN /\ Cite(m) /\ UNCHANGED node
                  ELSE /\ node' = "failed" /\ UNCHANGED <<cited, selected>>
            BY <2>5 DEF Read
        <3>3. StateInv' /\ RepositoryInv' /\ FoundInv'
            BY <3>1 DEF StateInv, RepositoryInv, FoundInv, Location, Under
        <3>4. CASE Cite(m) /\ UNCHANGED node
            <4>1. PICK r \in ReadFile(m.file, m.line) :
                      cited' = cited \cup {[match |-> m, read |-> r]}
                BY <3>4 DEF Cite
            <4>2. CitedInv'
                BY <3>1, <4>1 DEF CitedInv, FoundInv
            <4>3. FreshInv'
                <5>1. Shown([match |-> m, read |-> r])
                    BY DEF Shown
                <5> QED
                    BY <3>1, <4>1, <5>1, FreshUnchanged DEF FreshInv
            <4>4. PhaseInv'
                BY <3>1, <3>4 DEF PhaseInv, FailureExplained
            <4> QED
                BY <3>3, <4>2, <4>3, <4>4
        <3>5. CASE /\ m.file \notin tree \/ Attributes[m.file].outside
                   /\ node' = "failed" /\ UNCHANGED <<cited, selected>>
            <4>1. CitedInv' /\ FreshInv'
                BY <3>1, <3>5, FreshUnchanged DEF CitedInv, FreshInv
            <4>2. m.file \notin tree => changed > 0 \/ ~root
                BY DEF FoundInv, RepositoryInv
            <4>3. PhaseInv'
                BY <3>1, <3>5, <4>2 DEF PhaseInv, FailureExplained
            <4> QED
                BY <3>3, <4>1, <4>3
        <3> QED
            BY <3>2, <3>4, <3>5
    <2>6. CASE ResearchCompleted
        BY <2>6, FreshUnchanged DEF ResearchCompleted, repository, options, StateInv, RepositoryInv,
           FoundInv, FreshInv, CitedInv, PhaseInv, FailureExplained, Location
    <2>7. CASE Change
        <3>1. /\ changed' = changed + 1 /\ node \in {"search", "read"}
              /\ UNCHANGED <<node, limit, numeric, plan, state, term, found, selected, cited>>
            BY <2>7 DEF Change, options
        <3>2. changed' \in Nat /\ changed' # 0
            BY <3>1 DEF RepositoryInv
        <3>3. text' \in [File -> Text]
            <4>1. CASE UNCHANGED text
                BY <4>1 DEF RepositoryInv
            <4>2. ASSUME NEW f \in File,
                         \/ text' = [text EXCEPT ![f] = <<{}>> \o text[f]]
                         \/ text[f] # <<>> /\ text' = [text EXCEPT ![f] = Tail(text[f])]
                  PROVE  text' \in [File -> Text]
                <5>1. text[f] \in Seq(SUBSET Word)
                    BY DEF RepositoryInv, Text
                <5>2. <<{}>> \o text[f] \in Seq(SUBSET Word)
                    BY <5>1
                <5>3. text[f] # <<>> => Tail(text[f]) \in Seq(SUBSET Word)
                    BY <5>1
                <5> QED
                    BY <4>2, <5>2, <5>3 DEF RepositoryInv, Text
            <4> QED
                BY <2>7, <4>1, <4>2 DEF Change
        <3>4. StateInv' /\ RepositoryInv' /\ FoundInv' /\ FreshInv' /\ CitedInv'
            BY <3>1, <3>2, <3>3 DEF StateInv, RepositoryInv, FoundInv, FreshInv, CitedInv,
               Location, Under
        <3>5. PhaseInv'
            BY <3>1 DEF PhaseInv, FailureExplained
        <3> QED
            BY <3>4, <3>5
    <2>8. CASE UNCHANGED vars
        BY <2>8, FreshUnchanged DEF vars, repository, options, StateInv, RepositoryInv,
           FoundInv, FreshInv, CitedInv, PhaseInv, FailureExplained, Location
    <2> QED
        BY <2>1, <2>2, <2>3, <2>4, <2>5, <2>6, <2>7, <2>8 DEF Next
<1> QED
    BY <1>1, <1>2, PTL DEF Spec

(* While the repository stays as it is, what is read for a citation shows  *)
(* the line it cites unless it was cut off, whatever the lengths of lines  *)
(* and the limits are, as long as few form feeds and the like, which only  *)
(* one of the two numberings of lines counts, precede it.                  *)
THEOREM CitedAlwaysShown == Spec => []CitedLineShown
<1>1. EvidenceInv => CitedLineShown
    <2> SUFFICES ASSUME EvidenceInv, changed = 0, NEW c \in cited
                 PROVE  /\ state.terms[c.match.term]
                              \in c.match.words \cup Attributes[c.match.file].named
                        /\ \A i \in Pieces(c.match.file, c.match.line) :
                               i <= c.match.line + After =>
                                   \/ c.read.truncated
                                   \/ /\ i \in DOMAIN c.read.content
                                      /\ c.read.content[i] = text[c.match.file][i]
        BY DEF CitedLineShown
    <2>1. c.match \in found /\ c.match.file \in File
        BY DEF EvidenceInv, CitedInv, FoundInv
    <2>2. True(c.match) /\ c.read \in ReadFile(c.match.file, c.match.line)
        BY <2>1 DEF EvidenceInv, FreshInv, Shown
    <2>3. text \in [File -> Text]
        BY DEF EvidenceInv, RepositoryInv
    <2>4. c.match.line \in Nat \ {0}
        BY <2>1, <2>2, <2>3, LineType DEF True
    <2> QED
        BY <2>1, <2>2, <2>3, <2>4, WindowShowsLine DEF True
<1> QED
    BY <1>1, EvidenceInductive, PTL

(* Documentation, tests and examples are never cited unless planned.       *)
THEOREM DocsAlwaysPlanned == Spec => []DocsOnlyIfPlanned
<1>1. EvidenceInv => DocsOnlyIfPlanned
    BY DEF EvidenceInv, CitedInv, FoundInv, DocsOnlyIfPlanned
<1> QED
    BY <1>1, EvidenceInductive, PTL

(* Research with a plan fails only for an option that is no number, a term *)
(* that is no string, a repository that is missing or was changed, or a    *)
(* link out of it.                                                         *)
THEOREM FailureHasACause == Spec => []FailureExplained
<1>1. EvidenceInv => FailureExplained
    BY DEF EvidenceInv, PhaseInv
<1> QED
    BY <1>1, EvidenceInductive, PTL

-----------------------------------------------------------------------------
(* planner_node's loop over the terms, whatever the model planned: no term *)
(* is listed twice, none that is planned or in the fallback is left out    *)
(* while there is room.                                                    *)
THEOREM MergedTerms ==
    ASSUME NEW terms \in Seq(Term)
    PROVE  LET merged == Merged(terms) IN
           /\ merged \in Seq(Term) /\ Len(merged) <= MaxTerms
           /\ \A k, l \in 1..Len(merged) : merged[k] = merged[l] => k = l
           /\ Len(merged) < MaxTerms =>
                  \A i \in 1..Len(terms) : \E k \in 1..Len(merged) : merged[k] = terms[i]
<1> DEFINE firsts == FirstUses(terms)
           place(i) == Cardinality(UsedUpTo(terms, i))
           last == Len(terms)
           size == Smaller(MaxTerms, Cardinality(firsts))
           chosen(k) == CHOOSE i \in firsts : place(i) = k
<1>1. last \in Nat /\ firsts \subseteq 1..last /\ \A i \in 1..last : terms[i] \in Term
    BY DEF FirstUses
<1>2. IsFiniteSet(firsts) /\ Cardinality(firsts) \in Nat
    <2> HIDE DEF firsts, last
    <2>1. IsFiniteSet(1..last)
        BY <1>1, FS_Interval
    <2>2. IsFiniteSet(firsts)
        BY <1>1, <2>1, FS_Subset
    <2> QED
        BY <2>2, FS_CardinalityType
<1>3. \A i \in Int : /\ UsedUpTo(terms, i) \subseteq firsts
                     /\ IsFiniteSet(UsedUpTo(terms, i)) /\ place(i) \in Nat
    BY <1>2, FS_Subset, FS_CardinalityType DEF UsedUpTo
<1>4. ASSUME NEW k \in 1..Cardinality(firsts) PROVE \E i \in firsts : place(i) = k
    <2> DEFINE enough == {i \in 0..last : place(i) >= k}
    <2>1. enough \subseteq Nat /\ last \in enough
        <3>1. UsedUpTo(terms, last) = firsts
            BY <1>1 DEF UsedUpTo
        <3> QED
            BY <1>1, <1>2, <3>1
    <2>2. PICK i \in enough : \A j \in enough : i <= j
        <3> HIDE DEF enough
        <3> QED
            BY <2>1, LeastNumber
    <2>3. i # 0
        <3>1. UsedUpTo(terms, 0) = {}
            BY <1>1 DEF UsedUpTo
        <3>2. place(0) = 0 /\ place(i) >= k
            BY <3>1, FS_EmptySet
        <3> HIDE DEF place
        <3> QED
            BY <1>2, <3>2
    <2>4. i - 1 \in 0..last /\ i \in Int /\ i - 1 \in Int /\ ~(i - 1 >= i)
        BY <1>1, <2>3
    <2>5. place(i - 1) < k
        <3>1. i - 1 \notin enough
            BY <2>2, <2>4
        <3> QED
            BY <1>3, <2>4, <3>1
    <2>6. UsedUpTo(terms, i) = IF i \in firsts THEN UsedUpTo(terms, i - 1) \cup {i}
                               ELSE UsedUpTo(terms, i - 1)
        BY <1>1, <2>4 DEF UsedUpTo
    <2>7. i \in firsts /\ place(i) = place(i - 1) + 1
        <3>1. place(i) >= k
            OBVIOUS
        <3>2. i \in firsts
            BY <1>3, <2>4, <2>5, <2>6, <3>1
        <3>3. i \notin UsedUpTo(terms, i - 1)
            BY <2>4 DEF UsedUpTo
        <3> QED
            BY <1>3, <2>4, <2>6, <3>2, <3>3, FS_AddElement
    <2> QED
        BY <1>3, <2>4, <2>5, <2>7
<1>5. \A i, j \in firsts : place(i) = place(j) => i = j
    <2>1. ASSUME NEW i \in firsts, NEW j \in firsts, i < j PROVE place(i) # place(j)
        <3>1. UsedUpTo(terms, i) \subseteq UsedUpTo(terms, j) /\ j \in UsedUpTo(terms, j)
              /\ j \notin UsedUpTo(terms, i)
            BY <1>1, <2>1 DEF UsedUpTo
        <3>2. i \in Int /\ j \in Int
            BY <1>1
        <3>3. IsFiniteSet(UsedUpTo(terms, j)) /\ UsedUpTo(terms, i) # UsedUpTo(terms, j)
            BY <1>3, <3>1, <3>2
        <3> QED
            BY <3>1, <3>3, FS_Subset
    <2>2. \A i, j \in firsts : i < j \/ j < i \/ i = j
        BY <1>1
    <2> HIDE DEF place, firsts
    <2> QED
        BY <2>1, <2>2
<1>6. size \in Nat /\ size <= MaxTerms /\ size <= Cardinality(firsts)
    BY <1>2, SizeAssumption DEF Smaller
<1>7. \A k \in 1..size : chosen(k) \in firsts /\ place(chosen(k)) = k
    <2>1. \A k \in 1..size : \E i \in firsts : place(i) = k
        BY <1>2, <1>4, <1>6
    <2> QED
        BY <2>1
<1>8. Merged(terms) = [k \in 1..size |-> terms[chosen(k)]]
    BY DEF Merged
<1> HIDE DEF size, chosen, place, firsts
<1>9. Merged(terms) \in Seq(Term) /\ Len(Merged(terms)) = size
    <2>1. \A k \in 1..size : terms[chosen(k)] \in Term
        BY <1>1, <1>7
    <2>2. Merged(terms) \in [1..size -> Term]
        BY <1>8, <2>1
    <2> QED
        BY <1>6, <2>2
<1>10. ASSUME NEW k \in 1..size, NEW l \in 1..size, Merged(terms)[k] = Merged(terms)[l]
       PROVE  k = l
    <2>1. terms[chosen(k)] = terms[chosen(l)]
        BY <1>8, <1>10
    <2>2. \A i, j \in firsts : terms[i] = terms[j] => i = j
        BY <1>1 DEF FirstUses, firsts
    <2> QED
        BY <1>7, <2>1, <2>2
<1>11. ASSUME size < MaxTerms, NEW i \in 1..last
       PROVE  \E k \in 1..size : Merged(terms)[k] = terms[i]
    <2> DEFINE same == {j \in 1..last : terms[j] = terms[i]}
    <2>1. PICK j \in same : \A h \in same : j <= h
        <3>1. same \subseteq Nat /\ same # {}
            OBVIOUS
        <3> HIDE DEF same
        <3> QED
            BY <3>1, LeastNumber
    <2>2. j \in firsts
        BY <1>1, <2>1 DEF firsts, FirstUses
    <2>3. place(j) \in 1..size
        <3>1. size = Cardinality(firsts)
            BY <1>2, <1>11, SizeAssumption DEF size, Smaller
        <3>2. place(j) <= Cardinality(firsts) /\ j \in Int
            BY <1>1, <1>2, <1>3, <2>2, FS_Subset DEF place
        <3>3. place(j) # 0
            <4>1. j \in UsedUpTo(terms, j) /\ j \in Int
                BY <1>1, <2>2 DEF UsedUpTo, firsts
            <4>2. IsFiniteSet(UsedUpTo(terms, j)) /\ UsedUpTo(terms, j) # {}
                BY <1>3, <4>1
            <4> QED
                BY <4>2, FS_EmptySet DEF place
        <3> QED
            BY <1>3, <3>1, <3>2, <3>3
    <2>4. chosen(place(j)) = j
        BY <1>5, <1>7, <2>2, <2>3
    <2> QED
        BY <1>8, <2>3, <2>4
<1> QED
    BY <1>6, <1>9, <1>10, <1>11

-----------------------------------------------------------------------------
(* Types.                                                                  *)
LEMMA ScoreType ==
    ASSUME NEW f \in File, NEW n, NEW t PROVE ScoreMatch(f, n, t) \in 0..20
<1>1. Attributes[f].priority \in Nat
    BY FileAssumption DEF FileAttributes
<1> DEFINE When(condition, points) == IF condition THEN points ELSE 0
<1>2. \A condition \in BOOLEAN, points \in Int : When(condition, points) \in Int
    OBVIOUS
<1>3. \A x \in Int : Larger(0, Smaller(x, 20)) \in 0..20
    BY DEF Larger, Smaller
<1> QED
    BY <1>1, <1>2, <1>3, Z3 DEF ScoreMatch

LEMMA MatchType ==
    ASSUME text \in [File -> Text], NEW f \in File, NEW n \in Lines(f),
           NEW t \in 1..MaxTerms
    PROVE  MatchAt(f, n, t) \in Match
<1>1. Words(f, n) \in SUBSET Word /\ n \in Nat \ {0}
    BY LineType
<1> QED
    BY <1>1, ScoreType DEF MatchAt, Match

LEMMA ReadType ==
    ASSUME text \in [File -> Text], NEW f \in File, NEW n \in Nat \ {0},
           NEW r \in ReadFile(f, n)
    PROVE  DOMAIN r.content \subseteq Nat \ {0}
<1> DEFINE w == Window(n, Len(text[f]))
<1>1. Len(text[f]) \in Nat
    BY DEF Text
<1>2. w.first \in Nat \ {0} /\ w.last \in Int
    BY <1>1, SizeAssumption DEF Window, Larger, Smaller
<1>3. PICK last \in Int : DOMAIN r.content = w.first..last
    BY <1>2 DEF ReadFile
<1> QED
    BY <1>2, <1>3

PlanType ==
    [terms : Seq(Term), likely_paths : SUBSET File, source_first : BOOLEAN,
     include_docs : BOOLEAN, include_tests : BOOLEAN]

(* A plan lists no term twice.                                             *)
Distinct(terms) == \A k, l \in 1..Len(terms) : terms[k] = terms[l] => k = l

LEMMA PlanTypes ==
    ASSUME NEW p \in Plans
    PROVE  /\ Completed(p) \in PlanType /\ HandedOver(Completed(p)) \in PlanType
           /\ Len(Completed(p).terms) <= MaxTerms /\ Distinct(Completed(p).terms)
           /\ HandedOver(Completed(p)).terms = Completed(p).terms
<1>1. p.terms \o FallbackTerms \in Seq(Term) /\ p \in PlanType
    BY TermAssumption DEF Plans, PlanType
<1>2. /\ Merged(p.terms \o FallbackTerms) \in Seq(Term)
      /\ Len(Merged(p.terms \o FallbackTerms)) <= MaxTerms
      /\ Distinct(Merged(p.terms \o FallbackTerms))
    BY <1>1, MergedTerms DEF Distinct
<1>3. Completed(p) \in PlanType /\ Completed(p).terms = Merged(p.terms \o FallbackTerms)
    BY <1>1, <1>2 DEF Completed, PlanType
<1>4. HandedOver(Completed(p)) \in PlanType
      /\ HandedOver(Completed(p)).terms = Completed(p).terms
    BY <1>3 DEF HandedOver, NoPlan, PlanType
<1> QED
    BY <1>2, <1>3, <1>4

TypeInv ==
    /\ TypeOK
    /\ Distinct(state.terms)
    /\ node = "plan" => term = 1 /\ found = {} /\ selected = {} /\ cited = {}

LEMMA TypeInductive == Spec => []TypeInv
<1>1. Init => TypeInv
    <2> SUFFICES ASSUME Init PROVE TypeInv
        OBVIOUS
    <2>1. NoPlan \in PlanType /\ NoPlan.terms = <<>>
        BY DEF NoPlan, PlanType
    <2>2. text \in [File -> Text] /\ limit \in Limits /\ root \in BOOLEAN /\ tree \subseteq File
        BY FileAssumption DEF Init
    <2>3. /\ {plan, state} \subseteq PlanType /\ Len(plan.terms) <= MaxTerms
          /\ state.terms = plan.terms /\ Distinct(state.terms)
          /\ term \in 1..Larger(1, Len(state.terms))
        <3>1. plan = NoPlan /\ state = NoPlan /\ term = 1
            BY DEF Init
        <3>2. Len(NoPlan.terms) = 0
            BY <2>1
        <3> QED
            BY <2>1, <3>1, <3>2, SizeAssumption DEF Distinct, Larger
    <2>4. changed \in 0..MaxChanges
        BY SizeAssumption DEF Init
    <2> QED
        BY <2>2, <2>3, <2>4 DEF Init, TypeInv, TypeOK, PlanType
<1>2. TypeInv /\ EvidenceInv /\ EvidenceInv' /\ [Next]_vars => TypeInv'
    <2> SUFFICES ASSUME TypeInv, EvidenceInv, EvidenceInv', [Next]_vars PROVE TypeInv'
        OBVIOUS
    <2> USE DEF TypeInv
    <2>0. text' \in [File -> Text]
        BY DEF EvidenceInv, RepositoryInv
    <2>1. CASE Planner
        <3>1. PICK p \in Plans : plan' = Completed(p) /\ state' = HandedOver(Completed(p))
            BY <2>1 DEF Planner
        <3>2. /\ {plan', state'} \subseteq PlanType /\ Len(plan'.terms) <= MaxTerms
              /\ state'.terms = plan'.terms /\ Distinct(state'.terms)
            BY <3>1, PlanTypes
        <3>3. term' = 1 /\ term' \in 1..Larger(1, Len(state'.terms))
            BY <2>1, <3>2 DEF Planner, PlanType, Larger
        <3> QED
            BY <2>1, <3>2, <3>3 DEF Planner, repository, options, TypeOK, PlanType
    <2>2. CASE Search
        <3>1. /\ UNCHANGED <<root, tree, text, changed, limit, numeric, plan, state, cited>>
              /\ node = "search" /\ node' \in {"search", "read"}
              /\ found' \subseteq found \cup SearchCode(term) /\ found \subseteq found'
              /\ term' \in 1..Larger(1, Len(state.terms))
            BY <2>2 DEF Search, repository, options, TypeOK, Larger, PlanType
        <3>2. term \in 1..MaxTerms
            BY SizeAssumption DEF TypeOK, Larger
        <3>3. ASSUME NEW m \in SearchCode(term) PROVE m \in Match
            <4>1. /\ m.file \in File /\ m.line \in Lines(m.file)
                  /\ m = MatchAt(m.file, m.line, term)
                BY SearchResults DEF EvidenceInv
            <4> QED
                BY <3>2, <4>1, MatchType DEF TypeOK
        <3>4. found' \subseteq Match
            BY <3>1, <3>3 DEF TypeOK
        <3>5. selected' \subseteq found'
            BY DEF EvidenceInv, FoundInv
        <3> QED
            BY <3>1, <3>4, <3>5 DEF TypeOK
    <2>3. CASE Read
        <3>1. /\ UNCHANGED <<root, tree, text, changed, limit, numeric, plan, state, term, found>>
              /\ node = "read" /\ node' \in {"read", "failed"} /\ selected' \subseteq selected
            BY <2>3 DEF Read, repository, options
        <3>2. PICK m \in selected : Cite(m) \/ UNCHANGED cited
            BY <2>3 DEF Read
        <3>3. m \in found /\ m.file \in File /\ m.line \in Nat \ {0}
            BY DEF TypeOK, Match
        <3>4. \A c \in cited' : c.match \in found /\ DOMAIN c.read.content \subseteq Nat \ {0}
            BY <3>2, <3>3, ReadType DEF Cite, TypeOK
        <3> QED
            BY <3>1, <3>4 DEF TypeOK
    <2>4. CASE Change
        <3>1. /\ changed' = changed + 1 /\ changed < MaxChanges
              /\ root' \in BOOLEAN /\ tree' \subseteq File /\ node \in {"search", "read"}
              /\ UNCHANGED <<node, limit, numeric, plan, state, term, found, selected, cited>>
            BY <2>4 DEF Change, options, TypeOK
        <3>2. changed' \in 0..MaxChanges
            BY <3>1, SizeAssumption DEF TypeOK
        <3> QED
            BY <2>0, <3>1, <3>2 DEF TypeOK
    <2>5. CASE PlannerRaises \/ SearchRaises \/ ResearchCompleted
        BY <2>5 DEF PlannerRaises, SearchRaises, ResearchCompleted, repository, options, TypeOK
    <2>6. CASE UNCHANGED vars
        BY <2>6 DEF vars, repository, options, TypeOK
    <2> QED
        BY <2>1, <2>2, <2>3, <2>4, <2>5, <2>6 DEF Next
<1> QED
    BY <1>1, <1>2, EvidenceInductive, PTL DEF Spec

(* The types of the run's data, with no more terms than MaxTerms, scores   *)
(* that stay between 0 and 20 and content whose lines are lines of a file. *)
THEOREM TypeCorrect == Spec => []TypeOK
BY TypeInductive, PTL DEF TypeInv

(* No term is searched twice, whatever list of terms the model plans.      *)
THEOREM NeverATermTwice == Spec => [](Distinct(state.terms) /\ Len(state.terms) <= MaxTerms)
<1>1. TypeInv => Distinct(state.terms) /\ Len(state.terms) <= MaxTerms
    BY DEF TypeInv, TypeOK
<1> QED
    BY <1>1, TypeInductive, PTL

-----------------------------------------------------------------------------
(* The ranking.  Every match that search_code finds for a term, of which   *)
(* it returns the best.                                                    *)
FoundIn(f, t) ==
    {MatchAt(f, n, t) : n \in {i \in Lines(f) : Matches(f, i, state.terms[t])}}
Candidates(t) == UNION {FoundIn(f, t) : f \in {g \in File : Searched(g)}}

Chosen == selected \cup {c.match : c \in cited}

(* What is found is ranked, and was found for the terms searched so far.   *)
(* Once all terms are searched, what is read or cited is the best of it,   *)
(* each match once.  While the repository stays as it is, all that the     *)
(* search for the first term returned has been found.                      *)
FoundRanked ==
    /\ Ranked(found)
    /\ node = "search" => \A m \in found : m.term < term
FirstFound ==
    changed = 0 /\ (node \in {"read", "answer"} \/ (node = "search" /\ term > 1)) =>
        SearchCode(1) \subseteq found
ChosenBest ==
    /\ node \in {"plan", "search"} => selected = {} /\ cited = {}
    /\ node \in {"read", "answer"} => Chosen = FirstMatches(found)
    /\ \A c \in cited : c.match \notin selected
    /\ \A c, d \in cited : c.match = d.match => c = d
RankInv == FoundRanked /\ FirstFound /\ ChosenBest

LEMMA ImageIsFinite ==
    ASSUME NEW S, IsFiniteSet(S), NEW g PROVE IsFiniteSet({g[x] : x \in S})
<1> DEFINE h == [x \in S |-> g[x]]
<1>1. h \in Surjection(S, {g[x] : x \in S})
    BY DEF Surjection
<1> QED
    BY <1>1, FS_Surjection

LEMMA LinesFinite ==
    ASSUME text \in [File -> Text], NEW f \in File PROVE IsFiniteSet(Lines(f))
<1> DEFINE places == 1..Len(text[f])
           number == [i \in places |-> Number(f, i)]
<1>1. Len(text[f]) \in Nat
    BY DEF Text
<1>2. IsFiniteSet(places)
    BY <1>1, FS_Interval
<1>3. Lines(f) = {number[i] : i \in places}
    BY DEF Lines
<1> HIDE DEF number, places
<1> QED
    BY <1>2, <1>3, ImageIsFinite

LEMMA CandidatesFinite ==
    ASSUME text \in [File -> Text], NEW t PROVE IsFiniteSet(Candidates(t))
<1>1. ASSUME NEW f \in File PROVE IsFiniteSet(FoundIn(f, t))
    <2> DEFINE lines == {i \in Lines(f) : Matches(f, i, state.terms[t])}
               at == [n \in lines |-> MatchAt(f, n, t)]
    <2>3. IsFiniteSet(lines)
        BY LinesFinite, FS_Subset
    <2>4. FoundIn(f, t) = {at[n] : n \in lines}
        BY DEF FoundIn
    <2> HIDE DEF at, lines
    <2> QED
        BY <2>3, <2>4, ImageIsFinite
<1> DEFINE files == {g \in File : Searched(g)}
           finds == [f \in files |-> FoundIn(f, t)]
<1>2. IsFiniteSet(files)
    BY FileAssumption, FS_Subset
<1>3. Candidates(t) = UNION {finds[f] : f \in files}
    BY DEF Candidates
<1>4. \A F \in {finds[f] : f \in files} : IsFiniteSet(F)
    BY <1>1
<1> HIDE DEF finds, files
<1>5. IsFiniteSet({finds[f] : f \in files})
    BY <1>2, ImageIsFinite
<1> QED
    BY <1>3, <1>4, <1>5, FS_UNION

LEMMA CandidatesRanked ==
    ASSUME text \in [File -> Text], NEW t \in 1..MaxTerms
    PROVE  /\ Ranked(Candidates(t)) /\ SearchCode(t) = Best(Candidates(t), MaxResults)
           /\ \A m \in Candidates(t) : /\ m \in Match /\ m.term = t
                                       /\ m = MatchAt(m.file, m.line, t)
<1>1. SearchCode(t) = Best(Candidates(t), MaxResults)
    BY DEF SearchCode, Candidates, FoundIn
<1>2. ASSUME NEW m \in Candidates(t)
      PROVE  /\ m \in Match /\ m.term = t /\ m = MatchAt(m.file, m.line, t)
    <2>0. PICK f \in File : m \in FoundIn(f, t)
        BY DEF Candidates
    <2>1. PICK n \in Lines(f) : m = MatchAt(f, n, t)
        BY <2>0 DEF FoundIn
    <2>2. m.file = f /\ m.line = n /\ m.term = t
        BY <2>1 DEF MatchAt
    <2> QED
        BY <2>1, <2>2, MatchType
<1>3. ASSUME NEW m \in Candidates(t), NEW n \in Candidates(t), m # n
      PROVE  Outranks(m, n) \/ Outranks(n, m)
    <2>1. /\ m.term = t /\ n.term = t /\ m.file \in File /\ n.file \in File
          /\ m.line \in Int /\ n.line \in Int /\ m.score \in Int /\ n.score \in Int
          /\ (m.file # n.file \/ m.line # n.line)
        BY <1>2, <1>3 DEF Match
    <2>2. /\ WalkOrder[m.file] \in Int /\ WalkOrder[n.file] \in Int
          /\ WalkOrder[m.file] = WalkOrder[n.file] => m.file = n.file
        BY <2>1, FileAssumption
    <2>3. Listed(m, n) \/ Listed(n, m)
        BY <2>1, <2>2 DEF Listed
    <2> QED
        BY <2>1, <2>3 DEF Outranks
<1>4. \A m \in Candidates(t) : m.file \in File /\ m.line \in Int /\ m.term \in Int
                               /\ m.score \in Int
    BY <1>2 DEF Match
<1>5. IsFiniteSet(Candidates(t))
    BY CandidatesFinite
<1> QED
    BY <1>1, <1>2, <1>3, <1>4, <1>5 DEF Ranked

LEMMA SearchUnchanged ==
    ASSUME UNCHANGED <<tree, text, state>> PROVE SearchCode(1)' = SearchCode(1)
<1>1. \A f, n : Lines(f)' = Lines(f) /\ Words(f, n)' = Words(f, n)
    BY TextUnchanged
<1>2. \A f, n : InFunction(f, n)' = InFunction(f, n)
    BY <1>1 DEF InFunction
<1>3. \A f, n : MatchAt(f, n, 1)' = MatchAt(f, n, 1)
    BY <1>1, <1>2 DEF MatchAt, ScoreMatch
<1>4. \A f : FoundIn(f, 1)' = FoundIn(f, 1) /\ Searched(f)' = Searched(f)
    BY <1>1, <1>3 DEF FoundIn, Matches, Searched, ShouldSkip, Under
<1>5. Candidates(1)' = Candidates(1)
    BY <1>4 DEF Candidates
<1>6. SearchCode(1) = Best(Candidates(1), MaxResults)
      /\ SearchCode(1)' = Best(Candidates(1)', MaxResults)
    BY DEF SearchCode, Candidates, FoundIn, Best
<1> QED
    BY <1>5, <1>6

LEMMA SearchRanks ==
    ASSUME TypeInv, RankInv, Search
    PROVE  RankInv'
<1> USE DEF TypeInv, RankInv
<1> DEFINE new == {m \in SearchCode(term) : \A n \in found : Location(n) # Location(m)}
<1>1. /\ found' = found \cup new /\ node = "search"
      /\ UNCHANGED <<tree, text, changed, limit, state, cited>>
    BY DEF Search, repository, options
<1>2. term \in 1..MaxTerms /\ text \in [File -> Text] /\ found \subseteq Match
    BY SizeAssumption DEF TypeOK, Larger
<1>3. /\ SearchCode(term) \subseteq Candidates(term) /\ Ranked(Candidates(term))
      /\ \A m \in Candidates(term) : m \in Match /\ m.term = term
    BY <1>2, CandidatesRanked DEF Best
<1>4. Ranked(found')
    <2>1. IsFiniteSet(new)
        BY <1>3, FS_Subset DEF Ranked
    <2>2. IsFiniteSet(found')
        BY <1>1, <2>1, FS_Union DEF FoundRanked, Ranked
    <2>3. \A m \in found' : m \in Match
        BY <1>1, <1>2, <1>3
    <2>4. ASSUME NEW m \in found', NEW n \in found', m # n
          PROVE  Outranks(m, n) \/ Outranks(n, m)
        <3>1. CASE m \in found /\ n \in found
            BY <2>4, <3>1 DEF FoundRanked, Ranked
        <3>2. CASE m \in new /\ n \in new
            BY <1>3, <2>4, <3>2 DEF Ranked
        <3>3. \A k \in found, l \in new : k.term < l.term
            BY <1>1, <1>3 DEF FoundRanked
        <3>4. /\ m.term \in Int /\ n.term \in Int /\ m.score \in Int /\ n.score \in Int
            BY <2>3 DEF Match
        <3> QED
            BY <1>1, <3>1, <3>2, <3>3, <3>4 DEF Outranks
    <2> QED
        BY <2>2, <2>3, <2>4 DEF Ranked, Match
<1>5. FoundRanked'
    <2>1. node' = "search" => term' = term + 1
        BY DEF Search
    <2>2. \A m \in found' : m.term <= term
        BY <1>1, <1>2, <1>3 DEF FoundRanked, Match
    <2> SUFFICES node' = "search" => \A m \in found' : m.term < term'
        BY <1>4 DEF FoundRanked
    <2>3. \A m \in found' : m.term \in Int
        BY <1>1, <1>2, <1>3 DEF Match
    <2> QED
        BY <1>2, <2>1, <2>2, <2>3
<1>6. FirstFound'
    <2> SUFFICES ASSUME changed = 0 PROVE SearchCode(1) \subseteq found'
        BY <1>1, SearchUnchanged DEF FirstFound
    <2>1. CASE term = 1
        <3>1. found = {}
            BY <1>1, <1>2, <2>1 DEF FoundRanked, Match
        <3> QED
            BY <1>1, <2>1, <3>1
    <2>2. CASE term # 1
        BY <1>1, <1>2, <2>2 DEF FirstFound
    <2> QED
        BY <2>1, <2>2
<1>7. ChosenBest'
    <2>1. selected = {} /\ cited = {}
        BY <1>1 DEF ChosenBest
    <2>2. \/ node' = "search" /\ selected' = selected
          \/ node' = "read" /\ selected' = FirstMatches(found')
        BY <1>1 DEF Search
    <2>3. FirstMatches(found)' = FirstMatches(found')
        BY <1>1 DEF FirstMatches, Best
    <2> QED
        BY <1>1, <2>1, <2>2, <2>3 DEF ChosenBest, Chosen
<1> QED
    BY <1>5, <1>6, <1>7

LEMMA RankInductive == Spec => []RankInv
<1>1. Init => RankInv
    BY FS_EmptySet DEF Init, RankInv, FoundRanked, Ranked, FirstFound, ChosenBest
<1>2. TypeInv /\ RankInv /\ [Next]_vars => RankInv'
    <2> SUFFICES ASSUME TypeInv, RankInv, [Next]_vars PROVE RankInv'
        OBVIOUS
    <2> USE DEF RankInv
    <2>1. CASE Planner
        BY <2>1, FS_EmptySet
        DEF Planner, TypeInv, FoundRanked, Ranked, FirstFound, ChosenBest
    <2>2. CASE Search
        BY <2>2, SearchRanks
    <2>3. CASE Read
        <3>1. /\ UNCHANGED <<tree, text, changed, limit, state, term, found>>
              /\ node = "read" /\ node' \in {"read", "failed"}
            BY <2>3 DEF Read, repository, options
        <3>2. FoundRanked' /\ FirstFound'
            BY <3>1, SearchUnchanged DEF FoundRanked, FirstFound
        <3>3. PICK m \in selected :
                  \/ /\ Cite(m)
                     /\ selected' = selected \ {m}
                  \/ node' = "failed" /\ UNCHANGED <<selected, cited>>
            BY <2>3 DEF Read
        <3>4. FirstMatches(found)' = FirstMatches(found)
            BY <3>1 DEF FirstMatches, Best
        <3>5. CASE node' = "failed" /\ UNCHANGED <<selected, cited>>
            BY <3>1, <3>2, <3>4, <3>5 DEF ChosenBest, Chosen
        <3>6. CASE Cite(m) /\ selected' = selected \ {m}
            <4>1. \E citation : cited' = cited \cup {citation} /\ citation.match = m
                <5>1. PICK r : cited' = cited \cup {[match |-> m, read |-> r]}
                    BY <3>6 DEF Cite
                <5>2. [match |-> m, read |-> r].match = m
                    OBVIOUS
                <5> QED
                    BY <5>1, <5>2, Zenon
            <4> PICK citation : cited' = cited \cup {citation} /\ citation.match = m
                BY <4>1
            <4>2. {c.match : c \in cited'} = {c.match : c \in cited} \cup {m}
                BY <4>1
            <4>3. Chosen' = Chosen /\ Chosen = FirstMatches(found)
                BY <3>1, <3>6, <4>2 DEF ChosenBest, Chosen
            <4>4. \A c \in cited : c.match # m
                BY DEF ChosenBest
            <4>5. \A c, d \in cited' : c.match = d.match => c = d
                BY <4>1, <4>4 DEF ChosenBest
            <4>6. \A c \in cited' : c.match \notin selected'
                BY <3>6, <4>1 DEF ChosenBest
            <4> QED
                BY <3>1, <3>2, <3>4, <4>3, <4>5, <4>6 DEF ChosenBest
        <3> QED
            BY <3>2, <3>3, <3>5, <3>6
    <2>4. CASE Change
        <3>1. /\ changed' = changed + 1 /\ changed \in Nat
              /\ UNCHANGED <<node, limit, numeric, plan, state, term, found, selected, cited>>
            BY <2>4 DEF Change, options, TypeInv, TypeOK
        <3> QED
            BY <3>1 DEF FoundRanked, FirstFound, ChosenBest, Chosen, FirstMatches, Best
    <2>5. CASE PlannerRaises \/ SearchRaises \/ ResearchCompleted \/ UNCHANGED vars
        <3>1. /\ UNCHANGED <<tree, text, changed, limit, state, term, found, selected, cited>>
              /\ \/ node' = "failed"
                 \/ node = "read" /\ node' = "answer"
                 \/ node' = node
            BY <2>5 DEF PlannerRaises, SearchRaises, ResearchCompleted, repository, options, vars
        <3>2. FirstMatches(found)' = FirstMatches(found)
            BY <3>1 DEF FirstMatches, Best
        <3> QED
            BY <3>1, <3>2, SearchUnchanged DEF FoundRanked, FirstFound, ChosenBest, Chosen
    <2> QED
        BY <2>1, <2>2, <2>3, <2>4, <2>5 DEF Next
<1> QED
    BY <1>1, <1>2, TypeInductive, PTL DEF Spec

(* While the repository stays as it is, no line is cited twice.            *)
THEOREM NeverALineTwice == Spec => []NoLineTwice
<1>1. EvidenceInv /\ RankInv => NoLineTwice
    <2> SUFFICES ASSUME EvidenceInv, RankInv, changed = 0, NEW c \in cited, NEW d \in cited,
                        c.match.file = d.match.file, c.match.line = d.match.line
                 PROVE  c = d
        BY DEF NoLineTwice
    <2>1. c.match \in found /\ d.match \in found
        BY DEF EvidenceInv, CitedInv
    <2>2. c.match.words = d.match.words
        BY <2>1 DEF EvidenceInv, FreshInv, True
    <2>3. c.match = d.match
        BY <2>1, <2>2 DEF EvidenceInv, FoundInv, Location
    <2> QED
        BY <2>3 DEF RankInv, ChosenBest
<1> QED
    BY <1>1, EvidenceInductive, RankInductive, PTL

(* What is above the first match is above whatever that match outranks.    *)
LEMMA OutrankedIsLeftOut ==
    ASSUME NEW S, Ranked(S), NEW k \in Int, NEW A \in SUBSET S, Cardinality(A) >= k,
           NEW m \in S, \A a \in A : Outranks(a, m)
    PROVE  m \notin Best(S, k)
<1>1. A \subseteq Above(S, m)
    BY DEF Above
<1>2. IsFiniteSet(Above(S, m)) /\ Cardinality(Above(S, m)) \in Nat
    BY FS_Subset, FS_CardinalityType DEF Above, Ranked
<1>3. Cardinality(A) <= Cardinality(Above(S, m)) /\ Cardinality(A) \in Nat
    BY <1>1, <1>2, FS_Subset, FS_CardinalityType
<1> QED
    BY <1>2, <1>3 DEF Best, Above

(* Nothing that is read or cited scores less than a line for the planner's *)
(* first term that is left out, although results are cut once for every    *)
(* term and once for all, for any number of files, terms and results.      *)
THEOREM FirstTermAlwaysRanked == Spec => []FirstTermRanked
<1>1. TypeInv /\ RankInv => FirstTermRanked
    <2> SUFFICES ASSUME TypeInv, RankInv, changed = 0, limit \in 1..MaxResults,
                        node \in {"read", "answer"}, NEW f \in File, Searched(f),
                        NEW n \in Lines(f), Matches(f, n, state.terms[1]),
                        MatchAt(f, n, 1) \notin Chosen, NEW m \in Chosen,
                        ~(m.score >= MatchAt(f, n, 1).score)
                 PROVE  FALSE
        BY DEF FirstTermRanked, Chosen
    <2> DEFINE first == MatchAt(f, n, 1)
    <2>1. /\ text \in [File -> Text] /\ 1 \in 1..MaxTerms /\ limit \in Nat \ {0}
          /\ limit <= MaxResults /\ MaxResults \in Nat
        BY SizeAssumption DEF TypeInv, TypeOK
    <2>2. /\ Ranked(found) /\ SearchCode(1) \subseteq found /\ Chosen = Best(found, limit)
        BY <2>1 DEF RankInv, FoundRanked, FirstFound, ChosenBest, FirstMatches
    <2>3. /\ Ranked(Candidates(1)) /\ SearchCode(1) = Best(Candidates(1), MaxResults)
          /\ first \in Candidates(1)
        <3>1. first \in Candidates(1)
            BY DEF Candidates, FoundIn
        <3> QED
            BY <2>1, <3>1, CandidatesRanked
    <2>4. first \in Match /\ m \in found /\ m \in Match
        BY <2>1, <2>2, <2>3, CandidatesRanked DEF TypeInv, TypeOK, Best
    <2>5. Outranks(first, m)
        <3>1. \A k \in Match : k.score \in Int
            BY DEF Match
        <3>2. m.score \in Int /\ first.score \in Int
            BY <2>4, <3>1
        <3> QED
            BY <3>2 DEF Outranks
    <2> HIDE DEF first
    <2>6. CASE first \in found
        <3> DEFINE A == {a \in found : Outranks(a, first)}
        <3>1. Cardinality(A) >= limit
            <4>1. Cardinality({a \in Best(found, limit) : Outranks(a, first)}) >= limit
                BY <2>1, <2>2, <2>6, BestAreAbove DEF first
            <4>2. {a \in Best(found, limit) : Outranks(a, first)} \subseteq A /\ A \subseteq found
                BY DEF Best
            <4>3. IsFiniteSet(A)
                BY <2>2, <4>2, FS_Subset DEF Ranked
            <4> HIDE DEF A
            <4> QED
                BY <2>1, <4>1, <4>2, <4>3, FS_Subset, FS_CardinalityType
        <3>2. \A a \in A : Outranks(a, m)
            BY <2>2, <2>4, <2>5, <2>6, OutranksOrders
        <3> HIDE DEF A
        <3>3. A \in SUBSET found
            BY DEF A
        <3> QED
            BY <2>1, <2>2, <2>4, <3>1, <3>2, <3>3, OutrankedIsLeftOut
    <2>7. CASE first \notin found
        <3> DEFINE A == {a \in Best(Candidates(1), MaxResults) : Outranks(a, first)}
        <3>1. first \in Candidates(1) \ Best(Candidates(1), MaxResults)
            BY <2>2, <2>3, <2>7
        <3>2. Cardinality(A) >= MaxResults
            BY <2>1, <2>3, <3>1, BestAreAbove
        <3>3. A \in SUBSET found
            BY <2>2, <2>3
        <3>4. ASSUME NEW a \in A PROVE Outranks(a, m)
            <4>1. /\ Outranks(a, first) /\ a \in found /\ a \in Match
                BY <2>2, <2>3 DEF TypeInv, TypeOK
            <4>2. \A k \in Match : k.file \in File /\ k.line \in Int
                                  /\ k.term \in Int /\ k.score \in Int
                BY DEF Match
            <4> HIDE DEF A
            <4> QED
                BY <2>4, <2>5, <4>1, <4>2, RankTransitive
        <3>5. Cardinality(A) \in Nat
            BY <2>2, <3>3, FS_Subset, FS_CardinalityType DEF Ranked
        <3> HIDE DEF A
        <3>6. Cardinality(A) >= limit
            BY <2>1, <3>2, <3>5
        <3> QED
            BY <2>1, <2>2, <2>4, <3>3, <3>4, <3>6, OutrankedIsLeftOut
    <2> QED
        BY <2>6, <2>7
<1> QED
    BY <1>1, TypeInductive, RankInductive, PTL

(* The limit on the files to read, as researcher_node applies it: a        *)
(* positive one bounds what is read and cited, a negative one only drops   *)
(* as many of what was found; synchronisations make no difference.         *)
ReadAsLimited ==
    node \in {"read", "answer"} =>
        Cardinality(selected) + Cardinality(cited) =
            IF limit > 0 THEN Smaller(limit, Cardinality(found))
            ELSE Larger(0, Cardinality(found) + limit)

LEMMA ChosenCount ==
    ASSUME IsFiniteSet(Chosen), \A c \in cited : c.match \notin selected,
           \A c, d \in cited : c.match = d.match => c = d
    PROVE  Cardinality(Chosen) = Cardinality(selected) + Cardinality(cited)
           /\ Cardinality(selected) \in Nat /\ Cardinality(cited) \in Nat
<1> DEFINE matches == {c.match : c \in cited}
           match == [c \in cited |-> c.match]
<1>1. IsFiniteSet(selected) /\ IsFiniteSet(matches)
    BY FS_Subset DEF Chosen
<1>2. match \in Injection(cited, matches) /\ match \in Surjection(cited, matches)
    BY DEF Injection, IsInjective, Surjection
<1>3. IsFiniteSet(cited) /\ Cardinality(cited) = Cardinality(matches)
    BY <1>1, <1>2, FS_Injection
<1>4. selected \cap matches = {} /\ Chosen = selected \cup matches
    BY DEF Chosen
<1> HIDE DEF matches
<1>5. Cardinality(Chosen) = Cardinality(selected) + Cardinality(matches) - Cardinality({})
    BY <1>1, <1>4, FS_Union
<1> QED
    BY <1>1, <1>3, <1>5, FS_EmptySet, FS_CardinalityType

(* Never more or fewer matches are read than the limit says, a negative    *)
(* one (max_files_to_read is not validated) included.                      *)
THEOREM AlwaysReadAsLimited == Spec => []ReadAsLimited
<1>1. TypeInv /\ RankInv => ReadAsLimited
    <2> SUFFICES ASSUME TypeInv, RankInv, node \in {"read", "answer"}
                 PROVE  Cardinality(selected) + Cardinality(cited) =
                            IF limit > 0 THEN Smaller(limit, Cardinality(found))
                            ELSE Larger(0, Cardinality(found) + limit)
        BY DEF ReadAsLimited
    <2> DEFINE size == Cardinality(found)
    <2>1. /\ Ranked(found) /\ IsFiniteSet(found) /\ size \in Nat /\ limit \in Int \ {0}
        BY FS_CardinalityType, SizeAssumption DEF RankInv, FoundRanked, Ranked, TypeInv, TypeOK
    <2>2. Chosen = FirstMatches(found) /\ Chosen \subseteq found
        BY DEF RankInv, ChosenBest, FirstMatches, Best
    <2>3. Cardinality(Chosen) = Cardinality(selected) + Cardinality(cited)
        BY <2>1, <2>2, FS_Subset, ChosenCount DEF RankInv, ChosenBest
    <2>4. CASE limit > 0
        BY <2>1, <2>2, <2>3, <2>4, BestCount DEF FirstMatches
    <2>5. CASE ~(limit > 0) /\ size + limit >= 0
        <3>1. Cardinality(Best(found, size + limit)) = Smaller(size + limit, size)
            BY <2>1, <2>5, BestCount
        <3>2. Smaller(size + limit, size) = Larger(0, size + limit)
            BY <2>1, <2>5 DEF Smaller, Larger
        <3> QED
            BY <2>2, <2>3, <2>5, <3>1, <3>2 DEF FirstMatches
    <2>6. CASE ~(limit > 0) /\ size + limit < 0
        <3>1. \A m \in found : Cardinality({n \in found : Outranks(n, m)}) \in Nat
            BY <2>1, FS_Subset, FS_CardinalityType
        <3>2. Best(found, size + limit) = {}
            BY <2>1, <2>6, <3>1 DEF Best
        <3>3. Larger(0, size + limit) = 0
            BY <2>6 DEF Larger
        <3> QED
            BY <2>2, <2>3, <2>6, <3>2, <3>3, FS_EmptySet DEF FirstMatches
    <2> QED
        BY <2>1, <2>4, <2>5, <2>6
<1> QED
    BY <1>1, TypeInductive, RankInductive, PTL
=============================================================================
