---------------------------- MODULE AhoCorasick ----------------------------
(* The Aho-Corasick matcher behind the operators PM and PMF                *)
(* (lua-aho-corasick): ac_create() builds a "slow" graph of the patterns,  *)
(* turns it into a "fast" one in a single buffer, and ac_match2(),         *)
(* ac_match() and ac_match_longest_l() walk that buffer over a subject.    *)
(* Bytes are numbers; positions in a subject count from 0 as in the code.  *)
(* A state of the slow graph is the word that leads to it, so goto appends *)
(* to a word, and depth is its length.  Assumed: no pattern is empty, no   *)
(* state has too many inputs (FanOutAssumption), and the patterns are few  *)
(* and short enough for the 16 bits of pattern numbers and depths and the  *)
(* 8 bits of the states in root_goto.                                      *)
EXTENDS Integers, Sequences, FiniteSets, SequencesExt, FiniteSetsExt

CONSTANTS
    Byte,           \* the bytes of patterns and subjects
    Dictionaries,   \* the pattern vectors given to ac_create()
    Subjects,       \* the strings given to the match functions
    LinearMax       \* up to this fan-out inputs are searched one by one (8)

ASSUME ByteAssumption == Byte \subseteq 0..255

ASSUME TextAssumption ==
    /\ \A patterns \in Dictionaries : patterns \in Seq(Seq(Byte) \ {<<>>})
    /\ \A subject \in Subjects : subject \in Seq(Byte)

ASSUME LinearMaxAssumption == LinearMax \in Nat

VARIABLES
    dict,           \* the patterns of this instance
    slow,           \* the slow graph, which only a VERIFY build keeps
    buf,            \* the buffer with the fast graph
    pc, variant, str, idx, state, r   \* the locals of Match_Tmpl

vars == <<dict, slow, buf, pc, variant, str, idx, state, r>>

(***************************************************************************)
(* ACS_Constructor: the slow graph.                                        *)
(***************************************************************************)
Root == <<>>

\* Add_Pattern for each pattern: a state per prefix; of equal patterns the
\* last one names the terminal state.  Pattern indices count from 0.
States(patterns) == {Root} \union UNION {Prefixes(patterns[k]) : k \in DOMAIN patterns}

PatternIdx(patterns, s) ==
    LET equal == {k \in DOMAIN patterns : patterns[k] = s}
    IN  IF equal = {} THEN -1 ELSE Max(equal) - 1

Inputs(states, s) == {c \in Byte : Append(s, c) \in states}

\* The inputs of a state are counted in an unsigned char, which is not enough
\* for 256; of the root, with a table of its own, 255 is a case of its own.
ASSUME FanOutAssumption ==
    \A patterns \in Dictionaries : \A s \in States(patterns) :
        Cardinality(Inputs(States(patterns), s)) < (IF s = Root THEN 255 ELSE 256)

\* Propagate_faillink: from a state down the chain of fail links to the
\* first state that has a transition on c.  The root has one on every byte,
\* if need be to itself.
FollowFails(states, fail, c) ==
    LET walk[fl \in states] == IF c \in Inputs(states, fl) THEN Append(fl, c)
                               ELSE IF fl = Root THEN Root ELSE walk[fail[fl]]
    IN  walk

\* The states get their links depth by depth: the walk for a state begins at
\* the link of its parent.
FailLinks(states) ==
    LET deepest == Max({Len(s) : s \in states})
        links[d \in 0..deepest] ==
            IF d <= 1 THEN [s \in states |-> Root]
            ELSE [s \in states |->
                     IF Len(s) # d THEN links[d - 1][s]
                     ELSE FollowFails(states, links[d - 1], Last(s))[links[d - 1][Front(s)]]]
    IN  links[deepest]

Construct(patterns) ==
    [states  |-> States(patterns),
     fail    |-> FailLinks(States(patterns)),
     pattern |-> [s \in States(patterns) |-> PatternIdx(patterns, s)]]

NoMatch == [begin |-> -1, end |-> -1, pattern_idx |-> -1]

Result(i, depth, pattern) == [begin |-> i - depth, end |-> i - 1, pattern_idx |-> pattern]

\* From i on, the position after the first byte that begins a pattern.
SkipTo(starts, subject, i) ==
    LET k == SelectInSubSeq(subject, i + 1, Len(subject), LAMBDA c : c \in starts)
    IN  IF k = 0 THEN Len(subject) ELSE k

\* Past the bytes that begin no pattern, and into the state of the one that
\* does; if there is none the state stays as it is.
Skipped(starts, subject, i, s) ==
    LET k == SkipTo(starts, subject, i)
    IN  <<k, IF i < Len(subject) /\ subject[k] \in starts THEN <<subject[k]>> ELSE s>>

\* The loop of ACS_Constructor::MatchHelper from position x[1] and state x[2] on.
MatchFrom(graph, subject) ==
    LET n == Len(subject)
        run[x \in (0..n) \X graph.states] ==
            LET i == x[1]
                s == x[2]
            IN  IF graph.pattern[s] >= 0 THEN Result(i, Len(s), graph.pattern[s])
                ELSE IF i = n THEN NoMatch
                ELSE IF subject[i + 1] \in Inputs(graph.states, s)
                       THEN run[<<i + 1, Append(s, subject[i + 1])>>]
                ELSE IF graph.fail[s] = Root
                       THEN run[Skipped(Inputs(graph.states, Root), subject, i, s)]
                ELSE run[<<i, graph.fail[s]>>]
    IN  run

MatchHelper(graph, subject) ==
    MatchFrom(graph, subject)[Skipped(Inputs(graph.states, Root), subject, 0, Root)]

(***************************************************************************)
(* AC_Converter: the fast graph.  States are renumbered from 1 in the      *)
(* order in which a breadth-first walk meets them, siblings by input, so   *)
(* that the kids of a state have consecutive numbers; 0 is the root.       *)
(***************************************************************************)
Increasing(seq) == \A j, k \in DOMAIN seq : j < k => seq[j] < seq[k]
Sorted(S) == CHOOSE seq \in [1..Cardinality(S) -> S] : Range(seq) = S /\ Increasing(seq)

SortedInputs(states, s) == Sorted(Inputs(states, s))
Kids(states, s) == [k \in DOMAIN SortedInputs(states, s) |-> Append(s, SortedInputs(states, s)[k])]

\* The work list before its state number i + 1 is converted.
WorkList(states) ==
    LET wl[i \in 0..Cardinality(states) - 1] ==
            IF i = 0 THEN Kids(states, Root) ELSE wl[i - 1] \o Kids(states, wl[i - 1][i])
    IN  wl

\* The kids of state id are the next to be appended to the work list.
FirstKidTooSoon(wl, id) == Len(wl[id - 1])
FirstKid(wl, id) == Len(wl[id - 1]) + 1

IdIn(order, s) == IF s = Root THEN 0 ELSE CHOOSE id \in DOMAIN order : order[id] = s

\* Calc_State_Sz: the fixed fields and one byte for each input, as a
\* multiple of the alignment.
StateFixed == 13
StateSize(goto_num) == 4 * Max({4, (StateFixed + goto_num + 3) \div 4})

\* Alloc_Buffer: the header, 256 bytes of root_goto and one offset for each
\* state, the root included, precede the states.
HeaderSize == 24
FirstStateOfst(state_num) == HeaderSize + 256 + 4 * state_num

Convert(graph) ==
    LET wl    == WorkList(graph.states)
        n     == Cardinality(graph.states) - 1
        order == wl[n]
        vect(id) == SortedInputs(graph.states, order[id])
        ofst[id \in 1..n + 1] == IF id = 1 THEN FirstStateOfst(n + 1)
                                 ELSE ofst[id - 1] + StateSize(Len(vect(id - 1)))
    IN  [root_goto |-> [c \in Byte |-> IF <<c>> \in graph.states THEN IdIn(order, <<c>>) ELSE 0],
         buf_len   |-> FirstStateOfst(n + 1)
                       + MapThenSumSet(LAMBDA id : StateSize(Len(vect(id))), 1..n),
         end       |-> ofst[n + 1],
         states    |-> [id \in 1..n |->
             [first_kid  |-> FirstKid(wl, id),
              goto_num   |-> Len(vect(id)) % 256,
              input_vect |-> vect(id),
              fail_link  |-> IdIn(order, graph.fail[order[id]]),
              depth      |-> Len(order[id]),
              is_term    |-> graph.pattern[order[id]] + 1]]]

SearchInputOpen(vect, c) ==
    LET search[x \in (0..Len(vect)) \X (-1..Len(vect) - 1)] ==
            LET low == x[1]
                high == x[2]
                mid == (low + high) \div 2
            IN  IF low >= high THEN -1
                ELSE IF c < vect[mid + 1] THEN search[<<low, mid - 1>>]
                ELSE IF c > vect[mid + 1] THEN search[<<mid + 1, high>>]
                ELSE mid
    IN  IF Len(vect) <= LinearMax THEN SelectInSeq(vect, LAMBDA v : v = c) - 1
        ELSE search[<<0, Len(vect) - 1>>]

\* Binary_Search_Input: the index of an input, -1 if it is not there.
SearchInput(vect, c) ==
    LET search[x \in (0..Len(vect)) \X (-1..Len(vect) - 1)] ==
            LET low == x[1]
                high == x[2]
                mid == (low + high) \div 2
            IN  IF low > high THEN -1
                ELSE IF c < vect[mid + 1] THEN search[<<low, mid - 1>>]
                ELSE IF c > vect[mid + 1] THEN search[<<mid + 1, high>>]
                ELSE mid
    IN  IF Len(vect) <= LinearMax THEN SelectInSeq(vect, LAMBDA v : v = c) - 1
        ELSE search[<<0, Len(vect) - 1>>]

-----------------------------------------------------------------------------
Init ==
    /\ dict \in Dictionaries
    /\ slow = <<>> /\ buf = <<>>
    /\ pc = "create" /\ variant = "none"
    /\ str = <<>> /\ idx = 0 /\ state = 0 /\ r = NoMatch

\* ac_create.
Create ==
    /\ pc = "create"
    /\ slow' = Construct(dict)
    /\ buf' = Convert(Construct(dict))
    /\ pc' = "idle"
    /\ UNCHANGED <<dict, variant, str, idx, state, r>>

Node == buf.states[state]
Found(i, node) == Result(i, node.depth, node.is_term - 1)
Starts == {c \in Byte : buf.root_goto[c] # 0}

SettleLatest(i, s) ==
    LET node == buf.states[s]
        found == Found(i, node)
    IN  /\ idx' = i /\ state' = s
        /\ IF s = 0 \/ node.is_term = 0 THEN UNCHANGED <<r, pc>>
           ELSE IF variant = "first" THEN r' = found /\ pc' = "done"
           ELSE /\ r' = IF r.begin = -1 \/ found.end - found.begin >= r.end - r.begin
                        THEN found ELSE r
                /\ UNCHANGED pc

\* What the loop does with the state s it has come to at position i.
Settle(i, s) ==
    LET node == buf.states[s]
        found == Found(i, node)
    IN  /\ idx' = i /\ state' = s
        /\ IF s = 0 \/ node.is_term = 0 THEN UNCHANGED <<r, pc>>
           ELSE IF variant = "first" THEN r' = found /\ pc' = "done"
           ELSE /\ r' = IF r.begin = -1 \/ found.end - found.begin > r.end - r.begin
                        THEN found ELSE r
                /\ UNCHANGED pc

\* ac_match, ac_match2 (first) and ac_match_longest_l (longest) skip to the
\* first byte that begins a pattern.
Call ==
    /\ pc = "idle"
    /\ pc' = "match"
    /\ str' \in Subjects /\ variant' \in {"first", "longest"}
    /\ idx' = 0 /\ state' = 0 /\ r' = NoMatch
    /\ UNCHANGED <<dict, slow, buf>>

\* From the start, and when the fail link is the root: the next byte that
\* begins a pattern.  If there is none the state stays as it is, though all
\* of the subject has been read.
Skip ==
    LET i == SkipTo(Starts, str, idx)
    IN  Settle(i, IF str[i] \in Starts THEN buf.root_goto[str[i]] ELSE state)

InLoop == pc = "match" /\ idx < Len(str)
Kid == SearchInput(SubSeq(Node.input_vect, 1, Node.goto_num), str[idx + 1])

SkipToFirst == /\ InLoop /\ state = 0
               /\ Skip
               /\ UNCHANGED <<dict, slow, buf, variant, str>>

Advance == /\ InLoop /\ state # 0 /\ Kid # -1
           /\ Settle(idx + 1, Node.first_kid + Kid)
           /\ UNCHANGED <<dict, slow, buf, variant, str>>

FollowFailAdvances ==
              /\ InLoop /\ state # 0 /\ Kid = -1 /\ Node.fail_link # 0
              /\ Settle(idx + 1, Node.fail_link)
              /\ UNCHANGED <<dict, slow, buf, variant, str>>

FollowFail == /\ InLoop /\ state # 0 /\ Kid = -1 /\ Node.fail_link # 0
              /\ Settle(idx, Node.fail_link)
              /\ UNCHANGED <<dict, slow, buf, variant, str>>

FailToRoot == /\ InLoop /\ state # 0 /\ Kid = -1 /\ Node.fail_link = 0
              /\ Skip
              /\ UNCHANGED <<dict, slow, buf, variant, str>>

LoopEnds == /\ pc = "match" /\ idx = Len(str)
            /\ pc' = "done"
            /\ UNCHANGED <<dict, slow, buf, variant, str, idx, state, r>>

\* The instance is kept for the life of the worker and called again.
Return == /\ pc = "done"
          /\ pc' = "idle" /\ variant' = "none"
          /\ str' = <<>> /\ idx' = 0 /\ state' = 0 /\ r' = NoMatch
          /\ UNCHANGED <<dict, slow, buf>>

Next == Create \/ Call \/ SkipToFirst \/ Advance \/ FollowFail \/ FailToRoot
        \/ LoopEnds \/ Return

Spec == Init /\ [][Next]_vars

-----------------------------------------------------------------------------
Occurs(pattern, subject) ==
    \E b \in 0..Len(subject) - Len(pattern) : SubSeq(subject, b + 1, b + Len(pattern)) = pattern

\* Kids and fail links are states, a kid one deeper, a fail link less deep.
NodesInPlace ==
    \A id \in DOMAIN buf.states :
        LET node == buf.states[id]
        IN  /\ node.fail_link = 0 \/ buf.states[node.fail_link].depth < node.depth
            /\ \A k \in DOMAIN node.input_vect :
                 buf.states[node.first_kid + k - 1].depth = node.depth + 1

\* The walk stays in the subject and in the buffer, and the states fill the
\* buffer exactly (the assertion at ac_fast.cxx:171).
TypeOK ==
    /\ dict \in Dictionaries /\ pc \in {"create", "idle", "match", "done"}
    /\ variant \in {"none", "first", "longest"}
    /\ str \in Subjects \union {<<>>} /\ idx \in 0..Len(str)
    /\ r.begin \in -1..Len(str) - 1 /\ r.end \in -1..Len(str) - 1
    /\ pc # "create" =>
         buf.end = buf.buf_len /\ state \in 0..Len(buf.states) /\ NodesInPlace

\* What a VERIFY build asserts of every match (ac.cxx:14-25): the fast graph,
\* renumbered, searched by halves and walked with offsets, finds what the
\* slow graph finds.
FastIsSlow ==
    pc = "done" /\ variant = "first" => r = MatchHelper(slow, str)

\* ac.h:9: what is reported from begin to end is the pattern of that index,
\* in both variants, also when the loop settles on its last state again
\* after it has skipped to the end of the subject.
MatchIsPattern ==
    pc = "done" /\ r.begin >= 0 =>
        SubSeq(str, r.begin + 1, r.end + 1) = dict[r.pattern_idx + 1]

\* ac_match_longest_l finds something whenever ac_match does, never less of
\* it, and nothing that begins further to the right at the same length.
LongestCoversFirst ==
    pc = "done" /\ variant = "longest" =>
        LET first == MatchHelper(slow, str)
        IN  /\ (r.begin >= 0) = (first.begin >= 0)
            /\ r.end - r.begin >= first.end - first.begin
            /\ r.end - r.begin = first.end - first.begin => r = first

\* ac.h:9, the other direction: a negative begin means that the subject
\* matches none of the patterns.
FindsMatches ==
    pc = "done" /\ r.begin = -1 => \A k \in DOMAIN dict : ~Occurs(dict[k], str)
=============================================================================
