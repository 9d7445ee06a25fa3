------------------------------ MODULE DpiScan ------------------------------
(***************************************************************************)
(* 10-dpi-matching: the Aho-Corasick automaton that the host builds and    *)
(* the kernels that run it, one thread per packet.  A state of the         *)
(* automaton is named by the prefix it stands for; a mask is the set of    *)
(* patterns that end in a state.                                           *)
(***************************************************************************)
EXTENDS Integers, Sequences, FiniteSets, SequencesExt

CONSTANTS
    Alphabet,       \* the values of a byte
    PatternLists,   \* sequences of patterns
    Batches,        \* sequences of packets
    MatchLimits     \* values of max_matches
\* The constructor rejects empty patterns.
ASSUME DpiAssumption ==
    /\ PatternLists \subseteq Seq(Seq(Alphabet) \ {<<>>}) /\ Batches \subseteq Seq(Seq(Alphabet))
    /\ MatchLimits \subseteq Int

(* build(): the tables have a row for every node of the trie. *)
TrieNodes(pats) == {<<>>} \cup UNION {Prefixes(p) : p \in Range(pats)}
Own(pats, s) == {i \in DOMAIN pats : pats[i] = s}
\* The row of a node, from the rows of shorter ones, which the breadth-first
\* order has computed before: the transition is the trie's child if there is one,
\* else that of the fail link; a state inherits every output of its fail link.
Row(pats, rows, s) ==
    LET fail == IF Len(s) <= 1 THEN <<>> ELSE rows[rows[Front(s)].fail].go[Last(s)]
    IN [fail |-> fail,
        go |-> [c \in Alphabet |-> IF Append(s, c) \in TrieNodes(pats) THEN Append(s, c)
                                   ELSE IF s = <<>> THEN <<>> ELSE rows[fail].go[c]],
        out |-> Own(pats, s) \cup (IF s = <<>> THEN {} ELSE rows[fail].out)]
UpTo(pats, n) == {s \in TrieNodes(pats) : Len(s) <= n}
build(pats) ==
    LET rows[n \in Nat] ==
            LET above == IF n = 0 THEN <<>> ELSE rows[n - 1]
            IN [s \in UpTo(pats, n) |-> IF Len(s) < n THEN above[s] ELSE Row(pats, above, s)]
    IN [s \in TrieNodes(pats) |-> rows[Len(s)][s]]

(* scan_cpu(): a search for every pattern at every place. *)
MatchAt(p, i, e) == [packet |-> p, pattern |-> i, end_offset |-> e]
Occurrences(pats, batch, p, i) ==
    {MatchAt(p, i, e) : e \in {x \in Len(pats[i])..Len(batch[p]) :
                                   SubSeq(batch[p], x - Len(pats[i]) + 1, x) = pats[i]}}
scan_cpu(pats, batch) ==
    UNION {UNION {Occurrences(pats, batch, p, i) : i \in DOMAIN pats} : p \in DOMAIN batch}

VARIABLES
    scan,      \* the call: [kind, pats, au, batch, max]; kind "none" before it
    walker,    \* by packet: [i, state, bits]: bytes read, state, patterns to report
    result,    \* scan_bitmask: by packet, the patterns met
    matches,   \* scan_detailed: by slot, the match or NoMatch
    match_count,
    answer     \* what scan_detailed returned, sorted: a sequence
dpiVars == <<scan, walker, result, matches, match_count, answer>>

NoMatch == MatchAt(0, 0, 0)
NoScan == [kind |-> "none", pats |-> <<>>, au |-> <<>>, batch |-> <<>>, max |-> 0]
DpiInit ==
    /\ scan = NoScan /\ walker = <<>> /\ result = <<>>
    /\ matches = <<>> /\ match_count = 0 /\ answer = <<>>

\* A detailed scan without packets or without room returns at once.
ScanBegin ==
    /\ scan.kind = "none"
    /\ \E kind \in {"bitmask", "detailed"}, pats \in PatternLists, batch \in Batches, max \in MatchLimits :
        LET empty == batch = <<>> \/ (kind = "detailed" /\ max <= 0) IN
        /\ scan' = [kind |-> IF empty THEN "done" ELSE kind, pats |-> pats, au |-> build(pats),
                  batch |-> batch, max |-> max]
        /\ walker' = [p \in IF empty THEN {} ELSE DOMAIN batch |-> [i |-> 0, state |-> <<>>, bits |-> {}]]
        /\ result' = [p \in DOMAIN batch |-> {}]
        /\ matches' = [s \in IF kind = "detailed" THEN 0..(max - 1) ELSE {} |-> NoMatch]
    /\ UNCHANGED <<match_count, answer>>

Read(p) == walker[p].i < Len(scan.batch[p]) /\ walker[p].bits = {}
Moved(p) ==
    LET s == scan.au[walker[p].state].go[scan.batch[p][walker[p].i + 1]]
    IN [i |-> walker[p].i + 1, state |-> s, bits |-> scan.au[s].out]
k_scan_bitmask(p) ==
    /\ scan.kind = "bitmask" /\ Read(p)
    /\ walker' = [walker EXCEPT ![p] = [Moved(p) EXCEPT !.bits = {}]]
    /\ result' = [result EXCEPT ![p] = @ \cup Moved(p).bits]
    /\ UNCHANGED <<scan, matches, match_count, answer>>
ReadByte(p) ==
    /\ scan.kind = "detailed" /\ Read(p)
    /\ walker' = [walker EXCEPT ![p] = Moved(p)]
    /\ UNCHANGED <<scan, result, matches, match_count, answer>>
\* Mutant: load, store, add.
AppendMatchRacy(p) ==
    /\ scan.kind = "detailed" /\ walker[p].bits # {}
    /\ LET pat == CHOOSE b \in walker[p].bits : TRUE
       IN /\ walker' = [walker EXCEPT ![p].bits = @ \ {pat}]
          /\ \E slot \in {match_count, IF match_count = 0 THEN 0 ELSE match_count - 1} :
              /\ matches' = IF slot < scan.max THEN [matches EXCEPT ![slot] = MatchAt(p, pat, walker[p].i)]
                            ELSE matches
              /\ match_count' = slot + 1
    /\ UNCHANGED <<scan, result, answer>>
\* atomicAdd hands out the slot; a match past the end is counted and dropped.
AppendMatch(p) ==
    /\ scan.kind = "detailed" /\ walker[p].bits # {}
    /\ LET pat == CHOOSE b \in walker[p].bits : \A x \in walker[p].bits : b <= x
       IN /\ walker' = [walker EXCEPT ![p].bits = @ \ {pat}]
          /\ matches' = IF match_count < scan.max
                        THEN [matches EXCEPT ![match_count] = MatchAt(p, pat, walker[p].i)]
                        ELSE matches
    /\ match_count' = match_count + 1
    /\ UNCHANGED <<scan, result, answer>>

Before(a, b) ==
    \/ a.packet < b.packet
    \/ a.packet = b.packet /\ a.end_offset < b.end_offset
    \/ a.packet = b.packet /\ a.end_offset = b.end_offset /\ a.pattern < b.pattern
\* std::sort: every match to the place of its rank.
Sorted(n) ==
    LET rank(s) == Cardinality({t \in 0..(n - 1) : \/ Before(matches[t], matches[s])
                                                   \/ matches[t] = matches[s] /\ t < s})
    IN [i \in 1..n |-> matches[CHOOSE s \in 0..(n - 1) : rank(s) = i - 1]]
ScanEnd ==
    /\ scan.kind \in {"bitmask", "detailed"}
    /\ \A p \in DOMAIN walker : walker[p].i = Len(scan.batch[p]) /\ walker[p].bits = {}
    /\ answer' = Sorted(IF match_count < scan.max THEN match_count ELSE scan.max)
    /\ scan' = [scan EXCEPT !.kind = "done"]
    /\ UNCHANGED <<walker, result, matches, match_count>>

PacketStep(p) == k_scan_bitmask(p) \/ ReadByte(p) \/ AppendMatch(p)
DpiNext == ScanBegin \/ (\E p \in DOMAIN walker : PacketStep(p)) \/ ScanEnd
DpiSpec == DpiInit /\ [][DpiNext]_dpiVars
\* The device runs every thread of a launch.
DpiFairness == WF_dpiVars((\E p \in DOMAIN walker : PacketStep(p)) \/ ScanEnd)

-----------------------------------------------------------------------------
\* The automaton finds what a search of every pattern at every place finds: a
\* detailed scan counts every occurrence, returns as many as fit, no occurrence
\* twice, in order; a bitmask has exactly the patterns that occur.
ScansMatchSearch ==
    scan.kind = "done" =>
    LET true == scan_cpu(scan.pats, scan.batch)
        detailed == DOMAIN matches # {}
    IN IF detailed
       THEN /\ match_count = Cardinality(true)
            /\ Range(answer) \subseteq true
            /\ Len(answer) = Cardinality(Range(answer))
            /\ Len(answer) = (IF match_count < scan.max THEN match_count ELSE scan.max)
            /\ \A i \in 1..(Len(answer) - 1) : Before(answer[i], answer[i + 1])
       ELSE \A p \in DOMAIN walker : result[p] = {m.pattern : m \in {x \in true : x.packet = p}}

Scanning == scan.kind \in {"bitmask", "detailed"}
=============================================================================
