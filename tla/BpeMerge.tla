------------------------------ MODULE BpeMerge ------------------------------
(***************************************************************************)
(* Tokenizer::encode and decode of 19-llm-engine.  Text is split at control *)
(* tokens; what is between them is cut into characters, and neighbours are  *)
(* merged, the best pair first.  Candidate pairs wait in a priority queue   *)
(* and may be stale when they come up; a symbol that was merged away has    *)
(* length 0.                                                                *)
(***************************************************************************)
EXTENDS Integers, Sequences, FiniteSets, SequencesExt

CONSTANTS
    Texts,        \* sequences of characters
    Merges,       \* the merge list: pairs of pieces, the best first
    Vocabulary,   \* pieces that are tokens, with their scores: a function
    Control       \* characters that stand for the spelling of a control token
Space == 0     \* U+2581
Blank == 8     \* " ", becomes Space
\* What stands for a blank is a token wherever a merge has put it: a piece that
\* is not in the vocabulary is given byte by byte, and a byte is never decoded
\* to a blank.  Nor does a text hold that mark: it would be decoded to a blank.
ASSUME BpeAssumption ==
    /\ Texts \subseteq Seq(Int \ {Space})
    /\ Merges \in Seq(Seq(Int) \X Seq(Int)) /\ Vocabulary \in [DOMAIN Vocabulary -> Int]
    /\ <<Space>> \in DOMAIN Vocabulary
    /\ \A m \in Range(Merges) : Space \in Range(m[1] \o m[2]) => m[1] \o m[2] \in DOMAIN Vocabulary

VARIABLES
    algorithm,   \* "merges" or "scores"
    encoder,     \* "idle", "busy" or "done"
    rest,        \* the text that is still to be encoded
    norm,        \* the segment that is being encoded, normalised
    sym,         \* its symbols: [start, len, prev, next]
    cands,       \* the candidate pairs: [key, left, right, len]
    out,         \* the tokens so far: pieces, single bytes and control tokens
    whole        \* the text of the call
bpeVars == <<algorithm, encoder, rest, norm, sym, cands, out, whole>>

NoSymbol == -1
BpeInit ==
    /\ algorithm = "merges" /\ encoder = "idle" /\ rest = <<>> /\ whole = <<>>
    /\ norm = <<>> /\ sym = <<>> /\ cands = {} /\ out = <<>>

\* merge_rank_ and scores_: the pairs that may be merged, and the key of one, the
\* lowest merges first.  Of a merge that is listed twice the first counts.
CanMerge(a, l, r) ==
    IF a = "merges" THEN \E i \in DOMAIN Merges : Merges[i] = <<l, r>>
    ELSE l \o r \in DOMAIN Vocabulary
Key(a, l, r) ==
    IF a = "merges"
    THEN CHOOSE i \in DOMAIN Merges :
            Merges[i] = <<l, r>> /\ \A j \in DOMAIN Merges : Merges[j] = <<l, r>> => i <= j
    ELSE -Vocabulary[l \o r]
Piece(t, s, i) == SubSeq(t, s[i].start, s[i].start + s[i].len - 1)
\* consider(l, r)
Candidates(a, t, s, l, r) ==
    IF l = NoSymbol \/ r = NoSymbol \/ ~CanMerge(a, Piece(t, s, l), Piece(t, s, r)) THEN {}
    ELSE {[key |-> Key(a, Piece(t, s, l), Piece(t, s, r)), left |-> l, right |-> r, len |-> s[l].len + s[r].len]}

Token(kind, text) == [kind |-> kind, text |-> text]
Bos == Token("control", <<>>)
EncodeBegin ==
    /\ encoder = "idle" /\ encoder' = "busy"
    /\ \E t \in Texts, a \in {"merges", "scores"}, add_bos \in BOOLEAN :
            /\ rest' = t /\ whole' = t /\ algorithm' = a
            /\ out' = IF add_bos THEN <<Bos>> ELSE <<>>
    /\ UNCHANGED <<norm, sym, cands>>

\* The text before the first control token, or the tail.
ControlAt(t) == {i \in DOMAIN t : t[i] \in Control}
FirstControl(t) == CHOOSE i \in ControlAt(t) : \A j \in ControlAt(t) : i <= j
Segment(t) == IF ControlAt(t) = {} THEN t ELSE SubSeq(t, 1, FirstControl(t) - 1)
Normalised(t) == IF t = <<>> THEN <<>> ELSE <<Space>> \o [i \in DOMAIN t |-> IF t[i] = Blank THEN Space ELSE t[i]]
Characters(n) ==
    [i \in 1..n |-> [start |-> i, len |-> 1, prev |-> IF i = 1 THEN NoSymbol ELSE i - 1,
                     next |-> IF i = n THEN NoSymbol ELSE i + 1]]
StartSegment ==
    /\ encoder = "busy" /\ norm = <<>> /\ Segment(rest) # <<>>
    /\ norm' = Normalised(Segment(rest))
    /\ sym' = Characters(Len(norm'))
    /\ cands' = UNION {Candidates(algorithm, norm', sym', i, i + 1) : i \in 1..(Len(norm') - 1)}
    /\ UNCHANGED <<algorithm, encoder, rest, out, whole>>

\* queue.top(): any of the candidates that are first by key and left symbol.
Top(c) == \A d \in cands : c.key < d.key \/ (c.key = d.key /\ c.left <= d.left)
\* Mutant: the recorded length is not compared.
StaleByLink(c) == sym[c.left].len = 0 \/ sym[c.right].len = 0 \/ sym[c.left].next # c.right
Stale(c) ==
    \/ sym[c.left].len = 0 \/ sym[c.right].len = 0
    \/ sym[c.left].next # c.right
    \/ sym[c.left].len + sym[c.right].len # c.len
SkipStale ==
    \E c \in cands : /\ Top(c) /\ Stale(c)
                     /\ cands' = cands \ {c}
                     /\ UNCHANGED <<algorithm, encoder, rest, norm, sym, out, whole>>
Merge ==
    \E c \in cands :
        /\ Top(c) /\ ~Stale(c)
        /\ LET after == sym[c.right].next
               s1 == [sym EXCEPT ![c.left].len = c.len, ![c.left].next = after, ![c.right].len = 0]
               s2 == IF after = NoSymbol THEN s1 ELSE [s1 EXCEPT ![after].prev = c.left]
           IN /\ sym' = s2
              /\ cands' = (cands \ {c}) \cup Candidates(algorithm, norm, s2, s2[c.left].prev, c.left)
                                        \cup Candidates(algorithm, norm, s2, c.left, s2[c.left].next)
        /\ UNCHANGED <<algorithm, encoder, rest, norm, out, whole>>

\* A piece that is not in the vocabulary is given as its bytes.
Tokens(piece) ==
    IF piece \in DOMAIN Vocabulary THEN <<Token("piece", piece)>>
    ELSE [i \in DOMAIN piece |-> Token("byte", <<piece[i]>>)]
\* The walk along the links: it meets no symbol that was merged away.
PiecesFrom(t, s) ==
    LET walk[i \in {NoSymbol} \cup {j \in DOMAIN s : s[j].len # 0}] ==
            IF i = NoSymbol THEN <<>> ELSE <<Piece(t, s, i)>> \o walk[s[i].next]
    IN IF s = <<>> THEN <<>> ELSE walk[1]
TokensOf(pieces) == FlattenSeq([i \in DOMAIN pieces |-> Tokens(pieces[i])])
\* The tokens of the segment, then the control token behind it.
EndSegment ==
    /\ encoder = "busy" /\ cands = {}
    /\ Segment(rest) # <<>> => norm # <<>>
    /\ out' = out \o TokensOf(PiecesFrom(norm, sym))
              \o (IF ControlAt(rest) = {} THEN <<>> ELSE <<Token("control", <<rest[FirstControl(rest)]>>)>>)
    /\ rest' = IF ControlAt(rest) = {} THEN <<>> ELSE SubSeq(rest, FirstControl(rest) + 1, Len(rest))
    /\ encoder' = IF ControlAt(rest) = {} THEN "done" ELSE "busy"
    /\ norm' = <<>> /\ sym' = <<>>
    /\ UNCHANGED <<algorithm, cands, whole>>

BpeNext == EncodeBegin \/ StartSegment \/ SkipStale \/ Merge \/ EndSegment
BpeSpec == BpeInit /\ [][BpeNext]_bpeVars

-----------------------------------------------------------------------------
(* What encode promises: the best merge present anywhere in the sequence is  *)
(* applied, the leftmost on a tie, until there is none.                      *)
MergeBest(a, pieces) ==
    LET pairs == {i \in 1..(Len(pieces) - 1) : CanMerge(a, pieces[i], pieces[i + 1])}
        key(i) == Key(a, pieces[i], pieces[i + 1])
        best == CHOOSE i \in pairs : \A j \in pairs : key(i) < key(j) \/ (key(i) = key(j) /\ i <= j)
    IN IF pairs = {} THEN pieces
       ELSE [i \in 1..(Len(pieces) - 1) |->
                IF i < best THEN pieces[i]
                ELSE IF i = best THEN pieces[i] \o pieces[i + 1] ELSE pieces[i + 1]]
\* A merge leaves one piece less.
Rescan(a, pieces) ==
    LET round[n \in 0..Len(pieces)] == IF n = 0 THEN pieces ELSE MergeBest(a, round[n - 1])
    IN round[Len(pieces)]
Letters(n) == [i \in 1..Len(n) |-> <<n[i]>>]
SegmentTokens(a, t) == TokensOf(Rescan(a, Letters(Normalised(t))))
\* Every control token and the end of the text end a segment.
Part(a, t, i) ==
    LET from == Max({0} \cup {c \in ControlAt(t) : c < i}) + 1
        tokens == SegmentTokens(a, SubSeq(t, from, i - 1))
    IN IF i = Len(t) + 1 THEN tokens
       ELSE IF i \in ControlAt(t) THEN tokens \o <<Token("control", <<t[i]>>)>> ELSE <<>>
EncodeByRescan(a, t) == FlattenSeq([i \in 1..(Len(t) + 1) |-> Part(a, t, i)])

(* decode(): the text of a control token is empty, a byte token is its byte, *)
(* a piece has its blanks back, and the blank put in front is taken away.    *)
PieceText(token) ==
    CASE token.kind = "control" -> <<>>
      [] token.kind = "byte" -> token.text
      [] token.kind = "piece" -> [i \in DOMAIN token.text |-> IF token.text[i] = Space THEN Blank ELSE token.text[i]]
decode(tokens) ==
    LET s == FlattenSeq([i \in DOMAIN tokens |-> PieceText(tokens[i])])
    IN IF s # <<>> /\ s[1] = Blank THEN Tail(s) ELSE s

\* The queue with its stale entries gives the tokens that a search for the best
\* pair after every merge would give, in every order of equal entries; and
\* decode() gives a text without control tokens back.
EncodeIsExact ==
    encoder = "done" =>
        /\ out \in {EncodeByRescan(algorithm, whole), <<Bos>> \o EncodeByRescan(algorithm, whole)}
        /\ ControlAt(whole) = {} => decode(out) = whole
=============================================================================
