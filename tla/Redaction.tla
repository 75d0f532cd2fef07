----------------------------- MODULE Redaction -----------------------------
(***************************************************************************)
(* The searchable question inside an idea (airlock/redact.py).  A text is  *)
(* a sentence of tokens, a token a word and how it stands in the source.   *)
(* Words are numbered in alphabetical order.                               *)
(***************************************************************************)
EXTENDS Naturals, Sequences, FiniteSets

CONSTANTS
    Openers,    \* words a sentence ordinarily begins with (_OPENERS)
    Dull,       \* stopwords, and words too short to be a topic
    Sensitive,  \* words that are themselves the disclosure (_SENSITIVE)
    MaxTerms,   \* MAX_TERMS
    MaxRun      \* _MAX_RUN: consecutive source words a query may not carry

\* A token: its word, whether it is capitalized, and whether the span around
\* it has the shape of a credential, an address or an identifier.
Token(word, capital, shaped) == [word |-> word, capital |-> capital, shaped |-> shaped]

Tokens == [word : Nat, capital : BOOLEAN, shaped : BOOLEAN]

\* A capital is dropped without asking what it is, but for an ordinary word
\* that opens the sentence.
Lowercase(text, k) == text[k].capital => k = 1 /\ text[k].word \in Openers

EarnsItsPlace(text, k) ==
    /\ Lowercase(text, k)
    /\ text[k].word \notin Dull \cup Sensitive
    /\ ~text[k].shaped

\* The words of `S` in the order of the alphabet.
Sorted(S) ==
    CHOOSE terms \in [1 .. Cardinality(S) -> S] :
        \A j, k \in DOMAIN terms : j < k => terms[j] < terms[k]

\* The first MaxTerms words that earn their way in, each once, in the order of
\* the alphabet.
Terms(text) ==
    LET earned == {k \in DOMAIN text : EarnsItsPlace(text, k)}
        once   == {k \in earned : \A j \in earned : j < k => text[j].word # text[k].word}
        first  == {k \in once : Cardinality({j \in once : j <= k}) <= MaxTerms}
    IN Sorted({text[k].word : k \in first})

WordsOf(text) == [k \in DOMAIN text |-> text[k].word]

\* `run` is MaxRun consecutive elements of `words`.
Occurs(run, words) ==
    \E k \in 0 .. Len(words) - MaxRun : run = [n \in 1 .. MaxRun |-> words[k + n]]

\* A query carries no phrase of its source.
Clean(query, text) ==
    \A k \in 0 .. Len(text) - MaxRun :
        ~Occurs([n \in 1 .. MaxRun |-> WordsOf(text)[k + n]], query)

Rotated(terms, offset) == SubSeq(terms, offset + 1, Len(terms)) \o SubSeq(terms, 1, offset)

CleanRotations(terms, text) ==
    {offset \in 0 .. Len(terms) - 1 : Clean(Rotated(terms, offset), text)}

\* Mutant, sorting alone: what an earlier version took to be enough.
SortedOnly(terms, text) == terms

\* The first clean rotation of the longest prefix that has one; what is left
\* of a text no prefix of which has one is its first term.
BreakRuns(terms, text) ==
    LET kept == {n \in 1 .. Len(terms) :
                    n = 1 \/ CleanRotations(SubSeq(terms, 1, n), text) # {}}
        n    == CHOOSE k \in kept : \A j \in kept : j <= k
        best == SubSeq(terms, 1, n)
        ways == CleanRotations(best, text)
    IN IF terms = <<>> THEN <<>>
       ELSE IF ways = {} THEN best
       ELSE Rotated(best, CHOOSE o \in ways : \A p \in ways : o <= p)

BuildQuery(text) == BreakRuns(Terms(text), text)
=============================================================================
