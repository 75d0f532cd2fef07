---------------------------- MODULE MCAirlock ------------------------------
EXTENDS Airlock

\* Words in alphabetical order: 1..3 are topics, 4 a name, 5 an opener, 6 a
\* disclosure, 7 a dull word.
Plain(words) == [k \in DOMAIN words |-> Token(words[k], FALSE, FALSE)]

\* Every order of three topics; one all of whose rotations are in it; a
\* name, an opener and a disclosure among topics; a shaped span; too little to
\* search for.
Sentences == {Plain(words) : words \in SetToSeqs(1 .. 3)} \cup {
    Plain(<<1, 2, 3, 1, 2>>),
    <<Token(5, TRUE, FALSE), Token(4, TRUE, FALSE), Token(2, FALSE, FALSE), Token(6, FALSE, FALSE)>>,
    <<Token(1, FALSE, TRUE), Token(7, FALSE, FALSE), Token(2, FALSE, FALSE), Token(3, FALSE, FALSE)>>,
    Plain(<<7, 1>>)}
=============================================================================
