--------------------------- MODULE MCResponseCache ---------------------------
(* Small instances of ResponseCache: a question, and the answer to it sent *)
(* as a question of its own.                                               *)
EXTENDS ResponseCache, TLC

CONSTANTS r1, r2, r3, ask, quote, askKey, quoteKey

ThreeRequests == {r1, r2, r3}
TwoQuestions  == {ask, quote}
TwoKeys       == {askKey, quoteKey}
KeyOf         == [q \in Questions |-> IF q = ask THEN askKey ELSE quoteKey]
KeyOfText     == [q \in Questions |-> quoteKey]

EveryKind    == {"generate", "stream", "invalidate"}
JustGenerate == {"generate"}
EveryFault   == {"redis", "db", "provider", "expire"}
NoFault      == {}
Symmetric    == Permutations(Requests)
=============================================================================
