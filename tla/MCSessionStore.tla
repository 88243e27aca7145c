--------------------------- MODULE MCSessionStore ---------------------------
(* Small instances of SessionStore: two or three requests of one or two    *)
(* users, a history of three messages and a context of two.                *)
EXTENDS SessionStore, TLC

CONSTANTS q1, q2, q3, ana, bob

ThreeRequests == {q1, q2, q3}
TwoUsers      == {ana, bob}
Alone         == [r \in Requests |-> ana]
Shared        == [r \in Requests |-> IF r = q2 THEN bob ELSE ana]
OnlyTwo       == [r \in {q1, q3} |-> ana]

Both == {"redis", "db"}

\* Requests of two users overlap and everything may fail.
Overlap == [user |-> Shared, uses |-> Both, feedback |-> FALSE, active |-> 2,
            faults |-> {"redis", "db", "expire", "hit", "fail"}, clears |-> {}]

\* A client waits for each answer, and clears its session once.
Turns(places) ==
  [user |-> Alone, uses |-> places, feedback |-> TRUE, active |-> 1,
   faults |-> {"expire", "fail"}, clears |-> {ana}]

\* Two requests overlap with each other and with a ClearSession by u.
ClearedBy(u) ==
  [user |-> OnlyTwo, uses |-> Both, feedback |-> FALSE, active |-> 2,
   faults |-> {"redis", "db", "expire"}, clears |-> {u}]

\* Two requests of a batch.
Batch == [user |-> OnlyTwo, uses |-> Both, feedback |-> FALSE, active |-> 2,
          faults |-> {}, clears |-> {}]

AllSetups == {Overlap, Turns(Both), Turns({"redis"}), Turns({"db"}),
              ClearedBy(ana), ClearedBy(bob)}
OnlyBatch == {Batch}

\* Two requests of one user are alike.
Symmetric == Permutations({q1, q3})
=============================================================================
