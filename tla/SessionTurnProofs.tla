-------------------------- MODULE SessionTurnProofs --------------------------
(***************************************************************************)
(* Machine-checked proofs of what SessionStore promises to a client that   *)
(* waits for each answer: its history is complete, the stores agree and    *)
(* the prompts carry the conversation, whatever expires and whichever      *)
(* answers fail. Turns is inductive on top of SessionInv.                  *)
(***************************************************************************)
EXTENDS SessionProofs

\* What the history should hold.
Kept    == LastOf(added, MaxMessages)
With(m) == LastOf(Append(added, m), MaxMessages)

AddedBy(r) == [request |-> r, role |-> phase[r]]

\* One request runs at a time and none while the session is cleared; all copies
\* belong to the client.
Orderly ==
  /\ \A r, s \in Active : r = s
  /\ clear # "met" /\ (Clearing => Active = {})
  /\ \A s \in Held \ {NoSession} : \E r \in DOMAIN User : s.user = User[r]

\* The store that lasts holds the history, the copy about to be written holds one
\* message more, and Redis has caught up with the row or is ahead of it by that
\* copy.
Current ==
  /\ Tells(Messages(IF UseDB THEN db ELSE redis), Kept)
  /\ \A r \in Active :
       /\ step[r] = "fill" => work[r] = db
       /\ step[r] \in Saving => Tells(Messages(work[r]), With(AddedBy(r)))
       /\ step[r] = "insert" => db = NoSession
       /\ step[r] \in {"update", "insert"} => redis \in {NoSession, work[r]}
  /\ UseDB /\ (\A r \in Active : step[r] \notin {"update", "insert"}) => redis \in {NoSession, db}

\* What a client was told is on its way into the history, and what the model is
\* told comes from there.
Conversed ==
  /\ \A r \in answered :
       \/ phase[r] = "assistant"
       \/ phase[r] = "done" /\ (clear = "off" => Contains(added, [request |-> r, role |-> "assistant"]))
  /\ \A r \in Requests :
       phase[r] = "answer" => Tells(Front(prompt[r]), LastOf(Kept, ContextWindow))

Turns == InTurns => Orderly /\ Current /\ Conversed

-----------------------------------------------------------------------------
(* Ends of sequences.                                                      *)

\* The message j places before the last.
FromEnd(s, j) == s[Len(s) - j]

\* h is what the end of t holds.
EndOf(h, t) ==
  Len(h) <= Len(t) /\ \A j \in 0 .. Len(h) - 1 : FromEnd(h, j) = FromEnd(t, j)

LEMMA EqualByEnds ==
  ASSUME NEW S, NEW h \in Seq(S), NEW t \in Seq(S), Len(h) = Len(t), EndOf(h, t)
  PROVE  h = t
<1>1. Len(h) \in Nat
  BY LenProperties
<1>2. ASSUME NEW i \in 1 .. Len(h) PROVE h[i] = t[i]
  <2>1. Len(h) - i \in 0 .. Len(h) - 1 /\ Len(h) - (Len(h) - i) = i
    BY <1>1
  <2>2. QED
    BY <2>1 DEF EndOf, FromEnd
<1>3. QED
  BY <1>2, SeqEqual

LEMMA ReverseProperties ==
  ASSUME NEW S, NEW s \in Seq(S)
  PROVE  /\ Reverse(s) \in Seq(S) /\ Len(Reverse(s)) = Len(s)
         /\ \A j \in 0 .. Len(s) - 1 : Reverse(s)[j + 1] = FromEnd(s, j)
<1>1. Len(s) \in Nat /\ \A i \in 1 .. Len(s) : s[i] \in S
  BY LenProperties, ElementOfSeq
<1>2. Reverse(s) = [i \in 1 .. Len(s) |-> s[(Len(s) - i) + 1]]
  BY DEF Reverse
<1>3. Reverse(s) \in [1 .. Len(s) -> S]
  BY <1>1, <1>2
<1>4. Reverse(s) \in Seq(S)
  BY <1>1, <1>3, SeqDef
<1>5. Len(Reverse(s)) = Len(s)
  <2>1. DOMAIN Reverse(s) = 1 .. Len(s) /\ DOMAIN Reverse(s) = 1 .. Len(Reverse(s))
    BY <1>3, <1>4, LenProperties
  <2>2. Len(Reverse(s)) \in Nat
    BY <1>4, LenProperties
  <2>3. QED
    BY <1>1, <2>1, <2>2
<1>6. ASSUME NEW j \in 0 .. Len(s) - 1 PROVE Reverse(s)[j + 1] = FromEnd(s, j)
  <2>1. j + 1 \in 1 .. Len(s) /\ (Len(s) - (j + 1)) + 1 = Len(s) - j
    BY <1>1
  <2>2. QED
    BY <1>2, <2>1 DEF FromEnd
<1>7. QED
  BY <1>4, <1>5, <1>6

LEMMA SuffixIsEnd ==
  ASSUME NEW S, NEW h \in Seq(S), NEW t \in Seq(S)
  PROVE  IsSuffix(h, t) <=> EndOf(h, t)
<1> DEFINE g == Reverse(h)
           u == Reverse(t)
<1>1. /\ g \in Seq(S) /\ Len(g) = Len(h) /\ Len(h) \in Nat
      /\ u \in Seq(S) /\ Len(u) = Len(t) /\ Len(t) \in Nat
      /\ \A j \in 0 .. Len(h) - 1 : g[j + 1] = FromEnd(h, j)
      /\ \A j \in 0 .. Len(t) - 1 : u[j + 1] = FromEnd(t, j)
  BY ReverseProperties, LenProperties
<1> HIDE DEF g, u
<1>2. CASE Len(h) <= Len(t)
  <2> DEFINE a == SubSeq(g, 1, Len(h))
             b == SubSeq(u, 1, Len(h))
  <2>1. \A i \in 1 .. Len(h) : g[i] \in S /\ u[i] \in S
    BY <1>1, <1>2, ElementOfSeq
  <2>2. /\ a \in Seq(S) /\ Len(a) = Len(h) /\ \A i \in 1 .. Len(h) : a[i] = g[i]
    BY <1>1, <2>1, SubSeqProperties
  <2>3. /\ b \in Seq(S) /\ Len(b) = Len(h) /\ \A i \in 1 .. Len(h) : b[i] = u[i]
    BY <1>1, <2>1, SubSeqProperties
  <2> HIDE DEF a, b
  <2>4. a = b <=> \A i \in 1 .. Len(h) : a[i] = b[i]
    BY <2>2, <2>3, SeqEqual
  <2>5. (\A i \in 1 .. Len(h) : a[i] = b[i]) <=> \A i \in 1 .. Len(h) : g[i] = u[i]
    BY <2>2, <2>3
  <2>6. (\A i \in 1 .. Len(h) : g[i] = u[i])
          <=> \A j \in 0 .. Len(h) - 1 : g[j + 1] = u[j + 1]
    <3>1. ASSUME \A j \in 0 .. Len(h) - 1 : g[j + 1] = u[j + 1], NEW i \in 1 .. Len(h)
          PROVE  g[i] = u[i]
      <4>1. i - 1 \in 0 .. Len(h) - 1 /\ (i - 1) + 1 = i
        BY <1>1
      <4>2. QED
        BY <3>1, <4>1
    <3>2. ASSUME \A i \in 1 .. Len(h) : g[i] = u[i], NEW j \in 0 .. Len(h) - 1
          PROVE  g[j + 1] = u[j + 1]
      <4>1. j + 1 \in 1 .. Len(h)
        BY <1>1
      <4>2. QED
        BY <3>2, <4>1
    <3>3. QED
      BY <3>1, <3>2
  <2>7. (\A j \in 0 .. Len(h) - 1 : g[j + 1] = u[j + 1]) <=> EndOf(h, t)
    <3>1. \A j \in 0 .. Len(h) - 1 : j \in 0 .. Len(t) - 1
      BY <1>1, <1>2
    <3>2. \A j \in 0 .. Len(h) - 1 : g[j + 1] = FromEnd(h, j) /\ u[j + 1] = FromEnd(t, j)
      BY <1>1, <3>1
    <3>3. (\A j \in 0 .. Len(h) - 1 : g[j + 1] = u[j + 1])
            <=> \A j \in 0 .. Len(h) - 1 : FromEnd(h, j) = FromEnd(t, j)
      BY <3>2
    <3>4. QED
      BY <1>2, <3>3 DEF EndOf
  <2>8. IsSuffix(h, t) <=> a = b
    BY <1>1, <1>2 DEF IsSuffix, IsPrefix, a, b, g, u
  <2>9. QED
    BY <2>4, <2>5, <2>6, <2>7, <2>8
<1>3. CASE ~(Len(h) <= Len(t))
  BY <1>1, <1>3 DEF IsSuffix, IsPrefix, EndOf, g, u
<1>4. QED
  BY <1>2, <1>3

\* What Tells says of two histories.
LEMMA TellsMeans ==
  ASSUME NEW h \in Seq(Message), NEW t \in Seq(Message)
  PROVE  Tells(h, t) <=> EndOf(h, t) /\ (UseDB => Len(h) = Len(t))
<1>1. Len(h) \in Nat /\ Len(t) \in Nat
  BY LenProperties
<1>2. h = t => EndOf(h, t) /\ Len(h) = Len(t)
  BY <1>1 DEF EndOf
<1>3. EndOf(h, t) /\ Len(h) = Len(t) => h = t
  BY EqualByEnds
<1>4. QED
  BY <1>2, <1>3, SuffixIsEnd DEF Tells

LEMMA LastOfEnds ==
  ASSUME NEW s \in Seq(Message), NEW n \in Nat
  PROVE  /\ LastOf(s, n) \in Seq(Message)
         /\ Len(LastOf(s, n)) = IF Len(s) > n THEN n ELSE Len(s)
         /\ \A j \in 0 .. Len(LastOf(s, n)) - 1 : FromEnd(LastOf(s, n), j) = FromEnd(s, j)
<1> DEFINE a == LastOf(s, n)
           l == Len(a)
           k == Len(s)
<1>1. /\ a \in Seq(Message) /\ l = (IF k > n THEN n ELSE k)
      /\ \A i \in 1 .. l : a[i] = s[i + (k - l)]
  BY LastOfProperties
<1>2. l \in Nat /\ k \in Nat
  BY <1>1, LenProperties
<1> HIDE DEF a
<1>3. ASSUME NEW j \in 0 .. l - 1 PROVE FromEnd(a, j) = FromEnd(s, j)
  <2>1. l - j \in 1 .. l /\ (l - j) + (k - l) = k - j
    BY <1>2
  <2>2. a[l - j] = s[k - j]
    BY <1>1, <2>1
  <2>3. QED
    BY <2>2 DEF FromEnd
<1>4. QED
  BY <1>1, <1>3 DEF a

LEMMA AppendEnds ==
  ASSUME NEW s \in Seq(Message), NEW m \in Message
  PROVE  /\ Append(s, m) \in Seq(Message) /\ Len(Append(s, m)) = Len(s) + 1
         /\ FromEnd(Append(s, m), 0) = m
         /\ \A j \in 1 .. Len(s) : FromEnd(Append(s, m), j) = FromEnd(s, j - 1)
<1> DEFINE t == Append(s, m)
<1>1. /\ t \in Seq(Message) /\ Len(t) = Len(s) + 1 /\ t[Len(s) + 1] = m
      /\ \A i \in 1 .. Len(s) : t[i] = s[i]
  BY AppendProperties
<1>2. Len(s) \in Nat
  BY LenProperties
<1> HIDE DEF t
<1>3. FromEnd(t, 0) = m
  <2>1. Len(t) - 0 = Len(s) + 1
    BY <1>1, <1>2
  <2>2. QED
    BY <1>1, <2>1 DEF FromEnd
<1>4. ASSUME NEW j \in 1 .. Len(s) PROVE FromEnd(t, j) = FromEnd(s, j - 1)
  <2>1. Len(t) - j = Len(s) - (j - 1) /\ Len(t) - j \in 1 .. Len(s)
    BY <1>1, <1>2
  <2>2. QED
    BY <1>1, <2>1 DEF FromEnd
<1>5. QED
  BY <1>1, <1>3, <1>4 DEF t

\* A history that tells what is kept still does when both get a message more.
LEMMA TellsMore ==
  ASSUME NEW h \in Seq(Message), NEW a \in Seq(Message), NEW m \in Message,
         Tells(h, LastOf(a, MaxMessages))
  PROVE  Tells(Appended(h, m), LastOf(Append(a, m), MaxMessages))
<1> DEFINE M == MaxMessages
           k == LastOf(a, M)
           x == Append(h, m)
           y == Append(a, m)
           p == LastOf(x, M)
           q == LastOf(y, M)
<1>1. M \in Nat /\ Len(h) \in Nat /\ Len(a) \in Nat
  BY SessionAssumption, LenProperties
<1>2. /\ k \in Seq(Message) /\ Len(k) = (IF Len(a) > M THEN M ELSE Len(a))
      /\ \A j \in 0 .. Len(k) - 1 : FromEnd(k, j) = FromEnd(a, j)
  BY <1>1, LastOfEnds
<1>3. EndOf(h, k) /\ (UseDB => Len(h) = Len(k))
  BY <1>2, TellsMeans
<1>4. /\ x \in Seq(Message) /\ Len(x) = Len(h) + 1 /\ FromEnd(x, 0) = m
      /\ \A j \in 1 .. Len(h) : FromEnd(x, j) = FromEnd(h, j - 1)
  BY AppendEnds
<1>5. /\ y \in Seq(Message) /\ Len(y) = Len(a) + 1 /\ FromEnd(y, 0) = m
      /\ \A j \in 1 .. Len(a) : FromEnd(y, j) = FromEnd(a, j - 1)
  BY AppendEnds
<1> HIDE DEF k, x, y, M
<1>6. /\ p \in Seq(Message) /\ Len(p) = (IF Len(x) > M THEN M ELSE Len(x))
      /\ \A j \in 0 .. Len(p) - 1 : FromEnd(p, j) = FromEnd(x, j)
  BY <1>1, <1>4, LastOfEnds
<1>7. /\ q \in Seq(Message) /\ Len(q) = (IF Len(y) > M THEN M ELSE Len(y))
      /\ \A j \in 0 .. Len(q) - 1 : FromEnd(q, j) = FromEnd(y, j)
  BY <1>1, <1>5, LastOfEnds
<1> HIDE DEF p, q
<1>8. Len(h) <= Len(k) /\ Len(k) <= Len(a) /\ Len(k) <= M
  BY <1>1, <1>2, <1>3 DEF EndOf
<1>9. Len(p) <= Len(q) /\ (UseDB => Len(p) = Len(q))
  BY <1>1, <1>2, <1>3, <1>4, <1>5, <1>6, <1>7, <1>8
<1>10. ASSUME NEW j \in 0 .. Len(p) - 1 PROVE FromEnd(p, j) = FromEnd(q, j)
  <2>1. j \in 0 .. Len(q) - 1 /\ j \in 0 .. Len(h)
    BY <1>1, <1>4, <1>5, <1>6, <1>7, <1>9
  <2>2. FromEnd(p, j) = FromEnd(x, j) /\ FromEnd(q, j) = FromEnd(y, j)
    BY <1>6, <1>7, <2>1
  <2>3. CASE j = 0
    BY <1>4, <1>5, <2>2, <2>3
  <2>4. CASE j # 0
    <3>1. j \in 1 .. Len(h) /\ j \in 1 .. Len(a)
      BY <1>1, <1>8, <2>1, <2>4
    <3>2. j - 1 \in 0 .. Len(h) - 1 /\ j - 1 \in 0 .. Len(k) - 1
      BY <1>1, <1>2, <1>8, <3>1
    <3>3. FromEnd(h, j - 1) = FromEnd(k, j - 1) /\ FromEnd(k, j - 1) = FromEnd(a, j - 1)
      BY <1>2, <1>3, <3>2 DEF EndOf
    <3>4. QED
      BY <1>4, <1>5, <2>2, <3>1, <3>3
  <2>5. QED
    BY <2>3, <2>4
<1>11. Tells(p, q)
  BY <1>6, <1>7, <1>9, <1>10, TellsMeans DEF EndOf
<1>12. QED
  BY <1>11 DEF Appended, p, q, x, y, M

\* So do the last messages of both.
LEMMA TellsWindow ==
  ASSUME NEW h \in Seq(Message), NEW t \in Seq(Message), NEW n \in Nat, Tells(h, t)
  PROVE  Tells(LastOf(h, n), LastOf(t, n))
<1> DEFINE p == LastOf(h, n)
           q == LastOf(t, n)
<1>1. Len(h) \in Nat /\ Len(t) \in Nat /\ EndOf(h, t) /\ (UseDB => Len(h) = Len(t))
  BY LenProperties, TellsMeans
<1>2. /\ p \in Seq(Message) /\ Len(p) = (IF Len(h) > n THEN n ELSE Len(h))
      /\ \A j \in 0 .. Len(p) - 1 : FromEnd(p, j) = FromEnd(h, j)
  BY LastOfEnds
<1>3. /\ q \in Seq(Message) /\ Len(q) = (IF Len(t) > n THEN n ELSE Len(t))
      /\ \A j \in 0 .. Len(q) - 1 : FromEnd(q, j) = FromEnd(t, j)
  BY LastOfEnds
<1> HIDE DEF p, q
<1>4. Len(h) <= Len(t) /\ Len(p) <= Len(q) /\ Len(p) <= Len(h) /\ (UseDB => Len(p) = Len(q))
  BY <1>1, <1>2, <1>3 DEF EndOf
<1>5. ASSUME NEW j \in 0 .. Len(p) - 1 PROVE FromEnd(p, j) = FromEnd(q, j)
  <2>1. j \in 0 .. Len(q) - 1 /\ j \in 0 .. Len(h) - 1
    BY <1>1, <1>2, <1>3, <1>4
  <2>2. QED
    BY <1>1, <1>2, <1>3, <2>1 DEF EndOf
<1>6. Tells(p, q)
  BY <1>2, <1>3, <1>4, <1>5, TellsMeans DEF EndOf
<1>7. QED
  BY <1>6 DEF p, q

\* A prompt without its last message is the window it was made of.
LEMMA FrontOfAppend ==
  ASSUME NEW w \in Seq(Message), NEW m \in Message
  PROVE  Front(Append(w, m)) = w
<1> DEFINE t == Append(w, m)
<1>1. /\ t \in Seq(Message) /\ Len(t) = Len(w) + 1 /\ Len(w) \in Nat
      /\ \A i \in 1 .. Len(w) : t[i] = w[i]
  BY AppendProperties, LenProperties
<1> HIDE DEF t
<1>2. Front(t) = SubSeq(t, 1, Len(w))
  BY <1>1 DEF Front
<1>3. \A i \in 1 .. Len(w) : t[i] \in Message
  BY <1>1, ElementOfSeq
<1>4. /\ SubSeq(t, 1, Len(w)) \in Seq(Message) /\ Len(SubSeq(t, 1, Len(w))) = Len(w)
      /\ \A i \in 1 .. Len(w) : SubSeq(t, 1, Len(w))[i] = t[i]
  BY <1>1, <1>3, SubSeqProperties
<1>5. SubSeq(t, 1, Len(w)) = w
  BY <1>1, <1>4, SeqEqual
<1>6. QED
  BY <1>2, <1>5 DEF t

LEMMA LastOfNothing ==
  ASSUME NEW n \in Nat
  PROVE  LastOf(<<>>, n) = <<>>
<1> DEFINE e == <<>>
           l == LastOf(e, n)
<1>1. e \in Seq(Message) /\ Len(e) = 0
  BY EmptySeq
<1> HIDE DEF e
<1>2. l \in Seq(Message) /\ Len(l) = (IF Len(e) > n THEN n ELSE Len(e))
  BY <1>1, LastOfEnds
<1> HIDE DEF l
<1>3. Len(l) = 0
  BY <1>1, <1>2
<1>4. l = <<>>
  BY <1>2, <1>3, EmptySeq
<1>5. QED
  BY <1>4 DEF l, e

\* Nothing tells what there is to tell when nothing is kept, and without a database
\* always.
LEMMA NothingTells ==
  ASSUME NEW t \in Seq(Message), UseDB => t = <<>>
  PROVE  Tells(<<>>, t)
<1>1. <<>> \in Seq(Message) /\ Len(<<>>) = 0 /\ Len(t) \in Nat
  BY EmptySeq, LenProperties
<1>2. EndOf(<<>>, t)
  BY <1>1 DEF EndOf
<1>3. QED
  BY <1>1, <1>2, TellsMeans

-----------------------------------------------------------------------------
(* What a step of a request does when requests take turns.                 *)

LEMMA TurnsQuiet ==
  ASSUME SessionInv, InTurns
  PROVE  /\ "redis" \notin Faults /\ "db" \notin Faults /\ "hit" \notin Faults
         /\ setup.active = 1 /\ ~(setup.active > 1)
         /\ \A x, y \in DOMAIN User : User[x] = User[y]
         /\ \A u \in setup.clears, x \in DOMAIN User : u = User[x]
BY DEF InTurns

\* Every copy is the client's.
LEMMA Mine ==
  ASSUME SessionInv, InTurns, Orderly, NEW s \in Held, s # NoSession, NEW r \in DOMAIN User
  PROVE  s.user = User[r]
BY TurnsQuiet DEF Orderly

LEMMA KeptType ==
  ASSUME SessionInv
  PROVE  added \in Seq(Message) /\ Kept \in Seq(Message)
BY LastOfProperties, SessionAssumption DEF SessionInv, TypeOK, Kept

LEMMA ClientActive ==
  ASSUME SessionInv, InTurns, Orderly, NEW r \in Requests, Client(r)
  PROVE  /\ r \in DOMAIN User /\ r \in Active /\ (\A x \in Active : x = r)
         /\ ~Clearing /\ clear' = clear /\ UNCHANGED <<setup, cleared>>
         /\ Active' \subseteq {r}
         /\ \A x \in Requests : x # r =>
              /\ phase'[x] = phase[x] /\ step'[x] = step[x]
              /\ work'[x] = work[x] /\ prompt'[x] = prompt[x]
<1>1. /\ r \in DOMAIN User /\ phase[r] \in Reading \union {"answer"} /\ Frame(r)
      /\ UNCHANGED <<setup, clearVars>>
  BY ClientForm DEF SessionInv
<1>2. r \in Active
  BY <1>1 DEF Active, Reading, Adding
<1>3. \A x \in Requests : x # r =>
              /\ phase'[x] = phase[x] /\ step'[x] = step[x]
              /\ work'[x] = work[x] /\ prompt'[x] = prompt[x]
  BY <1>1 DEF Frame, SessionInv, TypeOK
<1>4. QED
  BY <1>1, <1>2, <1>3 DEF Orderly, Active, clearVars

\* A read ends with a session that tells what is kept.
LEMMA TurnRead ==
  ASSUME SessionInv, InTurns, Orderly, Current, NEW r \in Requests, GetSession(r)
  PROVE  /\ phase[r] \in Reading /\ step[r] \notin Saving
         /\ redis' \in {redis, NoSession, db} /\ (redis' # redis => UseDB)
         /\ UNCHANGED <<setup, db, answered, added, clearVars>>
         /\ \/ (Waits(r) \/ Fetches(r)) /\ prompt' = prompt
            \/ \E s \in Own(r) : Got(r, s) /\ Tells(Messages(s), Kept)
<1>1. /\ phase[r] \in Reading /\ step[r] \notin Saving
      /\ redis' = redis \/ (redis' = work[r] /\ step[r] = "fill")
      /\ UNCHANGED <<setup, db, answered, added, clearVars>>
  BY ReadForm DEF SessionInv
<1>2. Client(r) /\ r \in DOMAIN User /\ r \in Active /\ \A x \in Active : x = r
  BY ClientActive DEF Client
<1>3. redis' \in {redis, db} /\ (redis' # redis => UseDB)
  BY <1>1, <1>2 DEF Current, SessionInv, Writers
<1>4. NoSession \in Own(r) /\ db \in Own(r) /\ redis \in Own(r)
  BY <1>2, Mine DEF Own, Held
<1>5. UseDB => redis \in {NoSession, db} /\ Tells(Messages(db), Kept)
  BY <1>1, <1>2 DEF Current, Saving
<1>6. ~UseDB => Tells(Messages(redis), Kept) /\ Tells(Messages(NoSession), Kept)
  BY KeptType, NothingTells DEF Current, Messages
<1>7. (RowOf(r) <=> db # NoSession) /\ (redis # NoSession => BelongsTo(redis, r))
  BY <1>2, Mine DEF RowOf, BelongsTo, Held
<1>8. CASE ReadRedis(r)
  <2>1. Got(r, redis)
    BY <1>7, <1>8 DEF ReadRedis
  <2>2. Tells(Messages(redis), Kept)
    BY <1>5, <1>6, <1>8 DEF ReadRedis
  <2>3. QED
    BY <1>1, <1>3, <1>4, <2>1, <2>2
<1>9. CASE MissRedis(r)
  <2>1. CASE UseDB
    <3>1. Waits(r) /\ prompt' = prompt
      <4>1. GoTo(r, "getFromDB") /\ UNCHANGED <<work, prompt>>
        BY <1>9, <2>1 DEF MissRedis
      <4>2. work[r] = NoSession
        BY <1>9 DEF MissRedis, SessionInv, AtHand, Saving
      <4>3. QED
        BY <1>1, <2>1, <4>1, <4>2 DEF GoTo, Waits, SessionInv, TypeOK
    <3>2. QED
      BY <1>1, <1>3, <3>1
  <2>2. CASE ~UseDB
    <3>1. Got(r, NoSession)
      BY <1>9, <2>2 DEF MissRedis
    <3>2. QED
      BY <1>1, <1>3, <1>4, <1>6, <2>2, <3>1
  <2>3. QED
    BY <2>1, <2>2
<1>10. CASE ReadDB(r)
  <2>1. UseDB
    BY <1>10 DEF ReadDB, SessionInv, Writers
  <2>2. CASE RowOf(r) /\ UseRedis
    <3>1. work' = [work EXCEPT ![r] = db] /\ GoTo(r, "fill") /\ UNCHANGED prompt
      BY <1>10, <2>2 DEF ReadDB
    <3>2. Fetches(r) /\ prompt' = prompt
      BY <1>1, <2>1, <2>2, <3>1 DEF GoTo, Fetches, SessionInv, TypeOK
    <3>3. QED
      BY <1>1, <1>3, <3>2
  <2>3. CASE ~(RowOf(r) /\ UseRedis)
    <3>1. Got(r, IF RowOf(r) THEN db ELSE NoSession)
      BY <1>10, <2>3 DEF ReadDB
    <3>2. Got(r, db)
      BY <1>7, <3>1
    <3>3. QED
      BY <1>1, <1>3, <1>4, <1>5, <2>1, <3>2
  <2>4. QED
    BY <2>2, <2>3
<1>11. CASE ReadDBFails(r)
  BY <1>11, TurnsQuiet DEF ReadDBFails
<1>12. CASE Fill(r)
  <2>1. step[r] = "fill" /\ work[r] = db /\ UseDB
    BY <1>2, <1>12 DEF Fill, Current, SessionInv, Writers
  <2>2. Got(r, db)
    BY <1>12, <2>1 DEF Fill
  <2>3. QED
    BY <1>1, <1>3, <1>4, <1>5, <2>1, <2>2
<1>13. QED
  BY <1>8, <1>9, <1>10, <1>11, <1>12 DEF GetSession

\* A write succeeds, and its last step returns.
LEMMA TurnSave ==
  ASSUME SessionInv, InTurns, Orderly, Current, NEW r \in Requests, Save(r)
  PROVE  /\ prompt' = prompt /\ UNCHANGED <<setup, answered, clearVars>>
         /\ \/ /\ Writes(r) /\ UNCHANGED <<db, added>>
               /\ redis' \in {NoSession, work[r]}
               /\ step'[r] = "insert" => db = NoSession
            \/ /\ Leaves(r) /\ added' = Append(added, AddedBy(r))
               /\ UseDB => db' = work[r] /\ redis' \in {NoSession, work[r]}
               /\ ~UseDB => redis' = IF UseRedis THEN work[r] ELSE NoSession
<1>1. Client(r) /\ r \in DOMAIN User /\ r \in Active
  BY ClientActive DEF Client
<1>2. /\ phase[r] \in Adding /\ step[r] \in Saving /\ (step[r] \in {"update", "insert"} => UseDB)
      /\ prompt' = prompt /\ UNCHANGED <<setup, answered, clearVars>>
  BY SaveForm DEF SessionInv, Writers
<1>3. (RowOf(r) <=> db # NoSession) /\ (~UseRedis => redis = NoSession)
  BY <1>1, Mine DEF RowOf, Held, SessionInv, ClearInv
<1>4. CASE SaveToRedis(r)
  <2>1. redis' = IF UseRedis THEN work[r] ELSE NoSession
    BY <1>3, <1>4, TurnsQuiet DEF SaveToRedis, SavesToRedis
  <2>2. CASE UseDB
    <3>1. GoTo(r, "update") /\ UNCHANGED <<work, added, db>>
      BY <1>4, <2>2 DEF SaveToRedis
    <3>2. Writes(r) /\ step'[r] = "update"
      BY <1>2, <2>2, <3>1 DEF GoTo, Writes, SessionInv, TypeOK
    <3>3. QED
      BY <1>2, <2>1, <3>1, <3>2
  <2>3. CASE ~UseDB
    <3>1. AddReturns(r)
      BY <1>4, <2>3 DEF SaveToRedis
    <3>2. Leaves(r)
      BY <1>2, <3>1, ProceedForm DEF AddReturns, SessionInv
    <3>3. QED
      BY <1>2, <2>1, <2>3, <3>1, <3>2 DEF AddReturns, AddedBy
  <2>4. QED
    BY <2>2, <2>3
<1>5. CASE Update(r)
  <2>1. redis' = redis /\ redis \in {NoSession, work[r]} /\ UseDB
    BY <1>1, <1>2, <1>5 DEF Update, Current
  <2>2. CASE RowOf(r)
    <3>1. db' = work[r] /\ AddReturns(r)
      BY <1>5, <2>2 DEF Update
    <3>2. Leaves(r)
      BY <1>2, <3>1, ProceedForm DEF AddReturns, SessionInv
    <3>3. QED
      BY <1>2, <2>1, <3>1, <3>2 DEF AddReturns, AddedBy
  <2>3. CASE ~RowOf(r)
    <3>1. GoTo(r, "insert") /\ UNCHANGED <<db, work, added>>
      BY <1>5, <2>3 DEF Update
    <3>2. Writes(r)
      BY <1>2, <2>1, <3>1 DEF GoTo, Writes, SessionInv, TypeOK
    <3>3. QED
      BY <1>2, <1>3, <2>1, <2>3, <3>1, <3>2
  <2>4. QED
    BY <2>2, <2>3
<1>6. CASE Insert(r)
  <2>1. redis' = redis /\ redis \in {NoSession, work[r]} /\ UseDB /\ db = NoSession
    BY <1>1, <1>2, <1>6 DEF Insert, Current
  <2>2. db' = work[r] /\ AddReturns(r)
    BY <1>6, <2>1 DEF Insert
  <2>3. Leaves(r)
    BY <1>2, <2>2, ProceedForm DEF AddReturns, SessionInv
  <2>4. QED
    BY <1>2, <2>1, <2>2, <2>3 DEF AddReturns, AddedBy
<1>7. CASE SaveToDBFails(r)
  BY <1>7, TurnsQuiet DEF SaveToDBFails
<1>8. QED
  BY <1>4, <1>5, <1>6, <1>7 DEF Save

-----------------------------------------------------------------------------
(* The steps preserve Turns.                                               *)

LEMMA BeginForm ==
  ASSUME SessionInv, InTurns, Orderly, NEW r \in Requests, Begin(r)
  PROVE  /\ Active = {} /\ Active' = {r} /\ ~Clearing /\ clear' = clear /\ step[r] = "get"
         /\ phase'[r] \in {"context", "user"}
         /\ UNCHANGED <<stores, step, work, prompt, answered, added, cleared>>
         /\ \A x \in Requests : x # r => phase'[x] = phase[x]
<1>1. ~Clearing /\ Cardinality(Active) < 1
  BY TurnsQuiet DEF Begin
<1>2. Active = {}
  <2>1. SUFFICES ASSUME NEW x \in Active PROVE FALSE
    OBVIOUS
  <2>2. Active = {x}
    BY DEF Orderly
  <2>3. Cardinality(Active) = 1
    BY <2>2, FS_Singleton
  <2>4. QED
    BY <1>1, <2>3
<1>3. \E w \in {"context", "user"} : phase' = [phase EXCEPT ![r] = w]
  BY DEF Begin
<1>4. phase'[r] \in {"context", "user"} /\ \A x \in Requests : x # r => phase'[x] = phase[x]
  BY <1>3 DEF SessionInv, TypeOK
<1>5. Active' = {r}
  BY <1>2, <1>4 DEF Active
<1>6. step[r] = "get"
  BY DEF Begin, SessionInv, Begun, Reading, Adding
<1>7. QED
  BY <1>1, <1>2, <1>4, <1>5, <1>6 DEF Begin

LEMMA ClearForm ==
  ASSUME SessionInv, InTurns, Orderly, NEW u \in setup.clears,
         ClearKey(u) \/ ClearRow(u) \/ ClearRowFails
  PROVE  /\ Active = {} /\ Active' = {} /\ redis' = NoSession /\ clear' \in {"alone", "done"}
         /\ UNCHANGED <<setup, phase, step, work, prompt, answered>>
         /\ \/ UseDB /\ clear' = "alone" /\ UNCHANGED <<db, added>>
            \/ db' = NoSession /\ clear' = "done" /\ added' = <<>>
<1>1. CASE ClearKey(u)
  <2>1. Active = {} /\ UNCHANGED <<setup, db, phase, step, work, prompt, answered>>
    BY <1>1, TurnsQuiet DEF ClearKey
  <2>2. redis' = NoSession
    BY <1>1, TurnsQuiet DEF ClearKey, SessionInv, ClearInv, NoKey
  <2>3. IF UseDB THEN clear' = "alone" /\ UNCHANGED added ELSE clear' = "done" /\ added' = <<>>
    BY <1>1, <2>1, TurnsQuiet DEF ClearKey, ClearReturns
  <2>4. ~UseDB => db' = NoSession
    BY <2>1 DEF SessionInv, ClearInv
  <2>5. QED
    BY <2>1, <2>2, <2>3, <2>4 DEF Active
<1>2. CASE ClearRow(u)
  <2>1. /\ Clearing /\ UNCHANGED <<setup, redis, phase, step, work, prompt, answered>>
        /\ clear' = "done" /\ added' = <<>>
        /\ db' = IF db # NoSession /\ db.user = u THEN NoSession ELSE db
    BY <1>2 DEF ClearRow, ClearReturns
  <2>2. Active = {} /\ redis = NoSession
    BY <2>1 DEF Orderly, SessionInv, ClearInv, Clearing
  <2>3. db # NoSession => db.user = u
    BY TurnsQuiet DEF Orderly, Held
  <2>4. QED
    BY <2>1, <2>2, <2>3 DEF Active
<1>3. CASE ClearRowFails
  BY <1>3, TurnsQuiet DEF ClearRowFails
<1>4. QED
  BY <1>1, <1>2, <1>3

LEMMA OrderlyStep ==
  ASSUME SessionInv, InTurns, Orderly, [Next]_vars
  PROVE  Orderly'
<1>1. setup' = setup
  BY ClientForm, OthersForm, StepCases DEF SessionInv
<1>2. \A s \in Held' \ {NoSession} : \E x \in DOMAIN User : s.user = User[x]
  <2>1. ASSUME NEW r \in Requests, Client(r), Grows(r)
        PROVE  r \in DOMAIN User /\ work'[r].user = User[r]
    BY <2>1, ClientForm DEF SessionInv, Grows, Copy
  <2>2. QED
    BY <2>1, HeldStep DEF Orderly, SessionInv
<1>3. (\A s \in Held \ {NoSession} : \E r \in DOMAIN User : s.user = User[r])'
  BY <1>1, <1>2 DEF User
<1>4. ASSUME NEW r \in Requests, Client(r) PROVE Orderly'
  BY <1>3, <1>4, ClientActive DEF Orderly, Clearing
<1>5. ASSUME NEW r \in Requests, Begin(r) PROVE Orderly'
  BY <1>3, <1>5, BeginForm DEF Orderly, Clearing
<1>6. ASSUME NEW u \in setup.clears, ClearKey(u) \/ ClearRow(u) \/ ClearRowFails PROVE Orderly'
  BY <1>3, <1>6, ClearForm DEF Orderly, Clearing
<1>7. CASE Expire \/ UNCHANGED vars
  BY <1>3, <1>7 DEF Expire, vars, clearVars, Orderly, Clearing, Active
<1>8. QED
  BY <1>4, <1>5, <1>6, <1>7, StepCases DEF Others

LEMMA CurrentStep ==
  ASSUME SessionInv, InTurns, Orderly, Current, [Next]_vars
  PROVE  Current'
<1>1. setup' = setup
  BY ClientForm, OthersForm, StepCases DEF SessionInv
<1> USE DEF Saving
<1>2. ASSUME NEW r \in Requests, GetSession(r) PROVE Current'
  <2>1. /\ step[r] \notin Saving /\ phase[r] \in Reading
        /\ redis' \in {redis, NoSession, db} /\ (redis' # redis => UseDB)
        /\ UNCHANGED <<db, added>>
        /\ \/ (Waits(r) \/ Fetches(r)) /\ prompt' = prompt
           \/ \E s \in Own(r) : Got(r, s) /\ Tells(Messages(s), Kept)
    BY <1>2, TurnRead
  <2>2. r \in Active /\ Active' \subseteq {r} /\ r \in DOMAIN User /\ \A x \in Active : x = r
    BY <1>2, ClientActive DEF Client
  <2>3. UseDB => redis \in {NoSession, db}
    BY <2>1, <2>2 DEF Current
  <2>4. /\ step'[r] = "fill" => work'[r] = db
        /\ step'[r] \in Saving => Tells(Messages(work'[r]), LastOf(Append(added, AddedBy(r)), MaxMessages))
        /\ phase'[r] = phase[r] \/ step'[r] \notin Saving
        /\ step'[r] \notin {"insert", "update"}
    <3>1. CASE Waits(r) \/ Fetches(r)
      BY <3>1 DEF Waits, Fetches
    <3>2. ASSUME NEW s \in Own(r), Got(r, s), Tells(Messages(s), Kept)
          PROVE  /\ step'[r] = "fill" => work'[r] = db
                 /\ step'[r] \in Saving =>
                      Tells(Messages(work'[r]), LastOf(Append(added, AddedBy(r)), MaxMessages))
                 /\ phase'[r] = phase[r] \/ step'[r] \notin Saving
                 /\ step'[r] \notin {"insert", "update"}
      <4>1. CASE phase[r] \in Adding
        <5>1. work'[r] = Copy(r, s) /\ step'[r] = "save" /\ phase' = phase
          BY <3>2, <4>1 DEF Got, Adding, Copy, Owner, GoTo, SessionInv, TypeOK
        <5>2. Messages(s) \in Seq(Message) /\ AddedBy(r) \in Message /\ added \in Seq(Message)
          BY <4>1, HeldType, MessagesType, KeptType DEF Own, AddedBy, Message, Adding, SessionInv
        <5>3. Tells(Appended(Messages(s), AddedBy(r)), LastOf(Append(added, AddedBy(r)), MaxMessages))
          BY <3>2, <5>2, TellsMore DEF Kept
        <5>4. Copy(r, s) \in Session
          BY <2>2, <4>1, CopyType DEF SessionInv
        <5>5. Messages(work'[r]) = Appended(Messages(s), AddedBy(r))
          BY <5>1, <5>4, NoSessionIsNone DEF Messages, Copy, AddedBy
        <5>6. QED
          BY <5>1, <5>3, <5>5
      <4>2. CASE phase[r] \notin Adding
        BY <2>1, <3>2, <4>2 DEF Got, Proceed, Reading, SessionInv, TypeOK
      <4>3. QED
        BY <4>1, <4>2
    <3>3. QED
      BY <2>1, <3>1, <3>2
  <2>5. Tells(Messages(IF UseDB THEN db' ELSE redis'), Kept)
    BY <2>1, KeptType, NothingTells DEF Current, Messages
  <2>6. UseDB => redis' \in {NoSession, db}
    BY <2>1, <2>3
  <2>7. step'[r] \in Saving => Tells(Messages(work'[r]), LastOf(Append(added, [request |-> r, role |-> phase'[r]]), MaxMessages))
    BY <2>4 DEF AddedBy
  <2>8. QED
    BY <1>1, <2>1, <2>2, <2>4, <2>5, <2>6, <2>7 DEF Current, Kept, With, AddedBy, Tells, Messages, UseDB
<1>3. ASSUME NEW r \in Requests, Save(r) PROVE Current'
  <2>1. r \in Active /\ Active' \subseteq {r} /\ \A x \in Active : x = r
    BY <1>3, ClientActive DEF Client
  <2>2. step[r] \in Saving
    BY <1>3, SaveForm DEF SessionInv
  <2>3. Tells(Messages(work[r]), With(AddedBy(r)))
    BY <2>1, <2>2 DEF Current
  <2>4. CASE /\ Writes(r) /\ UNCHANGED <<db, added>> /\ redis' \in {NoSession, work[r]}
             /\ step'[r] = "insert" => db = NoSession
    <3>1. /\ UseDB /\ step'[r] \in {"update", "insert"} /\ work'[r] = work[r]
          /\ phase'[r] = phase[r]
      BY <2>4 DEF Writes
    <3>2. r \in Active'
      BY <2>1, <3>1 DEF Active
    <3>3. Tells(Messages(db), Kept)
      BY <3>1 DEF Current
    <3>4. QED
      BY <1>1, <2>1, <2>3, <2>4, <3>1, <3>2, <3>3
         DEF Current, Kept, With, AddedBy, Tells, Messages, UseDB
  <2>5. CASE /\ Leaves(r) /\ added' = Append(added, AddedBy(r))
             /\ UseDB => db' = work[r] /\ redis' \in {NoSession, work[r]}
             /\ ~UseDB => redis' = IF UseRedis THEN work[r] ELSE NoSession
    <3>1. step'[r] = "get"
      BY <2>5 DEF Leaves
    <3>2. With(AddedBy(r)) \in Seq(Message)
      <4>1. AddedBy(r) \in Message
        BY <1>3, SaveForm DEF AddedBy, Message, Adding, SessionInv
      <4>2. Append(added, AddedBy(r)) \in Seq(Message)
        BY <4>1, KeptType, AppendProperties
      <4>3. QED
        BY <4>2, LastOfProperties, SessionAssumption DEF With
    <3>3. Tells(Messages(IF UseDB THEN db' ELSE redis'), With(AddedBy(r)))
      <4>1. ~UseDB => Tells(Messages(NoSession), With(AddedBy(r)))
        BY <3>2, NothingTells DEF Messages
      <4>2. QED
        BY <2>3, <2>5, <4>1
    <3>4. QED
      BY <1>1, <2>1, <2>5, <3>1, <3>3 DEF Current, Kept, With, Tells, Messages, UseDB
  <2>6. QED
    BY <1>3, <2>4, <2>5, TurnSave
<1>4. ASSUME NEW r \in Requests, Answer(r) \/ Hit(r) \/ Fail(r) PROVE Current'
  <2>1. r \in Active /\ Active' \subseteq {r} /\ \A x \in Active : x = r
    BY <1>4, ClientActive DEF Client
  <2>2. UNCHANGED <<redis, db, added>> /\ step[r] = "get" /\ step'[r] = "get"
    BY <1>4, AnswerForm DEF SessionInv, stores, Leaves, Begun, Reading, Adding
  <2>3. QED
    BY <1>1, <2>1, <2>2 DEF Current, Kept, Tells, Messages, UseDB
<1>5. ASSUME NEW r \in Requests, Begin(r) PROVE Current'
  <2>1. /\ Active = {} /\ Active' = {r} /\ step'[r] = "get"
        /\ UNCHANGED <<redis, db, added>>
    BY <1>5, BeginForm DEF stores
  <2>2. QED
    BY <1>1, <2>1 DEF Current, Kept, Tells, Messages, UseDB
<1>6. ASSUME NEW u \in setup.clears, ClearKey(u) \/ ClearRow(u) \/ ClearRowFails PROVE Current'
  <2>1. Active' = {} /\ redis' = NoSession
    BY <1>6, ClearForm
  <2>2. CASE UseDB /\ UNCHANGED <<db, added>>
    BY <1>1, <2>1, <2>2 DEF Current, Kept, Tells, Messages, UseDB
  <2>3. CASE db' = NoSession /\ added' = <<>>
    <3>1. LastOf(<<>>, MaxMessages) = <<>>
      BY LastOfNothing, SessionAssumption
    <3>2. Tells(<<>>, LastOf(<<>>, MaxMessages))
      BY <3>1, NothingTells, EmptySeq
    <3>3. QED
      BY <1>1, <2>1, <2>3, <3>2 DEF Current, Kept, Tells, Messages, UseDB
  <2>4. QED
    BY <1>6, <2>2, <2>3, ClearForm
<1>7. CASE Expire \/ UNCHANGED vars
  <2>1. redis' \in {redis, NoSession} /\ UNCHANGED <<db, added, phase, step, work>>
    BY <1>7 DEF Expire, vars, stores
  <2>2. Tells(Messages(IF UseDB THEN db' ELSE redis'), Kept)
    BY <2>1, KeptType, NothingTells DEF Current, Messages
  <2>3. QED
    BY <1>1, <2>1, <2>2 DEF Current, Kept, With, AddedBy, Tells, Messages, UseDB, Active
<1>8. QED
  BY <1>2, <1>3, <1>4, <1>5, <1>6, <1>7, StepCases DEF Others, Client

\* What has been added stays added.
LEMMA ContainsAppend ==
  ASSUME NEW s \in Seq(Message), NEW m \in Message
  PROVE  /\ Contains(Append(s, m), m)
         /\ \A e : Contains(s, e) => Contains(Append(s, m), e)
<1> DEFINE t == Append(s, m)
<1>1. /\ Len(t) = Len(s) + 1 /\ t[Len(s) + 1] = m /\ Len(s) \in Nat
      /\ \A i \in 1 .. Len(s) : t[i] = s[i]
  BY AppendProperties, LenProperties
<1> HIDE DEF t
<1>2. Contains(t, m)
  <2>1. Len(s) + 1 \in 1 .. Len(t)
    BY <1>1
  <2>2. QED
    BY <1>1, <2>1 DEF Contains
<1>3. ASSUME NEW e, Contains(s, e) PROVE Contains(t, e)
  <2>1. PICK i \in 1 .. Len(s) : s[i] = e
    BY <1>3 DEF Contains
  <2>2. i \in 1 .. Len(t) /\ t[i] = e
    BY <1>1, <2>1
  <2>3. QED
    BY <2>2 DEF Contains
<1>4. QED
  BY <1>2, <1>3 DEF t

\* The two halves of Conversed, for one request.
Told(r) ==
  r \in answered =>
    \/ phase[r] = "assistant"
    \/ phase[r] = "done" /\ (clear = "off" => Contains(added, [request |-> r, role |-> "assistant"]))

Asked(r) == phase[r] = "answer" => Tells(Front(prompt[r]), LastOf(Kept, ContextWindow))

\* A request that is not the one that moves keeps what it was told.
LEMMA ToldKept ==
  ASSUME NEW x, Told(x), x \in answered' => x \in answered,
         phase'[x] = phase[x], clear' = clear,
         \A e : Contains(added, e) => Contains(added', e)
  PROVE  Told(x)'
BY DEF Told

LEMMA AskedKept ==
  ASSUME NEW x, Asked(x), setup' = setup, phase'[x] = phase[x] \/ phase'[x] # "answer",
         prompt'[x] = prompt[x], added' = added
  PROVE  Asked(x)'
BY DEF Asked, Kept, Tells, UseDB

LEMMA ConversedParts ==
  ASSUME SessionInv
  PROVE  Conversed <=> \A r \in Requests : Told(r) /\ Asked(r)
BY DEF Conversed, Told, Asked, SessionInv, TypeOK

\* The prompt that is built carries the end of what is kept.
LEMMA PromptBuilt ==
  ASSUME SessionInv, NEW r \in Requests, r \in DOMAIN User, NEW s \in Own(r),
         Tells(Messages(s), Kept)
  PROVE  Tells(Front(Append(Window(Messages(s)), New(r))), LastOf(Kept, ContextWindow))
<1>1. Messages(s) \in Seq(Message) /\ Kept \in Seq(Message) /\ ContextWindow \in Nat
  BY HeldType, MessagesType, KeptType, SessionAssumption DEF Own, SessionInv
<1>2. Window(Messages(s)) \in Seq(Message) /\ New(r) \in Message
  BY <1>1, LastOfProperties DEF Window, New, Message
<1>3. Front(Append(Window(Messages(s)), New(r))) = Window(Messages(s))
  BY <1>2, FrontOfAppend
<1>4. QED
  BY <1>1, <1>3, TellsWindow DEF Window

LEMMA ConversedStep ==
  ASSUME SessionInv, SessionInv', InTurns, Orderly, Current, Conversed, [Next]_vars
  PROVE  Conversed'
<1>1. setup' = setup
  BY ClientForm, OthersForm, StepCases DEF SessionInv
<1>2. \A x \in Requests : Told(x) /\ Asked(x)
  BY ConversedParts
<1>3. SUFFICES \A x \in Requests : Told(x)' /\ Asked(x)'
  BY DEF Conversed, Told, Asked, SessionInv, TypeOK
<1>4. ASSUME NEW r \in Requests, GetSession(r), NEW x \in Requests PROVE Told(x)' /\ Asked(x)'
  <2>1. /\ step[r] \notin Saving /\ phase[r] \in Reading
        /\ UNCHANGED <<answered, added, clear>>
        /\ \/ (Waits(r) \/ Fetches(r)) /\ prompt' = prompt
           \/ \E s \in Own(r) : Got(r, s) /\ Tells(Messages(s), Kept)
    BY <1>4, TurnRead DEF clearVars
  <2>2. r \in DOMAIN User
        /\ (x # r => phase'[x] = phase[x] /\ prompt'[x] = prompt[x])
    BY <1>4, ClientActive DEF Client
  <2>3. CASE x # r
    BY <1>1, <1>2, <2>1, <2>2, <2>3, ToldKept, AskedKept
  <2>4. CASE x = r /\ (Waits(r) \/ Fetches(r)) /\ prompt' = prompt
    <3>1. phase'[x] = phase[x]
      BY <2>4 DEF Waits, Fetches
    <3>2. QED
      BY <1>1, <1>2, <2>1, <2>4, <3>1, ToldKept, AskedKept
  <2>5. ASSUME x = r, NEW s \in Own(r), Got(r, s), Tells(Messages(s), Kept)
        PROVE  Told(x)' /\ Asked(x)'
    <3>1. CASE phase[r] = "context" \/ phase[r] \in Adding
      <4>1. /\ prompt' = prompt /\ phase'[r] # "answer"
            /\ phase'[r] = phase[r] \/ (phase[r] = "context" /\ phase'[r] = "user")
        BY <2>5, <3>1, Order DEF Got, Proceed, GoTo, Adding, SessionInv, TypeOK
      <4>2. r \in answered => phase[r] = "assistant"
        BY <1>2, <3>1 DEF Told, Adding
      <4>3. Told(r)'
        BY <2>1, <4>1, <4>2 DEF Told
      <4>4. QED
        BY <2>5, <4>1, <4>3 DEF Asked
    <3>2. CASE phase[r] = "build"
      <4>1. /\ prompt'[r] = Append(Window(Messages(s)), New(r)) /\ phase'[r] = "answer"
        BY <2>5, <3>2, Order DEF Got, Proceed, Adding, SessionInv, TypeOK
      <4>2. Told(r)'
        BY <1>2, <2>1, <3>2 DEF Told
      <4>3. Tells(Front(prompt'[r]), LastOf(Kept, ContextWindow))
        BY <2>2, <2>5, <4>1, PromptBuilt
      <4>4. Asked(r)'
        BY <1>1, <2>1, <4>3 DEF Asked, Kept, Tells, UseDB
      <4>5. QED
        BY <2>5, <4>2, <4>4
    <3>3. QED
      BY <2>1, <3>1, <3>2 DEF Reading
  <2>6. QED
    BY <2>1, <2>3, <2>4, <2>5
<1>5. ASSUME NEW r \in Requests, Save(r), NEW x \in Requests PROVE Told(x)' /\ Asked(x)'
  <2>1. /\ prompt' = prompt /\ UNCHANGED <<answered, clear>>
        /\ \/ Writes(r) /\ UNCHANGED added
           \/ Leaves(r) /\ added' = Append(added, AddedBy(r))
    BY <1>5, TurnSave DEF clearVars
  <2>2. /\ phase[r] \in Adding
        /\ (\A y \in Active : y = r) /\ (x # r => phase'[x] = phase[x])
    BY <1>5, ClientActive, SaveForm DEF Client, SessionInv
  <2>3. AddedBy(r) \in Message /\ added \in Seq(Message)
    BY <2>2, KeptType DEF AddedBy, Message, Adding
  <2>4. \A e : Contains(added, e) => Contains(added', e)
    BY <2>1, <2>3, ContainsAppend
  <2>5. CASE x # r
    <3>1. phase'[x] # "answer"
      BY <2>2, <2>5 DEF Active
    <3>2. QED
      BY <1>2, <2>1, <2>2, <2>4, <2>5, <3>1, ToldKept DEF Asked
  <2>6. CASE x = r /\ Writes(r) /\ UNCHANGED added
    <3>1. phase'[x] = phase[x]
      BY <2>6 DEF Writes
    <3>2. QED
      BY <1>1, <1>2, <2>1, <2>6, <3>1, ToldKept, AskedKept
  <2>7. CASE x = r /\ Leaves(r) /\ added' = Append(added, AddedBy(r))
    <3>1. phase'[r] = (IF phase[r] = "user" THEN "build" ELSE "done")
      BY <2>2, <2>7, Order DEF Leaves, Adding
    <3>2. Asked(r)'
      BY <3>1 DEF Asked
    <3>3. CASE phase[r] = "user"
      BY <1>2, <2>1, <2>7, <3>2, <3>3 DEF Told
    <3>4. CASE phase[r] = "assistant"
      <4>1. Contains(added', [request |-> r, role |-> "assistant"])
        BY <2>3, <2>7, <3>4, ContainsAppend DEF AddedBy
      <4>2. QED
        BY <2>7, <3>1, <3>2, <3>4, <4>1 DEF Told
    <3>5. QED
      BY <2>2, <3>3, <3>4 DEF Adding
  <2>8. QED
    BY <2>1, <2>5, <2>6, <2>7
<1>6. ASSUME NEW r \in Requests, Answer(r) \/ Hit(r) \/ Fail(r), NEW x \in Requests
      PROVE  Told(x)' /\ Asked(x)'
  <2>1. /\ phase[r] = "answer" /\ prompt' = prompt /\ UNCHANGED <<added, clear>>
        /\ (x # r => phase'[x] = phase[x])
    BY <1>6, AnswerForm, ClientActive DEF Client, SessionInv, clearVars
  <2>2. r \notin answered
    BY <1>2, <2>1 DEF Told
  <2>3. CASE x # r
    <3>1. x \in answered' => x \in answered
      BY <1>6, <2>3 DEF Answer, Hit, Fail
    <3>2. QED
      BY <1>1, <1>2, <2>1, <2>3, <3>1, ToldKept, AskedKept
  <2>4. CASE x = r /\ Answer(r)
    <3>1. phase'[r] = "assistant"
      BY <2>1, <2>4, Order DEF Answer, Proceed, SessionInv, TypeOK
    <3>2. QED
      BY <2>4, <3>1 DEF Told, Asked
  <2>5. CASE x = r /\ Fail(r)
    <3>1. phase'[r] = "done" /\ answered' = answered
      BY <2>5 DEF Fail, Ends, SessionInv, TypeOK
    <3>2. QED
      BY <2>2, <2>5, <3>1 DEF Told, Asked
  <2>6. ~Hit(r)
    BY TurnsQuiet DEF Hit
  <2>7. QED
    BY <1>6, <2>3, <2>4, <2>5, <2>6
<1>7. ASSUME NEW r \in Requests, Begin(r), NEW x \in Requests PROVE Told(x)' /\ Asked(x)'
  <2>1. /\ phase'[r] \in {"context", "user"} /\ (x # r => phase'[x] = phase[x])
        /\ UNCHANGED <<prompt, answered, added, clear>>
    BY <1>7, BeginForm
  <2>2. r \notin answered
    BY <1>2, <1>7 DEF Told, Begin
  <2>3. CASE x # r
    BY <1>1, <1>2, <2>1, <2>3, ToldKept, AskedKept
  <2>4. CASE x = r
    BY <2>1, <2>2, <2>4 DEF Told, Asked
  <2>5. QED
    BY <2>3, <2>4
<1>8. ASSUME NEW u \in setup.clears, ClearKey(u) \/ ClearRow(u) \/ ClearRowFails,
             NEW x \in Requests
      PROVE  Told(x)' /\ Asked(x)'
  <2>1. Active = {} /\ clear' # "off" /\ UNCHANGED <<phase, answered>>
    BY <1>8, ClearForm
  <2>2. phase[x] \in {"new", "done"}
    BY <2>1 DEF Active
  <2>3. QED
    BY <1>2, <2>1, <2>2 DEF Told, Asked
<1>9. ASSUME Expire \/ UNCHANGED vars, NEW x \in Requests PROVE Told(x)' /\ Asked(x)'
  <2>1. UNCHANGED <<phase, prompt, answered, added, clear>>
    BY <1>9 DEF Expire, vars, clearVars
  <2>2. QED
    BY <1>1, <1>2, <2>1, ToldKept, AskedKept
<1>10. QED
  BY <1>4, <1>5, <1>6, <1>7, <1>8, <1>9, StepCases DEF Others, Client

LEMMA TurnsInit == Init => Turns
<1> SUFFICES ASSUME Init PROVE Turns
  OBVIOUS
<1> USE DEF Init
<1>1. \A x \in Requests : phase[x] = "new" /\ step[x] = "get" /\ work[x] = NoSession
  OBVIOUS
<1>2. Active = {}
  BY <1>1 DEF Active
<1>3. Orderly
  BY <1>1, <1>2 DEF Orderly, Clearing, Held
<1>4. Current
  <2>1. Kept = <<>>
    BY LastOfNothing, SessionAssumption DEF Kept
  <2>2. Tells(<<>>, Kept)
    BY <2>1, NothingTells, EmptySeq
  <2>3. QED
    BY <1>2, <2>2 DEF Current, Messages
<1>5. Conversed
  BY <1>1 DEF Conversed
<1>6. QED
  BY <1>3, <1>4, <1>5 DEF Turns

-----------------------------------------------------------------------------
\* Turns is inductive, given SessionInv.
THEOREM TurnsInductive == Spec => [](SessionInv /\ Turns)
<1>1. SessionInv /\ SessionInv' /\ Turns /\ [Next]_vars => Turns'
  <2> SUFFICES ASSUME SessionInv, SessionInv', Turns, [Next]_vars, InTurns'
               PROVE  Orderly' /\ Current' /\ Conversed'
    BY DEF Turns
  <2>1. setup' = setup
    BY ClientForm, OthersForm, StepCases DEF SessionInv
  <2>2. InTurns
    BY <2>1 DEF InTurns, Faults, User
  <2>3. Orderly /\ Current /\ Conversed
    BY <2>2 DEF Turns
  <2>4. QED
    BY <2>2, <2>3, OrderlyStep, CurrentStep, ConversedStep
<1>2. QED
  BY <1>1, TurnsInit, SessionInductive, PTL DEF Spec

\* Of a client that waits for each answer, every message it sent and every answer
\* it got is in the history the stores keep, whatever expires and whichever
\* requests fail (AddMessage, manager.go 154-200; Generate, internal/ai/manager.go).
THEOREM NothingIsLost == Spec => []NothingLost
<1>1. ASSUME SessionInv, Turns PROVE NothingLost
  <2> SUFFICES ASSUME InTurns PROVE EveryMessageKept /\ AnswersKept
    BY DEF NothingLost
  <2>1. Current /\ Conversed
    BY <1>1 DEF Turns
  <2>2. EveryMessageKept
    BY <2>1 DEF Current, Kept, EveryMessageKept
  <2>3. AnswersKept
    BY <2>1 DEF Conversed, AnswersKept
  <2>4. QED
    BY <2>2, <2>3
<1>2. QED
  BY <1>1, TurnsInductive, PTL

\* Between the requests of such a client Redis and the row hold the same session,
\* unless the key has expired (saveSession, manager.go 188).
THEOREM StoresStayAgreed == Spec => []StoresAgree
<1>1. ASSUME SessionInv, Turns PROVE StoresAgree
  BY <1>1 DEF Turns, Current, StoresAgree, Idle
<1>2. QED
  BY <1>1, TurnsInductive, PTL

\* The prompt of such a client carries the last contextWindow messages of the
\* conversation ahead of the new one (buildPrompt of internal/ai/manager.go).
THEOREM PromptsHaveHistory == Spec => []PromptHasHistory
<1>1. ASSUME SessionInv, Turns PROVE PromptHasHistory
  BY <1>1 DEF Turns, Conversed, Kept, PromptHasHistory
<1>2. QED
  BY <1>1, TurnsInductive, PTL
=============================================================================
