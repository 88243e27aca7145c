---------------------------- MODULE SessionProofs ----------------------------
(***************************************************************************)
(* Machine-checked proofs about SessionStore, for any requests, users,     *)
(* deployments, faults and sizes of the history and of the context. The    *)
(* inductive invariant says of every copy of the history, in a store or in *)
(* the hands of a request, what the properties say of the stores (Sound),  *)
(* which messages may exist by now (Made) and who holds a copy at which    *)
(* step (AtHand).                                                          *)
(***************************************************************************)
EXTENDS SessionStore, SequenceTheorems, FiniteSetTheorems, TLAPS

Saving == {"save", "update", "insert"}

\* Only the requests of the client run, and only in a call that uses the
\* history is a request anywhere but at its beginning.
Begun ==
  \A r \in Requests :
    /\ phase[r] # "new" => r \in DOMAIN User
    /\ phase[r] \notin Reading => step[r] = "get"

\* A request has a copy at hand when it is about to write it, under the name of
\* its own user.
AtHand ==
  \A r \in Requests :
    IF step[r] \in {"fill"} \union Saving
    THEN work[r] # NoSession /\ work[r].user = User[r]
    ELSE work[r] = NoSession

\* Only AddMessage writes, and a step that needs a store is taken only where it
\* is there.
Writers ==
  \A r \in Requests :
    /\ step[r] \in Saving => phase[r] \in Adding
    /\ step[r] \in {"getFromDB", "fill", "update", "insert"} => UseDB
    /\ step[r] = "fill" => UseRedis

\* The messages that some request has appended to its copy by now.
Made ==
  {m \in Message :
     LET r == m.request IN
     IF m.role = "user"
     THEN phase[r] \in {"build", "answer", "assistant", "done"}
            \/ (phase[r] = "user" /\ step[r] \in Saving)
     ELSE phase[r] = "done" \/ (phase[r] = "assistant" /\ step[r] \in Saving)}

\* A copy belongs to one user, is well formed and holds nothing from the future
\* or from a cleared history.
Sound(s) ==
  s # NoSession =>
    /\ WellFormed(s.messages)
    /\ ToSet(s.messages) \subseteq Made \ cleared
    /\ \A i \in DOMAIN s.messages : User[s.messages[i].request] = s.user

Held == {redis, db} \union {work[r] : r \in Requests}

PromptsPure ==
  \A r \in DOMAIN User : \A i \in DOMAIN prompt[r] : User[prompt[r][i].request] = User[r]

\* A store that is not there is empty, and while ClearSession is between its
\* deletions and no request has met it, so is Redis.
ClearInv ==
  /\ ~UseRedis => redis = NoSession
  /\ ~UseDB => db = NoSession /\ ~Clearing
  /\ clear = "alone" => redis = NoSession /\ Active = {}
  /\ clear # "done" => cleared = {}
  /\ \A m \in cleared : phase[m.request] = "done"

SessionInv ==
  /\ TypeOK /\ Begun /\ AtHand /\ Writers
  /\ (\A s \in Held : Sound(s)) /\ PromptsPure /\ ClearInv

-----------------------------------------------------------------------------
(* Sequences.                                                              *)

LEMMA LastOfProperties ==
  ASSUME NEW S, NEW s \in Seq(S), NEW n \in Nat
  PROVE  /\ LastOf(s, n) \in Seq(S)
         /\ Len(LastOf(s, n)) = IF Len(s) > n THEN n ELSE Len(s)
         /\ \A i \in 1 .. Len(LastOf(s, n)) :
              /\ i + (Len(s) - Len(LastOf(s, n))) \in 1 .. Len(s)
              /\ LastOf(s, n)[i] = s[i + (Len(s) - Len(LastOf(s, n)))]
<1> DEFINE m == IF Len(s) > n THEN Len(s) - n + 1 ELSE 1
<1>1. /\ Len(s) \in Nat /\ m \in Int /\ m >= 1 /\ m <= Len(s) + 1
      /\ \A i \in 1 .. Len(s) : s[i] \in S
  BY LenProperties, ElementOfSeq
<1>2. \A i \in m .. Len(s) : s[i] \in S
  BY <1>1
<1>3. LastOf(s, n) = SubSeq(s, m, Len(s))
  BY DEF LastOf
<1>4. /\ LastOf(s, n) \in Seq(S)
      /\ Len(LastOf(s, n)) = IF m <= Len(s) THEN Len(s) - m + 1 ELSE 0
      /\ \A i \in 1 .. Len(s) - m + 1 : LastOf(s, n)[i] = s[m + i - 1]
  BY <1>1, <1>2, <1>3, SubSeqProperties
<1>5. Len(LastOf(s, n)) = Len(s) - m + 1
  BY <1>1, <1>4
<1>6. Len(LastOf(s, n)) = IF Len(s) > n THEN n ELSE Len(s)
  BY <1>1, <1>5
<1> HIDE DEF m
<1>7. ASSUME NEW i \in 1 .. Len(LastOf(s, n))
      PROVE  /\ i + (Len(s) - Len(LastOf(s, n))) \in 1 .. Len(s)
             /\ LastOf(s, n)[i] = s[i + (Len(s) - Len(LastOf(s, n)))]
  <2>1. i + (Len(s) - Len(LastOf(s, n))) = m + i - 1
    BY <1>1, <1>5
  <2>2. i \in 1 .. Len(s) - m + 1 /\ m + i - 1 \in 1 .. Len(s)
    BY <1>1, <1>5
  <2>3. LastOf(s, n)[i] = s[m + i - 1]
    BY <1>4, <2>2
  <2>4. QED
    BY <2>1, <2>2, <2>3
<1>8. QED
  BY <1>4, <1>6, <1>7

LEMMA AppendedProperties ==
  ASSUME NEW h \in Seq(Message), NEW m \in Message
  PROVE  /\ Appended(h, m) \in Seq(Message)
         /\ Len(Appended(h, m)) \in 1 .. MaxMessages
         /\ Appended(h, m)[Len(Appended(h, m))] = m
         /\ \A i, j \in 1 .. Len(Appended(h, m)) - 1 : i < j =>
              \E k, l \in 1 .. Len(h) :
                k < l /\ Appended(h, m)[i] = h[k] /\ Appended(h, m)[j] = h[l]
         /\ \A i \in 1 .. Len(Appended(h, m)) - 1 :
              \E k \in 1 .. Len(h) : Appended(h, m)[i] = h[k]
<1> DEFINE t == Append(h, m)
           a == LastOf(t, MaxMessages)
           d == Len(t) - Len(a)
<1>1. /\ t \in Seq(Message) /\ Len(t) = Len(h) + 1 /\ t[Len(h) + 1] = m
      /\ \A i \in 1 .. Len(h) : t[i] = h[i]
  BY AppendProperties
<1>2. Len(h) \in Nat /\ MaxMessages \in Nat /\ MaxMessages >= 1
  BY LenProperties, SessionAssumption
<1> HIDE DEF t
<1>3. /\ a \in Seq(Message) /\ Len(a) = IF Len(t) > MaxMessages THEN MaxMessages ELSE Len(t)
      /\ \A i \in 1 .. Len(a) : i + d \in 1 .. Len(t) /\ a[i] = t[i + d]
  BY <1>1, <1>2, LastOfProperties
<1>4. Appended(h, m) = a
  BY DEF Appended, t
<1> HIDE DEF a
<1>5. Len(a) \in 1 .. MaxMessages /\ d \in Nat /\ d + Len(a) = Len(t)
  BY <1>1, <1>2, <1>3
<1> HIDE DEF d
<1>6. a[Len(a)] = m
  BY <1>1, <1>2, <1>3, <1>5
<1>7. \A i \in 1 .. Len(a) - 1 : i + d \in 1 .. Len(h) /\ a[i] = h[i + d]
  BY <1>1, <1>2, <1>3, <1>5
<1>8. \A i, j \in 1 .. Len(a) - 1 : i < j => i + d < j + d
  BY <1>5
<1>9. QED
  BY <1>3, <1>4, <1>5, <1>6, <1>7, <1>8

-----------------------------------------------------------------------------
(* What a step of a request does.                                          *)

LEMMA FollowingIs ==
  ASSUME NEW r \in Requests, NEW n \in 1 .. 6, phase[r] = Phases[n]
  PROVE  Following(r) = Phases[1 + n]
<1>1. Len(Phases) = 7 /\ \A i, j \in 1 .. 7 : Phases[i] = Phases[j] => i = j
  BY DEF Phases
<1>2. (CHOOSE i \in 1 .. Len(Phases) - 1 : Phases[i] = phase[r]) = n
  BY <1>1
<1>3. QED
  BY <1>2 DEF Following

\* The call that comes next, by name.
LEMMA Order ==
  ASSUME NEW r \in Requests
  PROVE  /\ phase[r] = "context" => Following(r) = "user"
         /\ phase[r] = "user" => Following(r) = "build"
         /\ phase[r] = "build" => Following(r) = "answer"
         /\ phase[r] = "answer" => Following(r) = "assistant"
         /\ phase[r] = "assistant" => Following(r) = "done"
<1>1. \A n \in 1 .. 6 : phase[r] = Phases[n] => Following(r) = Phases[1 + n]
  BY FollowingIs
<1>2. /\ Phases[2] = "context" /\ Phases[3] = "user" /\ Phases[4] = "build"
      /\ Phases[5] = "answer" /\ Phases[6] = "assistant" /\ Phases[7] = "done"
  BY DEF Phases
<1>3. 2 \in 1 .. 6 /\ 3 \in 1 .. 6 /\ 4 \in 1 .. 6 /\ 5 \in 1 .. 6 /\ 6 \in 1 .. 6
  OBVIOUS
<1>4. QED
  BY <1>1, <1>2, <1>3

Client(r) == GetSession(r) \/ Save(r) \/ Answer(r) \/ Hit(r) \/ Fail(r)

Frame(r) ==
  /\ phase' = [phase EXCEPT ![r] = phase'[r]] /\ step' = [step EXCEPT ![r] = step'[r]]
  /\ work' = [work EXCEPT ![r] = work'[r]] /\ prompt' = [prompt EXCEPT ![r] = prompt'[r]]

\* The copies a request may go on with.
Own(r) == {s \in Held \union {NoSession} : s # NoSession => s.user = User[r]}

Copy(r, s) ==
  [user |-> User[r],
   messages |-> Appended(Messages(s), [request |-> r, role |-> phase[r]])]

Leaves(r) ==
  /\ phase'[r] = Following(r) \/ (phase[r] = "answer" /\ phase'[r] = "done")
  /\ step'[r] = "get" /\ work'[r] = NoSession

Waits(r) == /\ phase'[r] = phase[r] /\ phase[r] \in Reading /\ UseDB
            /\ step'[r] = "getFromDB" /\ work'[r] = NoSession

Fetches(r) == /\ phase'[r] = phase[r] /\ phase[r] \in Reading /\ UseDB /\ UseRedis
              /\ step'[r] = "fill" /\ work'[r] = db /\ RowOf(r)

Grows(r) == /\ phase'[r] = phase[r] /\ phase[r] \in Adding /\ step[r] \notin Saving
            /\ step'[r] = "save" /\ \E s \in Own(r) : work'[r] = Copy(r, s)

Writes(r) == /\ phase'[r] = phase[r] /\ step[r] \in Saving /\ UseDB
             /\ step'[r] \in {"update", "insert"} /\ work'[r] = work[r]

Asks(r) ==
  \/ prompt'[r] = prompt[r]
  \/ prompt'[r] = <<New(r)>>
  \/ \E s \in Own(r) : prompt'[r] = Append(Window(Messages(s)), New(r))

LEMMA GotForm ==
  ASSUME TypeOK, NEW r \in Requests, phase[r] \in Reading, step[r] \notin Saving,
         NEW s \in Own(r), Got(r, s)
  PROVE  Frame(r) /\ (Leaves(r) \/ Grows(r)) /\ Asks(r)
<1> USE DEF TypeOK
<1>1. CASE phase[r] = "context"
  BY <1>1 DEF Got, Proceed, Adding, Frame, Leaves, Asks
<1>2. CASE phase[r] = "build"
  <2>1. prompt'[r] = Append(Window(Messages(s)), New(r))
    BY <1>2 DEF Got, Adding
  <2>2. Frame(r) /\ Leaves(r)
    BY <1>2 DEF Got, Adding, Proceed, Frame, Leaves
  <2>3. QED
    BY <2>1, <2>2 DEF Asks
<1>3. CASE phase[r] \in Adding
  <2>1. work'[r] = Copy(r, s)
    BY <1>3 DEF Got, Adding, Copy, Owner
  <2>2. Frame(r) /\ prompt' = prompt /\ phase' = phase /\ step'[r] = "save"
    BY <1>3 DEF Got, Adding, GoTo, Frame
  <2>3. QED
    BY <1>3, <2>1, <2>2 DEF Grows, Asks
<1>4. QED
  BY <1>1, <1>2, <1>3 DEF Reading

LEMMA ProceedForm ==
  ASSUME TypeOK, NEW r \in Requests, Proceed(r), prompt' = prompt
  PROVE  Frame(r) /\ Leaves(r) /\ Asks(r)
BY DEF TypeOK, Proceed, Frame, Leaves, Asks

LEMMA GetFailsForm ==
  ASSUME TypeOK, NEW r \in Requests, GetFails(r)
  PROVE  Frame(r) /\ Leaves(r) /\ Asks(r)
BY DEF TypeOK, GetFails, Proceed, Frame, Leaves, Asks

\* What reading does to the request, and that it writes to Redis at most.
LEMMA ReadForm ==
  ASSUME TypeOK, Begun, AtHand, Writers, NEW r \in Requests, GetSession(r)
  PROVE  /\ phase[r] \in Reading /\ step[r] \notin Saving
         /\ Frame(r) /\ Asks(r)
         /\ Leaves(r) \/ Waits(r) \/ Fetches(r) \/ Grows(r)
         /\ redis' = redis \/ (redis' = work[r] /\ step[r] = "fill")
         /\ UNCHANGED <<setup, db, answered, added, clearVars>>
<1>1. NoSession \in Own(r) /\ (RowOf(r) => db \in Own(r))
      /\ (step[r] = "fill" => work[r] \in Own(r))
      /\ (redis # NoSession /\ BelongsTo(redis, r) => redis \in Own(r))
  BY DEF Own, Held, RowOf, BelongsTo, AtHand
<1>2. step[r] \in {"getFromDB", "fill"} => phase[r] \in Reading
  BY DEF Begun
<1>3. CASE ReadRedis(r)
  <2>1. phase[r] \in Reading /\ step[r] \notin Saving
    BY <1>3 DEF ReadRedis, Saving
  <2>2. Frame(r) /\ Asks(r) /\ (Leaves(r) \/ Grows(r))
    BY <1>1, <1>3, <2>1, GotForm, GetFailsForm DEF ReadRedis
  <2>3. QED
    BY <1>3, <2>1, <2>2 DEF ReadRedis, stores
<1>4. CASE MissRedis(r)
  <2>1. phase[r] \in Reading /\ step[r] \notin Saving
    BY <1>4 DEF MissRedis, Saving
  <2>2. CASE UseDB
    <3>1. GoTo(r, "getFromDB") /\ UNCHANGED <<work, prompt>>
      BY <1>4, <2>2 DEF MissRedis
    <3>2. work[r] = NoSession
      BY <1>4 DEF MissRedis, AtHand, Saving
    <3>3. Frame(r) /\ Asks(r) /\ Waits(r)
      BY <2>1, <2>2, <3>1, <3>2 DEF GoTo, Frame, Asks, Waits, TypeOK
    <3>4. QED
      BY <1>4, <2>1, <3>3 DEF MissRedis, stores
  <2>3. CASE ~UseDB
    <3>1. Frame(r) /\ Asks(r) /\ (Leaves(r) \/ Grows(r))
      BY <1>1, <1>4, <2>1, <2>3, GotForm DEF MissRedis
    <3>2. QED
      BY <1>4, <2>1, <3>1 DEF MissRedis, stores
  <2>4. QED
    BY <2>2, <2>3
<1>5. CASE ReadDB(r)
  <2>1. phase[r] \in Reading /\ step[r] \notin Saving
    BY <1>2, <1>5 DEF ReadDB, Saving
  <2>2. CASE RowOf(r) /\ UseRedis
    <3>1. work' = [work EXCEPT ![r] = db] /\ GoTo(r, "fill") /\ UNCHANGED prompt
      BY <1>5, <2>2 DEF ReadDB
    <3>2. UseDB
      BY <1>5 DEF ReadDB, Writers
    <3>3. Frame(r) /\ Asks(r) /\ Fetches(r)
      BY <2>1, <2>2, <3>1, <3>2 DEF GoTo, Frame, Asks, Fetches, TypeOK
    <3>4. QED
      BY <1>5, <2>1, <3>3 DEF ReadDB, stores
  <2>3. CASE ~(RowOf(r) /\ UseRedis)
    <3>1. Frame(r) /\ Asks(r) /\ (Leaves(r) \/ Grows(r))
      BY <1>1, <1>5, <2>1, <2>3, GotForm DEF ReadDB
    <3>2. QED
      BY <1>5, <2>1, <3>1 DEF ReadDB, stores
  <2>4. QED
    BY <2>2, <2>3
<1>6. CASE ReadDBFails(r)
  <2>1. phase[r] \in Reading /\ step[r] \notin Saving
    BY <1>2, <1>6 DEF ReadDBFails, Saving
  <2>2. QED
    BY <1>6, <2>1, GetFailsForm DEF ReadDBFails, stores
<1>7. CASE Fill(r)
  <2>1. phase[r] \in Reading /\ step[r] \notin Saving /\ step[r] = "fill"
    BY <1>2, <1>7 DEF Fill, Saving
  <2>2. Frame(r) /\ Asks(r) /\ (Leaves(r) \/ Grows(r))
    BY <1>1, <1>7, <2>1, GotForm DEF Fill
  <2>3. redis' = redis \/ redis' = work[r]
    BY <1>7 DEF Fill
  <2>4. QED
    BY <1>7, <2>1, <2>2, <2>3 DEF Fill
<1>8. QED
  BY <1>3, <1>4, <1>5, <1>6, <1>7 DEF GetSession

\* What AddMessage writes, and when it returns.
LEMMA SaveForm ==
  ASSUME TypeOK, Begun, AtHand, Writers, NEW r \in Requests, Save(r)
  PROVE  /\ step[r] \in Saving /\ phase[r] \in Adding
         /\ Frame(r) /\ prompt' = prompt /\ (Leaves(r) \/ Writes(r))
         /\ redis' = redis \/ (redis' = work[r] /\ step[r] = "save" /\ UseRedis)
         /\ \/ db' = db
            \/ /\ db' = work[r] /\ step[r] \in {"update", "insert"}
               /\ db = NoSession \/ RowOf(r)
         /\ \/ added' = added
            \/ Leaves(r) /\ added' = Append(added, [request |-> r, role |-> phase[r]])
         /\ UNCHANGED <<setup, answered, clearVars>>
<1> USE DEF Saving
<1>1. step[r] \in Saving
  BY DEF Save, SaveToRedis, Update, Insert, SaveToDBFails
<1>2. phase[r] \in Adding /\ (step[r] \in {"update", "insert"} => UseDB)
  BY <1>1 DEF Writers
<1>3. CASE SaveToRedis(r)
  <2>1. redis' = redis \/ (redis' = work[r] /\ step[r] = "save" /\ UseRedis)
    BY <1>3 DEF SaveToRedis, SavesToRedis
  <2>2. CASE UseDB
    <3>1. GoTo(r, "update") /\ UNCHANGED <<work, added>> /\ prompt' = prompt
      BY <1>3, <2>2 DEF SaveToRedis
    <3>2. Frame(r) /\ Writes(r)
      BY <1>1, <2>2, <3>1 DEF GoTo, Frame, Writes, TypeOK
    <3>3. QED
      BY <1>1, <1>2, <1>3, <2>1, <3>1, <3>2 DEF SaveToRedis
  <2>3. CASE ~UseDB
    <3>1. AddReturns(r) /\ prompt' = prompt
      BY <1>3, <2>3 DEF SaveToRedis
    <3>2. Frame(r) /\ Leaves(r)
      BY <3>1, ProceedForm DEF AddReturns
    <3>3. QED
      BY <1>1, <1>2, <1>3, <2>1, <3>1, <3>2 DEF SaveToRedis, AddReturns
  <2>4. QED
    BY <2>2, <2>3
<1>4. CASE Update(r)
  <2>1. CASE RowOf(r)
    <3>1. db' = work[r] /\ AddReturns(r) /\ prompt' = prompt /\ step[r] = "update"
      BY <1>4, <2>1 DEF Update
    <3>2. Frame(r) /\ Leaves(r)
      BY <3>1, ProceedForm DEF AddReturns
    <3>3. QED
      BY <1>1, <1>2, <1>4, <2>1, <3>1, <3>2 DEF Update, AddReturns
  <2>2. CASE ~RowOf(r)
    <3>1. GoTo(r, "insert") /\ UNCHANGED <<db, work, added>> /\ prompt' = prompt
      BY <1>4, <2>2 DEF Update
    <3>2. Frame(r) /\ Writes(r)
      BY <1>1, <1>2, <1>4, <3>1 DEF GoTo, Frame, Writes, TypeOK, Update
    <3>3. QED
      BY <1>1, <1>2, <1>4, <3>1, <3>2 DEF Update
  <2>3. QED
    BY <2>1, <2>2
<1>5. CASE Insert(r)
  <2>1. CASE db = NoSession
    <3>1. db' = work[r] /\ AddReturns(r) /\ prompt' = prompt /\ step[r] = "insert"
      BY <1>5, <2>1 DEF Insert
    <3>2. Frame(r) /\ Leaves(r)
      BY <3>1, ProceedForm DEF AddReturns
    <3>3. QED
      BY <1>1, <1>2, <1>5, <2>1, <3>1, <3>2 DEF Insert, AddReturns
  <2>2. CASE db # NoSession
    <3>1. Proceed(r) /\ UNCHANGED <<db, added>> /\ prompt' = prompt
      BY <1>5, <2>2 DEF Insert
    <3>2. Frame(r) /\ Leaves(r)
      BY <3>1, ProceedForm
    <3>3. QED
      BY <1>1, <1>2, <1>5, <3>1, <3>2 DEF Insert
  <2>3. QED
    BY <2>1, <2>2
<1>6. CASE SaveToDBFails(r)
  <2>1. Proceed(r) /\ prompt' = prompt
    BY <1>6 DEF SaveToDBFails
  <2>2. Frame(r) /\ Leaves(r)
    BY <2>1, ProceedForm
  <2>3. QED
    BY <1>1, <1>2, <1>6, <2>2 DEF SaveToDBFails, stores
<1>7. QED
  BY <1>3, <1>4, <1>5, <1>6 DEF Save

LEMMA AnswerForm ==
  ASSUME TypeOK, Begun, AtHand, NEW r \in Requests, Answer(r) \/ Hit(r) \/ Fail(r)
  PROVE  /\ phase[r] = "answer" /\ Frame(r) /\ prompt' = prompt /\ Leaves(r)
         /\ UNCHANGED <<stores, added, clearVars>>
<1>1. phase[r] = "answer" /\ step[r] = "get" /\ work[r] = NoSession
  BY DEF Answer, Hit, Fail, Begun, AtHand, Reading, Adding, Saving
<1>2. CASE Answer(r)
  BY <1>1, <1>2, ProceedForm DEF Answer
<1>3. CASE Hit(r) \/ Fail(r)
  BY <1>1, <1>3 DEF Hit, Fail, Ends, Frame, Leaves, TypeOK
<1>4. QED
  BY <1>2, <1>3

\* All of them.
LEMMA ClientForm ==
  ASSUME TypeOK, Begun, AtHand, Writers, NEW r \in Requests, Client(r)
  PROVE  /\ phase[r] \in Reading \union {"answer"} /\ r \in DOMAIN User
         /\ Frame(r) /\ Asks(r)
         /\ Leaves(r) \/ Waits(r) \/ Fetches(r) \/ Grows(r) \/ Writes(r)
         /\ redis' = redis \/ (redis' = work[r] /\ step[r] \in {"fill", "save"} /\ UseRedis)
         /\ \/ db' = db
            \/ /\ db' = work[r] /\ step[r] \in {"update", "insert"}
               /\ db = NoSession \/ RowOf(r)
         /\ UNCHANGED <<setup, clearVars>>
<1>1. CASE GetSession(r)
  <2>1. step[r] = "fill" => UseRedis
    BY DEF Writers
  <2>2. QED
    BY <1>1, <2>1, ReadForm DEF Begun, Reading, Adding
<1>2. CASE Save(r)
  BY <1>2, SaveForm DEF Begun, Reading, Adding, Asks
<1>3. CASE Answer(r) \/ Hit(r) \/ Fail(r)
  BY <1>3, AnswerForm DEF Begun, Reading, Adding, Asks, stores
<1>4. QED
  BY <1>1, <1>2, <1>3 DEF Client
Others ==
  \/ Expire \/ (\E r \in Requests : Begin(r)) \/ UNCHANGED vars
  \/ \E u \in setup.clears : ClearKey(u) \/ ClearRow(u) \/ ClearRowFails

LEMMA StepCases == [Next]_vars => Others \/ \E r \in Requests : Client(r)
BY DEF Next, Others, Client

\* Time, ClearSession and a request that begins leave the copies at hand alone.
LEMMA OthersForm ==
  ASSUME TypeOK, Others
  PROVE  /\ UNCHANGED <<setup, step, work, prompt, answered>>
         /\ redis' \in {redis, NoSession} /\ db' \in {db, NoSession}
         /\ added' \in {added, <<>>}
         /\ \A r \in Requests :
              \/ phase'[r] = phase[r]
              \/ phase[r] = "new" /\ r \in DOMAIN User /\ phase'[r] \in {"context", "user"}
         /\ phase' \in [Requests -> {Phases[i] : i \in 1 .. Len(Phases)}]
<1> USE DEF TypeOK, stores, clearVars
<1>1. CASE Expire \/ UNCHANGED vars
  BY <1>1 DEF Expire, vars
<1>2. ASSUME NEW r \in Requests, Begin(r)
      PROVE  /\ UNCHANGED <<setup, redis, db, step, work, prompt, answered, added>>
             /\ \A x \in Requests :
                  \/ phase'[x] = phase[x]
                  \/ phase[x] = "new" /\ x \in DOMAIN User /\ phase'[x] \in {"context", "user"}
             /\ phase' \in [Requests -> {Phases[i] : i \in 1 .. Len(Phases)}]
  <2>1. Phases[2] = "context" /\ Phases[3] = "user" /\ Len(Phases) = 7
    BY DEF Phases
  <2>2. {"context", "user"} \subseteq {Phases[i] : i \in 1 .. Len(Phases)}
    BY <2>1
  <2>3. \E w \in {"context", "user"} : phase' = [phase EXCEPT ![r] = w]
    BY <1>2 DEF Begin
  <2>4. QED
    BY <1>2, <2>2, <2>3 DEF Begin
<1>3. ASSUME NEW u \in setup.clears, ClearKey(u)
      PROVE  /\ UNCHANGED <<setup, phase, step, work, prompt, answered, db>>
             /\ redis' \in {redis, NoSession} /\ added' \in {added, <<>>}
  BY <1>3 DEF ClearKey, ClearReturns, NoKey
<1>4. ASSUME NEW u \in setup.clears, ClearRow(u)
      PROVE  /\ UNCHANGED <<setup, phase, step, work, prompt, answered, redis>>
             /\ db' \in {db, NoSession} /\ added' \in {added, <<>>}
  BY <1>4 DEF ClearRow, ClearReturns
<1>5. CASE ClearRowFails
  BY <1>5 DEF ClearRowFails
<1>6. QED
  BY <1>1, <1>2, <1>3, <1>4, <1>5 DEF Others

LEMMA UserType ==
  ASSUME TypeOK
  PROVE  \A r \in DOMAIN User : r \in Requests /\ User[r] \in Users
<1>1. User \in UNION {[R -> Users] : R \in SUBSET Requests}
  BY SessionAssumption DEF TypeOK, Setup, User
<1>2. PICK R \in SUBSET Requests : User \in [R -> Users]
  BY <1>1
<1>3. QED
  BY <1>2

LEMMA NoSessionIsNone == NoSession \notin Session
BY SessionAssumption DEF Session, Message

LEMMA MessagesType ==
  ASSUME NEW s \in Session \union {NoSession}
  PROVE  Messages(s) \in Seq(Message)
BY NoSessionIsNone, EmptySeq DEF Messages, Session

LEMMA HeldType == TypeOK => Held \subseteq Session \union {NoSession}
BY DEF TypeOK, Held

LEMMA CopyType ==
  ASSUME TypeOK, NEW r \in DOMAIN User, phase[r] \in Adding, NEW s \in Own(r)
  PROVE  Copy(r, s) \in Session
<1>1. [request |-> r, role |-> phase[r]] \in Message
  BY UserType DEF Message, Adding
<1>2. Messages(s) \in Seq(Message)
  BY HeldType, MessagesType DEF Own
<1>3. QED
  BY <1>1, <1>2, UserType, AppendedProperties DEF Copy, Session

LEMMA AskedType ==
  ASSUME TypeOK, NEW r \in DOMAIN User, Asks(r)
  PROVE  prompt'[r] \in Seq(Message)
<1>1. New(r) \in Message /\ r \in Requests
  BY UserType DEF Message, New
<1>2. CASE prompt'[r] = prompt[r]
  BY <1>1, <1>2 DEF TypeOK
<1>3. CASE prompt'[r] = <<New(r)>>
  BY <1>1, <1>3
<1>4. ASSUME NEW s \in Own(r), prompt'[r] = Append(Window(Messages(s)), New(r))
      PROVE  prompt'[r] \in Seq(Message)
  <2>1. Messages(s) \in Seq(Message)
    BY HeldType, MessagesType DEF Own
  <2>2. Window(Messages(s)) \in Seq(Message)
    BY <2>1, LastOfProperties, SessionAssumption DEF Window
  <2>3. QED
    BY <1>1, <1>4, <2>2, AppendProperties
<1>5. QED
  BY <1>2, <1>3, <1>4 DEF Asks

LEMMA TypeStep ==
  TypeOK /\ Begun /\ AtHand /\ Writers /\ [Next]_vars => TypeOK'
<1> SUFFICES ASSUME TypeOK, Begun, AtHand, Writers, [Next]_vars PROVE TypeOK'
  OBVIOUS
<1>1. ASSUME NEW r \in Requests, Client(r) PROVE TypeOK'
  <2>1. r \in DOMAIN User /\ Frame(r) /\ phase[r] \in Reading \union {"answer"}
    BY <1>1, ClientForm
  <2>2. phase'[r] \in {Phases[i] : i \in 1 .. Len(Phases)}
    <3>1. /\ Phases[2] = "context" /\ Phases[3] = "user" /\ Phases[4] = "build"
          /\ Phases[5] = "answer" /\ Phases[6] = "assistant" /\ Phases[7] = "done"
          /\ Len(Phases) = 7
      BY DEF Phases
    <3>2. phase'[r] \in {phase[r], Following(r), "done"}
      BY <1>1, ClientForm DEF Leaves, Waits, Fetches, Grows, Writes
    <3>3. phase'[r] \in {"context", "user", "build", "answer", "assistant", "done"}
      BY <2>1, <3>2, Order DEF Reading, Adding
    <3>4. QED
      BY <3>1, <3>3
  <2>3. step'[r] \in Steps
    BY <1>1, ClientForm DEF Leaves, Waits, Fetches, Grows, Writes, Steps
  <2>4. work'[r] \in Session \union {NoSession}
    <3>1. CASE Grows(r)
      BY <2>1, <3>1, CopyType DEF Grows
    <3>2. CASE ~Grows(r)
      BY <1>1, <3>2, ClientForm DEF Leaves, Waits, Fetches, Writes, TypeOK
    <3>3. QED
      BY <3>1, <3>2
  <2>5. prompt'[r] \in Seq(Message)
    BY <1>1, <2>1, ClientForm, AskedType
  <2>6. setup' = setup /\ redis' \in Session \union {NoSession} /\ db' \in Session \union {NoSession}
    BY <1>1, ClientForm DEF TypeOK
  <2>7. UNCHANGED clearVars
    BY <1>1, ClientForm
  <2>8. answered' \subseteq Requests /\ added' \in Seq(Message)
    <3>1. CASE GetSession(r)
      BY <3>1, ReadForm DEF TypeOK
    <3>2. CASE Save(r)
      <4>1. [request |-> r, role |-> phase[r]] \in Message
        BY <3>2, SaveForm DEF Message, Adding
      <4>2. answered' = answered /\ \/ added' = added
                                    \/ added' = Append(added, [request |-> r, role |-> phase[r]])
        BY <3>2, SaveForm
      <4>3. added \in Seq(Message) /\ answered \subseteq Requests
        BY DEF TypeOK
      <4>4. Append(added, [request |-> r, role |-> phase[r]]) \in Seq(Message)
        BY <4>1, <4>3, AppendProperties
      <4>5. QED
        BY <4>2, <4>3, <4>4
    <3>3. CASE Answer(r) \/ Hit(r) \/ Fail(r)
      BY <3>3 DEF Answer, Hit, Fail, Ends, TypeOK
    <3>4. QED
      BY <1>1, <3>1, <3>2, <3>3 DEF Client
  <2>9. QED
    BY <2>1, <2>2, <2>3, <2>4, <2>5, <2>6, <2>7, <2>8 DEF TypeOK, Frame, clearVars
<1>2. CASE Others
  <2>1. clear' \in {"off", "alone", "met", "done"} /\ cleared' \subseteq Message
    <3>1. ToSet(Messages(redis)) \subseteq Message /\ (db # NoSession => ToSet(db.messages) \subseteq Message)
      BY MessagesType, ElementOfSeq, LenProperties DEF TypeOK, ToSet, Messages
    <3>2. CASE Expire \/ (\E r \in Requests : Begin(r)) \/ UNCHANGED vars \/ ClearRowFails
      BY <3>2 DEF Expire, Begin, vars, clearVars, ClearRowFails, TypeOK
    <3>3. ASSUME NEW u, ClearKey(u) PROVE clear' \in {"off", "alone", "met", "done"} /\ cleared' \subseteq Message
      BY <3>1, <3>3 DEF ClearKey, ClearReturns, TypeOK
    <3>4. ASSUME NEW u, ClearRow(u) PROVE clear' \in {"off", "alone", "met", "done"} /\ cleared' \subseteq Message
      BY <3>1, <3>4 DEF ClearRow, ClearReturns, TypeOK
    <3>5. QED
      BY <1>2, <3>2, <3>3, <3>4 DEF Others
  <2>2. added' \in Seq(Message)
    BY <1>2, OthersForm, EmptySeq DEF TypeOK
  <2>3. /\ UNCHANGED <<setup, step, work, prompt, answered>>
        /\ redis' \in {redis, NoSession} /\ db' \in {db, NoSession}
        /\ phase' \in [Requests -> {Phases[i] : i \in 1 .. Len(Phases)}]
    BY <1>2, OthersForm
  <2>4. QED
    BY <2>1, <2>2, <2>3 DEF TypeOK
<1>3. QED
  BY <1>1, <1>2, StepCases

LEMMA BegunStep ==
  TypeOK /\ Begun /\ AtHand /\ Writers /\ [Next]_vars => (Begun /\ AtHand /\ Writers)'
<1> SUFFICES ASSUME TypeOK, Begun, AtHand, Writers, [Next]_vars
             PROVE  (Begun /\ AtHand /\ Writers)'
  OBVIOUS
<1> USE DEF Saving, Reading, Adding
<1>1. ASSUME NEW r \in Requests, Client(r) PROVE (Begun /\ AtHand /\ Writers)'
  <2>1. r \in DOMAIN User /\ Frame(r) /\ phase[r] \in Reading \union {"answer"} /\ setup' = setup
    BY <1>1, ClientForm
  <2>2. \A x \in Requests : x # r =>
          phase'[x] = phase[x] /\ step'[x] = step[x] /\ work'[x] = work[x]
    BY <2>1 DEF Frame, TypeOK
  <2>3. /\ phase'[r] \notin Reading => step'[r] = "get"
        /\ IF step'[r] \in {"fill"} \union Saving
           THEN work'[r] # NoSession /\ work'[r].user = User[r]
           ELSE work'[r] = NoSession
        /\ step'[r] \in Saving => phase'[r] \in Adding
        /\ step'[r] \in {"getFromDB", "fill", "update", "insert"} => UseDB
        /\ step'[r] = "fill" => UseRedis
    <3>1. CASE Leaves(r)
      BY <3>1 DEF Leaves
    <3>2. CASE Waits(r) \/ Fetches(r)
      BY <3>2 DEF Waits, Fetches, RowOf
    <3>3. CASE Grows(r)
      <4>1. work'[r] \in Session /\ work'[r].user = User[r]
        BY <2>1, <3>3, CopyType DEF Grows, Copy
      <4>2. QED
        BY <3>3, <4>1, NoSessionIsNone DEF Grows
    <3>4. CASE Writes(r)
      BY <3>4 DEF Writes, Writers, AtHand
    <3>5. QED
      BY <1>1, <3>1, <3>2, <3>3, <3>4, ClientForm
  <2>4. Begun'
    BY <2>1, <2>2, <2>3 DEF Begun, User
  <2>5. AtHand'
    BY <2>1, <2>2, <2>3 DEF AtHand, User
  <2>6. Writers'
    BY <2>1, <2>2, <2>3 DEF Writers, UseDB, UseRedis
  <2>7. QED
    BY <2>4, <2>5, <2>6
<1>2. CASE Others
  <2>1. /\ UNCHANGED <<setup, step, work>>
        /\ \A r \in Requests :
              \/ phase'[r] = phase[r]
              \/ phase[r] = "new" /\ r \in DOMAIN User /\ phase'[r] \in {"context", "user"}
    BY <1>2, OthersForm
  <2>2. \A r \in Requests : phase[r] = "new" => step[r] = "get"
    BY DEF Begun
  <2>3. Begun'
    BY <2>1, <2>2 DEF Begun, User
  <2>4. AtHand'
    BY <2>1 DEF AtHand, User
  <2>5. Writers'
    BY <2>1, <2>2 DEF Writers, UseDB, UseRedis
  <2>6. QED
    BY <2>3, <2>4, <2>5
<1>3. QED
  BY <1>1, <1>2, StepCases

-----------------------------------------------------------------------------
(* The copies.                                                             *)

\* What was made stays made, and a message is made by the step that appends it.
LEMMA MadeGrows ==
  TypeOK /\ Begun /\ AtHand /\ Writers /\ [Next]_vars => Made \subseteq Made'
<1> SUFFICES ASSUME TypeOK, Begun, AtHand, Writers, [Next]_vars, NEW m \in Made
             PROVE  m \in Made'
  OBVIOUS
<1> USE DEF Saving, Reading, Adding
<1>1. m \in Message /\ m.request \in Requests /\ m.role \in {"user", "assistant"}
  BY DEF Made, Message
<1>2. CASE phase'[m.request] = phase[m.request] /\ step'[m.request] = step[m.request]
  BY <1>1, <1>2 DEF Made
<1>3. ASSUME NEW r \in Requests, Client(r), m.request = r PROVE m \in Made'
  <2>1. CASE Leaves(r)
    BY <1>1, <1>3, <2>1, Order, ClientForm DEF Made, Leaves
  <2>2. CASE Waits(r) \/ Fetches(r) \/ Grows(r) \/ Writes(r)
    <3>1. phase'[r] = phase[r] /\ (step[r] \in Saving => step'[r] \in Saving \/ phase[r] \notin Adding)
      <4>1. step[r] \in Saving => Writes(r) \/ Leaves(r)
        BY <1>3, ReadForm, SaveForm, AnswerForm DEF Client
      <4>2. QED
        BY <2>2, <4>1, <1>3 DEF Leaves, Waits, Fetches, Grows, Writes
    <3>2. QED
      BY <1>1, <1>3, <3>1 DEF Made
  <2>3. QED
    BY <1>3, <2>1, <2>2, ClientForm
<1>4. CASE Others
  BY <1>1, <1>4, OthersForm DEF Made
<1>5. ASSUME NEW r \in Requests, Client(r), m.request # r PROVE m \in Made'
  <2>1. Frame(r)
    BY <1>5, ClientForm
  <2>2. phase' = [phase EXCEPT ![r] = phase'[r]] /\ step' = [step EXCEPT ![r] = step'[r]]
    BY <2>1 DEF Frame
  <2>3. m.request \in DOMAIN phase /\ m.request \in DOMAIN step
    BY <1>1 DEF TypeOK
  <2>4. phase'[m.request] = phase[m.request]
    BY <1>5, <2>2, <2>3
  <2>5. step'[m.request] = step[m.request]
    BY <1>5, <2>2, <2>3
  <2>6. QED
    BY <1>2, <2>4, <2>5
<1>6. QED
  BY <1>3, <1>4, <1>5, StepCases

\* Every copy after a step was there before it, or is the one a request made.
LEMMA HeldStep ==
  ASSUME TypeOK, Begun, AtHand, Writers, [Next]_vars, NEW s \in Held'
  PROVE  \/ s \in Held \union {NoSession}
         \/ \E r \in Requests : Client(r) /\ Grows(r) /\ s = work'[r]
<1>1. ASSUME NEW r \in Requests, Client(r)
      PROVE  s \in Held \union {NoSession} \/ (Grows(r) /\ s = work'[r])
  <2>1. redis' \in Held /\ db' \in Held
    BY <1>1, ClientForm DEF Held
  <2>2. \A x \in Requests : x # r => work'[x] = work[x]
    BY <1>1, ClientForm DEF Frame, TypeOK
  <2>3. Grows(r) \/ work'[r] \in {NoSession, db, work[r]}
    BY <1>1, ClientForm DEF Leaves, Waits, Fetches, Writes
  <2>4. s \in {redis', db'} \/ \E x \in Requests : s = work'[x]
    BY DEF Held
  <2>5. QED
    BY <2>1, <2>2, <2>3, <2>4 DEF Held
<1>2. CASE Others
  BY <1>2, OthersForm DEF Held
<1>3. QED
  BY <1>1, <1>2, StepCases

\* The message a request appends is new, and nothing after it was there before.
LEMMA CopySound ==
  ASSUME TypeOK, Begun, AtHand, Writers, ClearInv, \A s \in Held : Sound(s),
         NEW r \in Requests, Client(r), Grows(r), NEW c, c = work'[r]
  PROVE  Sound(c)'
<1> USE DEF Saving, Reading, Adding
<1>1. /\ r \in DOMAIN User /\ phase[r] \in Adding /\ step[r] \notin Saving
      /\ phase'[r] = phase[r] /\ step'[r] = "save"
      /\ setup' = setup /\ cleared' = cleared
  BY ClientForm DEF Grows, clearVars
<1>2. PICK s \in Own(r) : work'[r] = Copy(r, s)
  BY DEF Grows
<1> DEFINE h == Messages(s)
           m == [request |-> r, role |-> phase[r]]
           a == Appended(h, m)
           n == Len(a)
<1>3. c.user = User[r] /\ c.messages = a
  BY <1>2 DEF Copy
<1>4. h \in Seq(Message) /\ m \in Message
  BY <1>1, HeldType, MessagesType, UserType DEF Own, Message
<1>5. /\ WellFormed(h) /\ ToSet(h) \subseteq Made \ cleared
      /\ \A i \in DOMAIN h : User[h[i].request] = User[r]
  <2>1. CASE s = NoSession
    <3>1. h = <<>> /\ DOMAIN h = {} /\ Len(h) = 0
      BY <2>1 DEF Messages
    <3>2. QED
      BY <3>1, SessionAssumption DEF WellFormed, ToSet
  <2>2. CASE s # NoSession
    <3>1. Sound(s) /\ s.user = User[r] /\ h = s.messages
      BY <2>2 DEF Own, Messages
    <3>2. QED
      BY <2>2, <3>1 DEF Sound
  <2>3. QED
    BY <2>1, <2>2
<1>6. /\ a \in Seq(Message) /\ n \in 1 .. MaxMessages /\ a[n] = m
      /\ \A i, j \in 1 .. n - 1 : i < j =>
           \E k, l \in 1 .. Len(h) : k < l /\ a[i] = h[k] /\ a[j] = h[l]
      /\ \A i \in 1 .. n - 1 : \E k \in 1 .. Len(h) : a[i] = h[k]
  BY <1>4, AppendedProperties
<1>7. DOMAIN a = 1 .. n /\ DOMAIN h = 1 .. Len(h) /\ n \in Nat
  BY <1>4, <1>6, LenProperties
<1> HIDE DEF h, a, n
<1>8. \A k \in 1 .. Len(h) : h[k] \in Made /\ h[k] \notin cleared
  BY <1>5, <1>7 DEF ToSet
<1>9. \A x \in Made : x.request = r => phase[r] = "assistant" /\ x.role = "user"
  BY <1>1 DEF Made, Message
<1>10. m \in Made' /\ m \notin cleared
  <2>1. m.request = r /\ m.role = phase[r]
    OBVIOUS
  <2>2. m \in Made'
    BY <1>1, <1>4, <2>1 DEF Made
  <2>3. QED
    BY <1>1, <2>1, <2>2 DEF ClearInv
<1>11. WellFormed(a)
  <2>1. SUFFICES ASSUME NEW i \in 1 .. n, NEW j \in 1 .. n, i < j,
                        a[i].request = a[j].request,
                        a[i].role = a[j].role \/ a[i].role = "assistant"
                 PROVE  FALSE
    BY <1>6, <1>7 DEF WellFormed, n
  <2>2. CASE j = n
    <3>1. i \in 1 .. n - 1 /\ a[j] = m
      BY <1>6, <1>7, <2>1, <2>2
    <3>2. PICK k \in 1 .. Len(h) : a[i] = h[k]
      BY <1>6, <3>1
    <3>3. a[i].role = "user" /\ phase[r] = "assistant"
      BY <1>8, <1>9, <2>1, <3>1, <3>2
    <3>4. QED
      BY <2>1, <3>1, <3>3
  <2>3. CASE j # n
    <3>1. i \in 1 .. n - 1 /\ j \in 1 .. n - 1
      BY <1>7, <2>1, <2>3
    <3>2. PICK k \in 1 .. Len(h), l \in 1 .. Len(h) : k < l /\ a[i] = h[k] /\ a[j] = h[l]
      BY <1>6, <2>1, <3>1
    <3>3. QED
      BY <1>5, <1>7, <2>1, <3>2 DEF WellFormed
  <2>4. QED
    BY <2>2, <2>3
<1>12. \A i \in 1 .. n : a[i] \in Made' /\ a[i] \notin cleared /\ User[a[i].request] = User[r]
  <2>1. ASSUME NEW i \in 1 .. n
        PROVE  a[i] \in Made' /\ a[i] \notin cleared /\ User[a[i].request] = User[r]
    <3>1. CASE i = n
      BY <1>6, <1>10, <3>1
    <3>2. CASE i # n
      <4>1. i \in 1 .. n - 1
        BY <1>7, <3>2
      <4>2. PICK k \in 1 .. Len(h) : a[i] = h[k]
        BY <1>6, <4>1
      <4>3. [Next]_vars
        BY DEF Next, Client
      <4>4. QED
        BY <1>5, <1>7, <1>8, <4>2, <4>3, MadeGrows
    <3>3. QED
      BY <3>1, <3>2
  <2>2. QED
    BY <2>1
<1>13. ToSet(a) \subseteq Made' \ cleared'
  BY <1>1, <1>7, <1>12 DEF ToSet
<1>14. WellFormed(c.messages)' /\ User' = User
  BY <1>1, <1>3, <1>11 DEF WellFormed, User
<1>15. QED
  BY <1>3, <1>7, <1>12, <1>13, <1>14 DEF Sound

-----------------------------------------------------------------------------
(* What ClearSession removed.                                              *)

\* Nobody has a copy at hand when no request is active.
LEMMA IdleHands ==
  ASSUME Begun, AtHand, Active = {}, NEW r \in Requests
  PROVE  work[r] = NoSession /\ ~Client(r)
<1>1. phase[r] \in {"new", "done"}
  BY DEF Active
<1>2. step[r] = "get" /\ phase[r] \notin Reading
  BY <1>1 DEF Begun, Reading, Adding
<1>3. ~Client(r)
  BY <1>1, <1>2 DEF Client, GetSession, ReadRedis, MissRedis, ReadDB, ReadDBFails, Fill,
        Save, SaveToRedis, Update, Insert, SaveToDBFails, Answer, Hit, Fail
<1>4. QED
  BY <1>2, <1>3 DEF AtHand, Saving

LEMMA MadeBegan ==
  ASSUME NEW m \in Made
  PROVE  m.request \in Requests /\ phase[m.request] # "new"
BY DEF Made, Message, Saving

\* A message is added to those that were cleared only when no copy is left.
LEMMA ClearedStep ==
  ASSUME TypeOK, Begun, AtHand, Writers, ClearInv, [Next]_vars
  PROVE  \/ cleared' \subseteq cleared
         \/ /\ Held' \subseteq {NoSession} /\ UNCHANGED phase /\ Active = {}
            /\ \/ cleared' = ToSet(Messages(redis))
               \/ db # NoSession /\ cleared' = ToSet(db.messages)
<1>1. CASE \E r \in Requests : Client(r) \/ Begin(r)
  BY <1>1, ClientForm DEF Begin, clearVars
<1>2. CASE Expire \/ UNCHANGED vars \/ ClearRowFails
  BY <1>2 DEF Expire, vars, clearVars, ClearRowFails
<1>3. ASSUME NEW u \in setup.clears, ClearKey(u), ~(cleared' \subseteq cleared)
      PROVE  /\ Held' \subseteq {NoSession} /\ UNCHANGED phase /\ Active = {}
             /\ cleared' = ToSet(Messages(redis))
  <2>1. /\ ~UseDB /\ redis' = (IF UseRedis THEN NoKey ELSE redis)
        /\ cleared' = (IF Active = {} THEN ToSet(Messages(redis)) ELSE {})
        /\ UNCHANGED <<setup, db, phase, work>>
    BY <1>3 DEF ClearKey
  <2>2. Active = {} /\ redis' = NoSession /\ db' = NoSession
    BY <1>3, <2>1 DEF ClearInv, NoKey
  <2>3. \A r \in Requests : work'[r] = NoSession
    BY <2>1, <2>2, IdleHands
  <2>4. QED
    BY <2>1, <2>2, <2>3 DEF Held
<1>4. ASSUME NEW u \in setup.clears, ClearRow(u), ~(cleared' \subseteq cleared)
      PROVE  /\ Held' \subseteq {NoSession} /\ UNCHANGED phase /\ Active = {}
             /\ db # NoSession /\ cleared' = ToSet(db.messages)
  <2>1. /\ clear = "alone" /\ db # NoSession /\ db' = NoSession /\ cleared' = ToSet(db.messages)
        /\ UNCHANGED <<redis, phase, work>>
    BY <1>4 DEF ClearRow
  <2>2. Active = {} /\ redis' = NoSession
    BY <2>1 DEF ClearInv
  <2>3. \A r \in Requests : work'[r] = NoSession
    BY <2>1, <2>2, IdleHands
  <2>4. QED
    BY <2>1, <2>2, <2>3 DEF Held
<1>5. QED
  BY <1>1, <1>2, <1>3, <1>4, StepCases DEF Others

LEMMA SoundStep ==
  ASSUME TypeOK, Begun, AtHand, Writers, ClearInv, \A s \in Held : Sound(s), [Next]_vars
  PROVE  (\A s \in Held : Sound(s))'
<1> SUFFICES ASSUME NEW s \in Held' PROVE Sound(s)'
  OBVIOUS
<1>1. CASE s = NoSession
  BY <1>1 DEF Sound
<1>2. CASE s \in Held /\ s # NoSession
  <2>1. cleared' \subseteq cleared
    BY <1>2, ClearedStep
  <2>2. setup' = setup
    BY ClientForm, OthersForm, StepCases
  <2>3. Sound(s) /\ Made \subseteq Made'
    BY <1>2, MadeGrows
  <2>4. QED
    BY <1>2, <2>1, <2>2, <2>3 DEF Sound, User, WellFormed
<1>3. ASSUME NEW r \in Requests, Client(r), Grows(r), s = work'[r] PROVE Sound(s)'
  BY <1>3, CopySound
<1>4. QED
  BY <1>1, <1>2, <1>3, HeldStep

LEMMA ClearStep ==
  ASSUME TypeOK, Begun, AtHand, Writers, ClearInv, \A s \in Held : Sound(s), [Next]_vars
  PROVE  ClearInv'
<1> USE DEF Clearing
<1>1. setup' = setup
  BY ClientForm, OthersForm, StepCases
<1>2. \A m \in cleared' : phase'[m.request] = "done"
  <2>1. \A m \in cleared : m.request \in Requests /\ phase'[m.request] = "done"
    <3>1. ASSUME NEW x \in Requests, phase[x] = "done" PROVE phase'[x] = "done"
      <4>1. ASSUME NEW r \in Requests, Client(r) PROVE phase'[x] = "done"
        BY <3>1, <4>1, ClientForm DEF Frame, TypeOK, Reading, Adding
      <4>2. CASE Others
        BY <3>1, <4>2, OthersForm
      <4>3. QED
        BY <4>1, <4>2, StepCases
    <3>2. QED
      BY <3>1 DEF ClearInv, TypeOK, Message
  <2>2. ASSUME NEW m \in Made, Active = {} PROVE phase[m.request] = "done"
    BY <2>2, MadeBegan DEF Active
  <2>3. ToSet(Messages(redis)) \subseteq Made /\ (db # NoSession => ToSet(db.messages) \subseteq Made)
    BY DEF Sound, Held, Messages, ToSet
  <2>4. QED
    BY <2>1, <2>2, <2>3, ClearedStep
<1>3. ASSUME NEW r \in Requests, Client(r) PROVE ClearInv'
  <2>1. UNCHANGED <<clear, cleared>> /\ Active # {}
    BY <1>3, ClientForm DEF clearVars, Active, Reading, Adding
  <2>2. ~UseRedis => redis' = NoSession
    BY <1>3, ClientForm DEF ClearInv
  <2>3. ~UseDB => db' = NoSession
    BY <1>3, ClientForm DEF ClearInv, Writers
  <2>4. QED
    BY <1>1, <1>2, <2>1, <2>2, <2>3 DEF ClearInv, UseRedis, UseDB
<1>4. CASE Others
  <2>1. (~UseRedis => redis' = NoSession) /\ (~UseDB => db' = NoSession)
    BY <1>4, OthersForm DEF ClearInv
  <2>2. ASSUME NEW r \in Requests, Begin(r)
        PROVE  /\ ~UseDB => ~Clearing'
               /\ clear' = "alone" => redis' = NoSession /\ Active' = {}
               /\ clear' # "done" => cleared' = {}
    <3>1. clear' # "alone" /\ (clear' = "done" <=> clear = "done") /\ cleared' = cleared
          /\ (Clearing' => Clearing)
      BY <2>2 DEF Begin
    <3>2. QED
      BY <3>1 DEF ClearInv
  <2>3. CASE Expire \/ UNCHANGED vars
    BY <1>1, <1>2, <2>1, <2>3 DEF Expire, vars, clearVars, ClearInv, Active, UseDB, UseRedis, stores
  <2>4. ASSUME NEW u, ClearKey(u)
        PROVE  /\ ~UseDB => ~Clearing'
               /\ clear' = "alone" => redis' = NoSession /\ Active' = {}
               /\ clear' # "done" => cleared' = {}
    BY <2>4 DEF ClearKey, ClearReturns, ClearInv, NoKey, Active
  <2>5. ASSUME NEW u, ClearRow(u) \/ ClearRowFails
        PROVE  /\ ~UseDB => ~Clearing'
               /\ clear' = "alone" => redis' = NoSession /\ Active' = {}
               /\ clear' # "done" => cleared' = {}
    BY <2>5 DEF ClearRow, ClearRowFails, ClearReturns
  <2>6. CASE ~(Expire \/ UNCHANGED vars)
    <3>1. /\ ~UseDB => ~Clearing'
          /\ clear' = "alone" => redis' = NoSession /\ Active' = {}
          /\ clear' # "done" => cleared' = {}
      BY <1>4, <2>2, <2>4, <2>5, <2>6 DEF Others
    <3>2. QED
      BY <1>1, <1>2, <2>1, <3>1 DEF ClearInv, UseDB, UseRedis
  <2>7. QED
    BY <2>3, <2>6
<1>5. QED
  BY <1>3, <1>4, StepCases

-----------------------------------------------------------------------------
(* Prompts.                                                                *)

LEMMA PromptStep ==
  ASSUME TypeOK, Begun, AtHand, Writers, \A s \in Held : Sound(s), PromptsPure, [Next]_vars
  PROVE  PromptsPure'
<1>1. setup' = setup
  BY ClientForm, OthersForm, StepCases
<1>2. SUFFICES ASSUME NEW r \in DOMAIN User, NEW i \in DOMAIN prompt'[r]
               PROVE  User[prompt'[r][i].request] = User[r]
  BY <1>1 DEF PromptsPure, User
<1>3. r \in Requests /\ New(r) \in Message /\ New(r).request = r
  BY UserType DEF New, Message
<1>4. CASE prompt'[r] = prompt[r]
  BY <1>2, <1>4 DEF PromptsPure
<1>5. CASE prompt'[r] = <<New(r)>>
  BY <1>2, <1>3, <1>5
<1>6. ASSUME NEW s \in Own(r), prompt'[r] = Append(Window(Messages(s)), New(r))
      PROVE  User[prompt'[r][i].request] = User[r]
  <2> DEFINE h == Messages(s)
             w == LastOf(h, ContextWindow)
  <2>1. h \in Seq(Message) /\ ContextWindow \in Nat
    BY HeldType, MessagesType, SessionAssumption DEF Own
  <2>2. \A k \in 1 .. Len(h) : User[h[k].request] = User[r]
    <3>1. CASE s = NoSession
      BY <3>1 DEF Messages
    <3>2. CASE s # NoSession
      <4>1. h = s.messages /\ s.user = User[r] /\ Sound(s)
        BY <3>2 DEF Own, Messages
      <4>2. DOMAIN h = 1 .. Len(h)
        BY <2>1, LenProperties
      <4>3. QED
        BY <3>2, <4>1, <4>2 DEF Sound
    <3>3. QED
      BY <3>1, <3>2
  <2> HIDE DEF h
  <2>3. /\ w \in Seq(Message) /\ Len(w) \in Nat
        /\ \A k \in 1 .. Len(w) : \E l \in 1 .. Len(h) : w[k] = h[l]
    BY <2>1, LastOfProperties, LenProperties
  <2>4. prompt'[r] = Append(w, New(r))
    BY <1>6 DEF Window, h
  <2> HIDE DEF w
  <2>5. /\ prompt'[r] \in Seq(Message) /\ Len(prompt'[r]) = Len(w) + 1
        /\ prompt'[r][Len(w) + 1] = New(r)
        /\ \A k \in 1 .. Len(w) : prompt'[r][k] = w[k]
    BY <1>3, <2>3, <2>4, AppendProperties
  <2>6. i \in 1 .. Len(w) + 1
    BY <1>2, <2>5, LenProperties
  <2>7. QED
    BY <1>3, <2>2, <2>3, <2>5, <2>6
<1>7. prompt'[r] = prompt[r] \/ Asks(r)
  <2>1. ASSUME NEW x \in Requests, Client(x) PROVE prompt'[r] = prompt[r] \/ Asks(r)
    BY <1>3, <2>1, ClientForm DEF Frame, TypeOK
  <2>2. QED
    BY <2>1, OthersForm, StepCases
<1>8. QED
  BY <1>4, <1>5, <1>6, <1>7 DEF Asks

-----------------------------------------------------------------------------
(* The theorems.                                                           *)

LEMMA SessionInit == Init => SessionInv
<1> SUFFICES ASSUME Init PROVE SessionInv
  OBVIOUS
<1> USE DEF Init
<1>1. "new" \in {Phases[i] : i \in 1 .. Len(Phases)}
  <2>1. Phases[1] = "new" /\ Len(Phases) = 7
    BY DEF Phases
  <2>2. QED
    BY <2>1
<1>2. TypeOK
  BY <1>1, EmptySeq DEF TypeOK, Steps
<1>3. Begun /\ AtHand /\ Writers
  BY DEF Begun, AtHand, Writers, Saving
<1>4. \A s \in Held : Sound(s)
  BY DEF Held, Sound
<1>5. PromptsPure
  BY <1>2, UserType DEF PromptsPure
<1>6. ClearInv
  BY DEF ClearInv, Clearing
<1>7. QED
  BY <1>2, <1>3, <1>4, <1>5, <1>6 DEF SessionInv

\* SessionInv is inductive.
THEOREM SessionInductive == Spec => []SessionInv
<1>1. SessionInv /\ [Next]_vars => SessionInv'
  BY TypeStep, BegunStep, SoundStep, PromptStep, ClearStep DEF SessionInv
<1>2. QED
  BY <1>1, SessionInit, PTL DEF Spec

\* Every variable has its type: no copy of the history is of an unknown shape and no
\* session is without a user (Session and Message, manager.go 22-36).
THEOREM SessionTypes == Spec => []TypeOK
BY SessionInductive, PTL DEF SessionInv

\* No prompt and no copy that is written back holds a message of another user,
\* whichever requests share the session id and whatever fails or expires
\* (GetSession, manager.go 56-150).
THEOREM NeverMixed == Spec => []NotMixed
<1>1. ASSUME SessionInv, NEW r \in DOMAIN User
      PROVE  /\ \A i \in DOMAIN prompt[r] : User[prompt[r][i].request] = User[r]
             /\ \A i \in DOMAIN Messages(work[r]) : User[Messages(work[r])[i].request] = User[r]
  <2>1. r \in Requests
    BY <1>1, UserType DEF SessionInv
  <2>2. CASE work[r] = NoSession
    BY <1>1, <2>2 DEF SessionInv, PromptsPure, Messages
  <2>3. CASE work[r] # NoSession
    <3>1. Sound(work[r]) /\ work[r].user = User[r]
      BY <1>1, <2>1, <2>3 DEF SessionInv, Held, AtHand
    <3>2. QED
      BY <1>1, <2>3, <3>1 DEF SessionInv, PromptsPure, Messages, Sound
  <2>4. QED
    BY <2>2, <2>3
<1>2. SessionInv => NotMixed
  BY <1>1 DEF NotMixed
<1>3. QED
  BY <1>2, SessionInductive, PTL

\* However requests of the session overlap, neither store ever holds a message
\* twice, an answer before its prompt or more than maxMessages (AddMessage,
\* manager.go 154-200).
THEOREM HistoriesStayWellFormed == Spec => []HistoriesWellFormed
<1>1. WellFormed(<<>>)
  BY SessionAssumption, EmptySeq DEF WellFormed
<1>2. SessionInv => HistoriesWellFormed
  BY <1>1 DEF SessionInv, Held, Sound, HistoriesWellFormed, Messages
<1>3. QED
  BY <1>2, SessionInductive, PTL

\* A history that its owner cleared while no request was under way comes back in
\* neither store (ClearSession, manager.go 366-386).
THEOREM ClearedStaysGone == Spec => []ClearedGone
<1>1. SessionInv => ClearedGone
  BY DEF SessionInv, Held, Sound, ClearedGone, Messages, ToSet
<1>2. QED
  BY <1>1, SessionInductive, PTL

\* The row changes hands only by being deleted for its owner.
THEOREM OwnerKept == Spec => RowKeepsOwner
<1>1. ASSUME SessionInv, [Next]_vars, db # NoSession
      PROVE  IF db' = NoSession THEN Clearing /\ db.user \in setup.clears
                                ELSE db'.user = db.user
  <2>1. ASSUME NEW r \in Requests, Client(r) PROVE db' # NoSession /\ db'.user = db.user
    BY <1>1, <2>1, ClientForm DEF SessionInv, AtHand, Saving, RowOf
  <2>2. CASE Others
    <3>1. ASSUME NEW u \in setup.clears, ClearRow(u)
          PROVE  db' = db \/ (Clearing /\ db.user \in setup.clears)
      BY <1>1, <3>1 DEF ClearRow
    <3>2. CASE ~ \E u \in setup.clears : ClearRow(u)
      BY <1>1, <2>2, <3>2 DEF Others, Expire, Begin, ClearKey, ClearRowFails, vars, stores
    <3>3. db' \in {db, NoSession}
      BY <1>1, <2>2, OthersForm DEF SessionInv
    <3>4. QED
      BY <1>1, <3>1, <3>2, <3>3
  <2>3. QED
    BY <1>1, <2>1, <2>2, StepCases
<1>2. SessionInv /\ [Next]_vars =>
        [db # NoSession => IF db' = NoSession THEN Clearing /\ db.user \in setup.clears
                                              ELSE db'.user = db.user]_vars
  BY <1>1
<1>3. QED
  BY <1>2, SessionInductive, PTL DEF Spec, RowKeepsOwner
=============================================================================
