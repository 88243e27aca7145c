---------------------------- MODULE CacheProofs ----------------------------
(***************************************************************************)
(* Machine-checked proofs about ResponseCache, for any requests, questions,*)
(* keys (which questions may share), report limit and faults. The          *)
(* inductive invariant follows a request through its call: what it has     *)
(* filed (FiledOnce), which key it acts on (Aimed), where its answer is    *)
(* (Placed), what the blacklist said when it asked (Warned) and whether    *)
(* its use has been counted (UsesCounted).                                 *)
(***************************************************************************)
EXTENDS ResponseCache, FiniteSetTheorems, TLAPS

\* Who still has a report or an invalidation ahead knows a key for it: the one
\* it was given, or that of an answer which is complete.
Aimed ==
  \A r \in Requests :
    /\ pc[r] # "new" => call[r] \in Calls
    /\ pc[r] \in {"reporting", "deleting", "blacklisting"} =>
         (call[r].kind # "invalidate" =>
            call[r].about \in Requests /\ pc[call[r].about] = "done")

\* A request files one report, and the row counts those that were filed.
FiledOnce ==
  \A k \in Keys :
    /\ IsFiniteSet(filed[k]) /\ row[k].reports = Cardinality(filed[k])
    /\ \A r \in filed[k] : pc[r] \notin {"new", "reporting"}
    /\ k \in Closed => row[k].blacklisted

\* What is still to be counted is not among the uses of a key.
Counted(k) == {r \in cached : /\ pc[r] = "done"
                              /\ call[r].kind = "generate" /\ AskedKey(r) = k}

UsesCounted ==
  /\ IsFiniteSet(cached)
  /\ \A r \in cached : pc[r] \in {"counting", "done"}
  /\ \A r \in Requests :
       pc[r] = "counting" => r \in cached /\ call[r].kind = "generate"
  /\ \A k \in Keys : row[k].uses <= Cardinality(Counted(k))

\* An answer is in the entry of its own question only, it gets there when its
\* request ends and is removed from there at most once.
Placed ==
  /\ \A k \in Keys : entry[k] # NoAnswer =>
       pc[entry[k]] = "done" /\ AskedKey(entry[k]) = k /\ entry[k] \notin removed
  /\ \A r \in removed : pc[r] = "done"
  /\ \A r \in Requests : pc[r] = "storing" => reply[r] = r

\* A Generate that goes on to the cache was not warned of, and the keys it
\* remembers as closed still are.
Warned ==
  /\ \A r \in Requests : pc[r] # "new" => call[r].closed \subseteq Closed
  /\ \A r \in Requests \ unchecked :
       pc[r] = "getting" /\ call[r].kind = "generate" =>
         AskedKey(r) \notin call[r].closed

CacheInv ==
  TypeOK /\ Aimed /\ FiledOnce /\ UsesCounted /\ Placed /\ Warned /\ ClosedNotServed

-----------------------------------------------------------------------------
LEMMA CacheInit == Init => CacheInv
<1> SUFFICES ASSUME Init PROVE CacheInv
  OBVIOUS
<1> USE CacheAssumption DEF Init
<1>1. TypeOK
  <2>1. row \in [Keys -> [reports : Nat, uses : Nat, blacklisted : BOOLEAN]]
    OBVIOUS
  <2>2. /\ pc \in [Requests -> {"new", "reporting", "deleting", "blacklisting", "checking",
                          "getting", "counting", "generating", "storing", "done"}]
        /\ call \in [Requests -> Calls \union {NoCall}]
    OBVIOUS
  <2>3. QED
    BY <2>1, <2>2 DEF TypeOK
<1>2. Closed = {}
  BY FS_EmptySet DEF Closed
<1>3. Aimed /\ Placed /\ Warned /\ ClosedNotServed
  BY DEF Aimed, Placed, Warned, ClosedNotServed
<1>4. FiledOnce
  BY <1>2, FS_EmptySet DEF FiledOnce
<1>5. UsesCounted
  <2>1. \A k \in Keys : Counted(k) = {}
    BY DEF Counted
  <2>2. \A k \in Keys : row[k].uses = 0 /\ Cardinality(Counted(k)) = 0
    BY <2>1, FS_EmptySet
  <2>3. QED
    BY <2>2, FS_EmptySet DEF UsesCounted
<1>6. QED
  BY <1>1, <1>3, <1>4, <1>5 DEF CacheInv

-----------------------------------------------------------------------------
(* The keys a request acts on.                                             *)

LEMMA AskedKeyType ==
  ASSUME TypeOK, Aimed, NEW r \in Requests, pc[r] # "new"
  PROVE  AskedKey(r) \in Keys
BY CacheAssumption DEF Aimed, AskedKey, Calls

LEMMA TargetType ==
  ASSUME TypeOK, Aimed, NEW r \in Requests,
         pc[r] \in {"reporting", "deleting", "blacklisting"}
  PROVE  Target(r) \in Keys
<1>1. CASE call[r].kind = "invalidate"
  BY <1>1, AskedKeyType DEF Target
<1>2. CASE call[r].kind # "invalidate"
  <2>1. call[r].about \in Requests /\ call[call[r].about] \in Calls
    BY <1>2 DEF Aimed
  <2>2. QED
    BY <1>2, <2>1, CacheAssumption DEF Target, Calls
<1>3. QED
  BY <1>1, <1>2

-----------------------------------------------------------------------------
(* Types.                                                                  *)

LEMMA ClosedType == TypeOK => Closed \in SUBSET Keys
BY DEF TypeOK, Closed

LEMMA SeverityDecides == Verdicts \subseteq BOOLEAN
<1>1. \A f \in ((SUBSET WordSeverities) \X BOOLEAN \X (SUBSET IssueSeverities)) :
        (Severity(f[1], f[2], f[3]) >= 4) \in BOOLEAN
  OBVIOUS
<1>2. QED
  BY <1>1 DEF Verdicts

\* What every arrival has in common.
LEMMA ArriveForm ==
  ASSUME TypeOK, NEW r \in Requests, NEW kind, NEW about \in Requests \cup {NoAnswer},
         NEW critical \in BOOLEAN, NEW w, Arrive(r, kind, about, critical, w)
  PROVE  /\ pc[r] = "new" /\ pc' = [pc EXCEPT ![r] = w]
         /\ call'[r] \in Calls /\ call' = [call EXCEPT ![r] = call'[r]]
         /\ call'[r].closed = Closed
         /\ call'[r].kind = kind /\ call'[r].about = about
         /\ UNCHANGED <<stores, replies, history>>
<1>1. PICK q \in Questions :
        call' = [call EXCEPT ![r] =
           [kind |-> kind, question |-> q, about |-> about, critical |-> critical,
            closed |-> Closed, accused |-> accused]]
  BY DEF Arrive
<1> DEFINE c == [kind |-> kind, question |-> q, about |-> about, critical |-> critical,
                 closed |-> Closed, accused |-> accused]
<1>2. c \in Calls
  BY ClosedType DEF Arrive, Calls, TypeOK
<1>3. c.closed = Closed /\ c.kind = kind /\ c.about = about
  OBVIOUS
<1>4. call'[r] = c
  BY <1>1 DEF TypeOK
<1>5. QED
  BY <1>1, <1>2, <1>3, <1>4 DEF Arrive, GoTo

LEMMA ArrivalForm ==
  ASSUME TypeOK, NEW r \in Requests, Arrival(r)
  PROVE  /\ pc[r] = "new" /\ pc' = [pc EXCEPT ![r] = pc'[r]]
         /\ pc'[r] \in {"reporting", "deleting", "checking", "getting"}
         /\ call'[r] \in Calls /\ call' = [call EXCEPT ![r] = call'[r]]
         /\ call'[r].closed = Closed
         /\ pc'[r] = "deleting" => call'[r].kind = "invalidate"
         /\ pc'[r] = "getting" => call'[r].kind = "stream"
         /\ pc'[r] = "reporting" => call'[r].about \in Answers
         /\ UNCHANGED <<stores, replies, history>>
<1>1. NoAnswer \in Requests \cup {NoAnswer} /\ FALSE \in BOOLEAN
  OBVIOUS
<1>2. CASE Ask(r)
  <2>1. Arrive(r, "generate", NoAnswer, FALSE, "checking")
    BY <1>2 DEF Ask
  <2>2. /\ call' = [call EXCEPT ![r] = call'[r]] /\ pc' = [pc EXCEPT ![r] = "checking"]
        /\ call'[r].closed = Closed /\ call'[r].kind = "generate"
    BY <1>1, <2>1, ArriveForm
  <2>3. call'[r] \in Calls /\ pc[r] = "new" /\ UNCHANGED <<stores, replies, history>>
    BY <1>1, <2>1, ArriveForm
  <2>4. QED
    BY <2>2, <2>3 DEF TypeOK
<1>3. CASE Stream(r)
  <2>1. Arrive(r, "stream", NoAnswer, FALSE, "getting")
    BY <1>3 DEF Stream
  <2>2. /\ call' = [call EXCEPT ![r] = call'[r]] /\ pc' = [pc EXCEPT ![r] = "getting"]
        /\ call'[r].closed = Closed /\ call'[r].kind = "stream"
    BY <1>1, <2>1, ArriveForm
  <2>3. call'[r] \in Calls /\ pc[r] = "new" /\ UNCHANGED <<stores, replies, history>>
    BY <1>1, <2>1, ArriveForm
  <2>4. QED
    BY <2>2, <2>3 DEF TypeOK
<1>4. CASE InvalidateKey(r)
  <2>1. Arrive(r, "invalidate", NoAnswer, FALSE, "deleting")
    BY <1>4 DEF InvalidateKey
  <2>2. /\ call' = [call EXCEPT ![r] = call'[r]] /\ pc' = [pc EXCEPT ![r] = "deleting"]
        /\ call'[r].closed = Closed /\ call'[r].kind = "invalidate"
    BY <1>1, <2>1, ArriveForm
  <2>3. call'[r] \in Calls /\ pc[r] = "new" /\ UNCHANGED <<stores, replies, history>>
    BY <1>1, <2>1, ArriveForm
  <2>4. QED
    BY <2>2, <2>3 DEF TypeOK
<1>5. CASE Complain(r)
  <2>1. PICK a \in Answers :
          \E critical \in Verdicts : Arrive(r, "generate", a, critical, "reporting")
    BY <1>5 DEF Complain
  <2>2. \/ Arrive(r, "generate", a, TRUE, "reporting")
        \/ Arrive(r, "generate", a, FALSE, "reporting")
    BY <2>1, SeverityDecides
  <2>3. a \in Requests \cup {NoAnswer} /\ TRUE \in BOOLEAN /\ FALSE \in BOOLEAN
    BY DEF Answers
  <2>4. /\ call' = [call EXCEPT ![r] = call'[r]] /\ pc' = [pc EXCEPT ![r] = "reporting"]
        /\ call'[r].closed = Closed /\ call'[r].about = a
    BY <2>2, <2>3, ArriveForm
  <2>5. call'[r] \in Calls /\ pc[r] = "new" /\ UNCHANGED <<stores, replies, history>>
    BY <2>2, <2>3, ArriveForm
  <2>6. QED
    BY <2>4, <2>5 DEF TypeOK
<1>6. QED
  BY <1>2, <1>3, <1>4, <1>5 DEF Arrival

\* The row the trigger leaves behind.
LEMMA ReportedRow ==
  ASSUME TypeOK, Aimed, NEW r \in Requests, Report(r)
  PROVE  /\ row' \in [Keys -> [reports : Nat, uses : Nat, blacklisted : BOOLEAN]]
         /\ row'[Target(r)].reports = row[Target(r)].reports + 1
         /\ row'[Target(r)].uses = row[Target(r)].uses
         /\ row'[Target(r)].blacklisted = Blacklisting(row[Target(r)])
         /\ \A k \in Keys : k # Target(r) => row'[k] = row[k]
<1> DEFINE t == Target(r)
           s == [row[t] EXCEPT !.reports = @ + 1, !.blacklisted = Blacklisting(row[t])]
<1>1. t \in Keys
  BY TargetType DEF Report
<1>2. row[t] \in [reports : Nat, uses : Nat, blacklisted : BOOLEAN]
  BY <1>1 DEF TypeOK
<1>3. Blacklisting(row[t]) \in BOOLEAN
  BY <1>2 DEF Blacklisting
<1>4. row' = [row EXCEPT ![t].reports = @ + 1, ![t].blacklisted = Blacklisting(row[t])]
  BY DEF Report
<1>5. row' = [row EXCEPT ![t] = s]
  <2> HIDE DEF t
  <2>1. QED
    BY <1>1, <1>2, <1>4 DEF TypeOK
<1>6. /\ s \in [reports : Nat, uses : Nat, blacklisted : BOOLEAN]
      /\ s.reports = row[t].reports + 1 /\ s.uses = row[t].uses
      /\ s.blacklisted = Blacklisting(row[t])
  <2> HIDE DEF t
  <2> DEFINE R == row[t]
             b == Blacklisting(R)
  <2>1. R \in [reports : Nat, uses : Nat, blacklisted : BOOLEAN] /\ b \in BOOLEAN
    BY <1>2, <1>3
  <2>2. s = [R EXCEPT !.reports = @ + 1, !.blacklisted = b]
    OBVIOUS
  <2> HIDE DEF R, b, s
  <2>3. s.reports = R.reports + 1 /\ s.uses = R.uses
    BY <2>1, <2>2
  <2>4. s.blacklisted = b
    BY <2>1, <2>2
  <2>5. s \in [reports : Nat, uses : Nat, blacklisted : BOOLEAN]
    <3> DEFINE u == [R EXCEPT !.reports = @ + 1]
    <3>1. u \in [reports : Nat, uses : Nat, blacklisted : BOOLEAN]
      BY <2>1
    <3>2. s = [u EXCEPT !.blacklisted = b]
      BY <2>1, <2>2
    <3> HIDE DEF u
    <3>3. QED
      BY <2>1, <3>1, <3>2
  <2>6. QED
    BY <2>3, <2>4, <2>5 DEF R, b
<1>7. QED
  <2> HIDE DEF s
  <2>1. QED
    BY <1>1, <1>5, <1>6 DEF TypeOK

LEMMA TypeStep == TypeOK /\ Aimed /\ [Next]_vars => TypeOK'
<1> SUFFICES ASSUME TypeOK, Aimed, [Next]_vars PROVE TypeOK'
  OBVIOUS
<1> USE DEF TypeOK, stores, replies, history, GoTo, Onwards
<1>1. ASSUME NEW r \in Requests, Arrival(r) PROVE TypeOK'
  <2>1. /\ pc' = [pc EXCEPT ![r] = pc'[r]] /\ call' = [call EXCEPT ![r] = call'[r]]
        /\ pc'[r] \in {"reporting", "deleting", "checking", "getting"}
        /\ call'[r] \in Calls
    BY <1>1, ArrivalForm
  <2>2. UNCHANGED <<stores, replies, history>>
    BY <1>1, ArrivalForm
  <2>3. QED
    BY <2>1, <2>2
<1>2. ASSUME NEW r \in Requests, Report(r) PROVE TypeOK'
  <2>1. Target(r) \in Keys
    BY <1>2, TargetType DEF Report
  <2>2. row' \in [Keys -> [reports : Nat, uses : Nat, blacklisted : BOOLEAN]]
    BY <1>2, ReportedRow DEF Report
  <2>3. filed' \in [Keys -> SUBSET Requests]
    BY <1>2, <2>1 DEF Report
  <2>4. QED
    BY <1>2, <2>2, <2>3 DEF Report
<1>3. ASSUME NEW r \in Requests, Delete(r) PROVE TypeOK'
  <2>1. Target(r) \in Keys
    BY <1>3, TargetType DEF Delete
  <2>2. QED
    BY <1>3, <2>1 DEF Delete
<1>4. ASSUME NEW r \in Requests, Blacklist(r) PROVE TypeOK'
  <2>1. Target(r) \in Keys
    BY <1>4, TargetType DEF Blacklist
  <2>2. row' \in [Keys -> [reports : Nat, uses : Nat, blacklisted : BOOLEAN]]
    BY <1>4, <2>1 DEF Blacklist, Blacklisted
  <2>3. accused' \in SUBSET Requests
    BY <1>4 DEF Blacklist, Aimed, Calls
  <2>4. QED
    BY <1>4, <2>1, <2>2, <2>3 DEF Blacklist
<1>5. ASSUME NEW r \in Requests, ReportFails(r) \/ DeleteFails(r) \/ BlacklistFails(r)
      PROVE  TypeOK'
  BY <1>5 DEF ReportFails, DeleteFails, BlacklistFails
<1>6. ASSUME NEW r \in Requests, Check(r) \/ CheckFails(r) \/ Miss(r) \/ ProduceNothing(r)
      PROVE  TypeOK'
  BY <1>6 DEF Check, CheckFails, Miss, ProduceNothing
<1>7. ASSUME NEW r \in Requests, Hit(r) PROVE TypeOK'
  <2>1. entry[AskedKey(r)] \in Requests
    BY <1>7, AskedKeyType DEF Hit, HitAnd, Found
  <2>2. reply' = [reply EXCEPT ![r] = entry[AskedKey(r)]] /\ cached' = cached \cup {r}
    BY <1>7 DEF Hit, HitAnd
  <2>3. \A x \in cached' : reply'[x] # NoAnswer
    BY <2>1, <2>2, CacheAssumption
  <2>4. QED
    BY <1>7, <2>1, <2>2, <2>3 DEF Hit, HitAnd
<1>8. ASSUME NEW r \in Requests, Count(r) PROVE TypeOK'
  <2>1. row' \in [Keys -> [reports : Nat, uses : Nat, blacklisted : BOOLEAN]]
    BY <1>8, AskedKeyType DEF Count, UsedOnce
  <2>2. QED
    BY <1>8, <2>1 DEF Count
<1>9. ASSUME NEW r \in Requests, Produce(r) PROVE TypeOK'
  <2>1. \A x \in cached' : reply'[x] # NoAnswer
    BY <1>9, CacheAssumption DEF Produce
  <2>2. QED
    BY <1>9, <2>1 DEF Produce
<1>10. ASSUME NEW r \in Requests, Store(r) PROVE TypeOK'
  BY <1>10, AskedKeyType DEF Store
<1>11. ASSUME NEW k \in Keys, Expire(k) PROVE TypeOK'
  BY <1>11 DEF Expire
<1>12. CASE UNCHANGED vars
  BY <1>12 DEF vars
<1>13. QED
  BY <1>1, <1>2, <1>3, <1>4, <1>5, <1>6, <1>7, <1>8, <1>9, <1>10, <1>11, <1>12
     DEF Next, Feedback, Serve

-----------------------------------------------------------------------------
(* How a request moves.                                                    *)

LEMMA ServiceForm ==
  ASSUME TypeOK, NEW r \in Requests, Feedback(r) \/ Serve(r)
  PROVE  /\ pc[r] \notin {"new", "done"} /\ call' = call
         /\ pc' = [pc EXCEPT ![r] = pc'[r]]
         /\ pc'[r] \in {"deleting", "blacklisting", "checking", "getting", "counting",
                        "generating", "storing", "done"}
         /\ pc'[r] \in {"deleting", "blacklisting"} => pc[r] \in {"reporting", "deleting"}
<1> USE DEF TypeOK, GoTo, Onwards
<1>1. CASE Feedback(r)
  BY <1>1 DEF Feedback, Report, ReportFails, Delete, DeleteFails, Blacklist, BlacklistFails
<1>2. CASE Check(r) \/ CheckFails(r) \/ Hit(r) \/ Miss(r) \/ Count(r)
  BY <1>2 DEF Check, CheckFails, Hit, HitAnd, Miss, Count
<1>3. CASE Produce(r) \/ ProduceNothing(r) \/ Store(r)
  BY <1>3 DEF Produce, ProduceNothing, Store
<1>4. QED
  BY <1>1, <1>2, <1>3 DEF Serve

\* A call that has begun stays what it was, and one that has ended has ended.
LEMMA CallKept ==
  ASSUME TypeOK, [Next]_vars, NEW x \in Requests, pc[x] # "new"
  PROVE  /\ call'[x] = call[x] /\ AskedKey(x)' = AskedKey(x)
         /\ pc'[x] # "new" /\ (pc[x] = "done" => pc'[x] = "done")
         /\ pc'[x] = "reporting" => pc[x] = "reporting"
<1>1. ASSUME NEW r \in Requests, Arrival(r) PROVE call'[x] = call[x] /\ pc'[x] = pc[x]
  BY <1>1, ArrivalForm DEF TypeOK
<1>2. ASSUME NEW r \in Requests, Feedback(r) \/ Serve(r)
      PROVE  /\ call'[x] = call[x]
             /\ pc'[x] # "new" /\ (pc[x] = "done" => pc'[x] = "done")
             /\ pc'[x] = "reporting" => pc[x] = "reporting"
  BY <1>2, ServiceForm DEF TypeOK
<1>3. CASE UNCHANGED vars \/ \E k \in Keys : Expire(k)
  BY <1>3 DEF vars, Expire, AskedKey
<1>4. QED
  BY <1>1, <1>2, <1>3 DEF Next, AskedKey

LEMMA AimedStep == TypeOK /\ Aimed /\ [Next]_vars => Aimed'
<1> SUFFICES ASSUME TypeOK, Aimed, [Next]_vars PROVE Aimed'
  OBVIOUS
<1>1. ASSUME NEW r \in Requests, Arrival(r) PROVE Aimed'
  <2>1. /\ pc[r] = "new" /\ pc' = [pc EXCEPT ![r] = pc'[r]]
        /\ pc'[r] \in {"reporting", "deleting", "checking", "getting"}
        /\ call' = [call EXCEPT ![r] = call'[r]]
    BY <1>1, ArrivalForm
  <2>2. /\ call'[r] \in Calls
        /\ pc'[r] = "deleting" => call'[r].kind = "invalidate"
        /\ pc'[r] = "reporting" => call'[r].about \in Answers
    BY <1>1, ArrivalForm
  <2>3. ASSUME NEW x \in Requests, x # r
        PROVE  pc'[x] = pc[x] /\ call'[x] = call[x] /\ (pc[x] = "done" => x # r)
    BY <2>1, <2>3 DEF TypeOK
  <2>4. \A a \in Answers : a \in Requests /\ pc'[a] = "done"
    BY <2>1, <2>3 DEF Answers
  <2>5. QED
    BY <2>1, <2>2, <2>3, <2>4 DEF Aimed
<1>2. ASSUME NEW r \in Requests, Feedback(r) \/ Serve(r) PROVE Aimed'
  <2>1. /\ pc[r] \notin {"new", "done"} /\ call' = call
        /\ pc' = [pc EXCEPT ![r] = pc'[r]]
        /\ pc'[r] # "reporting"
        /\ pc'[r] \in {"deleting", "blacklisting"} => pc[r] \in {"reporting", "deleting"}
    BY <1>2, ServiceForm
  <2>2. QED
    BY <2>1 DEF Aimed, TypeOK
<1>3. CASE UNCHANGED vars \/ \E k \in Keys : Expire(k)
  BY <1>3 DEF vars, Expire, Aimed
<1>4. QED
  BY <1>1, <1>2, <1>3 DEF Next

-----------------------------------------------------------------------------
(* What was filed and what is closed.                                      *)

\* The actions that leave the rows, the reports and the blacklist alone.
LEMMA RowsKept ==
  ASSUME [Next]_vars, \A r \in Requests : ~Report(r) /\ ~Blacklist(r) /\ ~Count(r)
  PROVE  UNCHANGED <<row, filed, invalidated>>
<1> USE DEF stores, replies, history
<1>1. ASSUME NEW r \in Requests, Arrival(r) PROVE UNCHANGED <<row, filed, invalidated>>
  BY <1>1 DEF Arrival, Ask, Stream, InvalidateKey, Complain, Arrive
<1>2. ASSUME NEW r \in Requests, Feedback(r) PROVE UNCHANGED <<row, filed, invalidated>>
  BY <1>2 DEF Feedback, ReportFails, Delete, DeleteFails, BlacklistFails
<1>3. ASSUME NEW r \in Requests, Serve(r) PROVE UNCHANGED <<row, filed, invalidated>>
  BY <1>3 DEF Serve, Check, CheckFails, Hit, HitAnd, Miss, Produce, ProduceNothing, Store
<1>4. CASE UNCHANGED vars \/ \E k \in Keys : Expire(k)
  BY <1>4 DEF vars, Expire
<1>5. QED
  BY <1>1, <1>2, <1>3, <1>4 DEF Next

\* One more report is one more of its key's, and no other's.
LEMMA ReportFiled ==
  ASSUME TypeOK, Aimed, FiledOnce, NEW r \in Requests, Report(r), NEW k \in Keys
  PROVE  /\ IsFiniteSet(filed'[k]) /\ filed'[k] \subseteq filed[k] \cup {r}
         /\ filed[k] \subseteq filed'[k]
         /\ row'[k].reports = Cardinality(filed'[k])
         /\ Cardinality(filed[k]) \in Nat /\ Cardinality(filed'[k]) \in Nat
         /\ Cardinality(filed[k]) <= Cardinality(filed'[k])
         /\ row[k].blacklisted \/ Cardinality(filed'[k]) >= ReportLimit => row'[k].blacklisted
<1>1. Target(r) \in Keys
  BY TargetType DEF Report
<1>2. IsFiniteSet(filed[k]) /\ row[k].reports = Cardinality(filed[k]) /\ Cardinality(filed[k]) \in Nat
  BY FS_CardinalityType DEF FiledOnce
<1>3. CASE k = Target(r)
  <2>1. filed'[k] = filed[k] \cup {r}
    BY <1>1, <1>3 DEF Report, TypeOK
  <2>2. r \notin filed[k]
    BY DEF FiledOnce, Report
  <2>3. IsFiniteSet(filed'[k]) /\ Cardinality(filed'[k]) = Cardinality(filed[k]) + 1
    BY <1>2, <2>1, <2>2, FS_AddElement
  <2>4. row'[k].reports = row[k].reports + 1
    BY <1>3, ReportedRow
  <2>5. row'[k].blacklisted = Blacklisting(row[k])
    BY <1>3, ReportedRow
  <2>6. row[k].blacklisted \/ Cardinality(filed'[k]) >= ReportLimit => row'[k].blacklisted
    BY <1>2, <2>3, <2>5 DEF Blacklisting
  <2>7. QED
    BY <1>2, <2>1, <2>3, <2>4, <2>6
<1>4. CASE k # Target(r)
  <2>1. filed'[k] = filed[k] /\ row'[k] = row[k]
    BY <1>1, <1>4, ReportedRow DEF Report, TypeOK
  <2>2. Cardinality(filed[k]) >= ReportLimit => row[k].blacklisted
    BY DEF FiledOnce, Closed
  <2>3. QED
    BY <1>2, <2>1, <2>2
<1>5. QED
  BY <1>3, <1>4

\* A key never opens again.
LEMMA ClosedGrows == TypeOK /\ Aimed /\ FiledOnce /\ [Next]_vars => Closed \subseteq Closed'
<1> SUFFICES ASSUME TypeOK, Aimed, FiledOnce, [Next]_vars PROVE Closed \subseteq Closed'
  OBVIOUS
<1>1. ASSUME NEW r \in Requests, Report(r) PROVE Closed \subseteq Closed'
  <2>1. invalidated' = invalidated
    BY <1>1 DEF Report
  <2>2. \A k \in Keys : Cardinality(filed[k]) >= ReportLimit => Cardinality(filed'[k]) >= ReportLimit
    BY <1>1, ReportFiled, CacheAssumption
  <2>3. QED
    BY <2>1, <2>2 DEF Closed
<1>2. ASSUME NEW r \in Requests, Blacklist(r) \/ Count(r) PROVE Closed \subseteq Closed'
  BY <1>2 DEF Blacklist, Count, history, Closed
<1>3. CASE \A r \in Requests : ~Report(r) /\ ~Blacklist(r) /\ ~Count(r)
  BY <1>3, RowsKept DEF Closed
<1>4. QED
  BY <1>1, <1>2, <1>3

LEMMA FiledStep == TypeOK /\ Aimed /\ FiledOnce /\ [Next]_vars => FiledOnce'
<1> SUFFICES ASSUME TypeOK, Aimed, FiledOnce, [Next]_vars PROVE FiledOnce'
  OBVIOUS
<1>1. \A x \in Requests : pc[x] \notin {"new", "reporting"} => pc'[x] \notin {"new", "reporting"}
  BY CallKept
<1>2. \A k \in Keys : filed[k] \subseteq Requests
  BY DEF TypeOK
<1>3. ASSUME NEW r \in Requests, Report(r) PROVE FiledOnce'
  <2>1. pc'[r] \notin {"new", "reporting"}
    BY <1>3, ServiceForm DEF Feedback
  <2>2. \A k \in Keys : k \in Closed' => row'[k].blacklisted
    <3>1. \A k \in Keys : k \in invalidated => row[k].blacklisted
      BY DEF FiledOnce, Closed
    <3>2. invalidated' = invalidated
      BY <1>3 DEF Report
    <3>3. QED
      BY <1>3, <3>1, <3>2, ReportFiled DEF Closed
  <2>3. \A k \in Keys : \A x \in filed'[k] : pc'[x] \notin {"new", "reporting"}
    BY <1>1, <1>2, <1>3, <2>1, ReportFiled DEF FiledOnce
  <2>4. QED
    BY <1>3, <2>2, <2>3, ReportFiled DEF FiledOnce
<1>4. ASSUME NEW r \in Requests, Blacklist(r) PROVE FiledOnce'
  <2>1. Target(r) \in Keys
    BY <1>4, TargetType DEF Blacklist
  <2>2. /\ filed' = filed /\ invalidated' = invalidated \cup {Target(r)}
        /\ row' = [row EXCEPT ![Target(r)] = Blacklisted(@)]
    BY <1>4 DEF Blacklist
  <2>3. \A k \in Keys : /\ row'[k].reports = row[k].reports
                        /\ row[k].blacklisted \/ k = Target(r) => row'[k].blacklisted
    BY <2>1, <2>2 DEF TypeOK, Blacklisted
  <2>4. Closed' \subseteq Closed \cup {Target(r)}
    BY <2>2 DEF Closed
  <2>5. QED
    BY <1>1, <1>2, <2>2, <2>3, <2>4 DEF FiledOnce
<1>5. ASSUME NEW r \in Requests, Count(r) PROVE FiledOnce'
  <2>1. filed' = filed /\ invalidated' = invalidated
    BY <1>5 DEF Count, history
  <2>2. \A k \in Keys : /\ row'[k].reports = row[k].reports
                        /\ row'[k].blacklisted = row[k].blacklisted
    BY <1>5, AskedKeyType DEF Count, UsedOnce, TypeOK
  <2>3. Closed' = Closed
    BY <2>1 DEF Closed
  <2>4. QED
    BY <1>1, <1>2, <2>1, <2>2, <2>3 DEF FiledOnce
<1>6. CASE \A r \in Requests : ~Report(r) /\ ~Blacklist(r) /\ ~Count(r)
  BY <1>1, <1>2, <1>6, RowsKept DEF FiledOnce, Closed
<1>7. QED
  BY <1>3, <1>4, <1>5, <1>6

-----------------------------------------------------------------------------
(* Uses.                                                                   *)

\* Only a hit adds a request to those that were answered from the cache.
LEMMA CachedForm ==
  ASSUME TypeOK, UsesCounted, [Next]_vars
  PROVE  /\ cached \subseteq cached' /\ IsFiniteSet(cached')
         /\ \A x \in cached' : pc'[x] \in {"counting", "done"}
         /\ \A x \in Requests :
              pc'[x] = "counting" => x \in cached' /\ call'[x].kind = "generate"
<1> USE DEF UsesCounted
<1>1. ASSUME NEW r \in Requests, Hit(r)
      PROVE  /\ cached \subseteq cached' /\ IsFiniteSet(cached')
             /\ \A x \in cached' : pc'[x] \in {"counting", "done"}
             /\ \A x \in Requests :
                  pc'[x] = "counting" => x \in cached' /\ call'[x].kind = "generate"
  <2>1. cached' = cached \cup {r} /\ call' = call
    BY <1>1 DEF Hit, HitAnd
  <2>2. /\ pc' = [pc EXCEPT ![r] = pc'[r]] /\ pc'[r] \in {"counting", "done"}
        /\ pc'[r] = "counting" => call[r].kind = "generate"
    BY <1>1 DEF Hit, HitAnd, GoTo, TypeOK
  <2>3. IsFiniteSet(cached')
    BY <2>1, FS_AddElement
  <2>4. QED
    BY <2>1, <2>2, <2>3 DEF TypeOK
<1>2. ASSUME cached' = cached,
             \A x \in cached : pc'[x] \in {"counting", "done"},
             \A x \in Requests : pc'[x] = "counting" => pc[x] = "counting" /\ call'[x] = call[x]
      PROVE  /\ cached \subseteq cached' /\ IsFiniteSet(cached')
             /\ \A x \in cached' : pc'[x] \in {"counting", "done"}
             /\ \A x \in Requests :
                  pc'[x] = "counting" => x \in cached' /\ call'[x].kind = "generate"
  BY <1>2
<1>3. ASSUME NEW r \in Requests, Arrival(r)
      PROVE  /\ cached' = cached
             /\ \A x \in cached : pc'[x] \in {"counting", "done"}
             /\ \A x \in Requests :
                  pc'[x] = "counting" => pc[x] = "counting" /\ call'[x] = call[x]
  <2>1. cached' = cached /\ pc[r] = "new"
    BY <1>3, ArrivalForm DEF replies
  <2>2. /\ pc' = [pc EXCEPT ![r] = pc'[r]] /\ pc'[r] # "counting"
        /\ call' = [call EXCEPT ![r] = call'[r]]
    BY <1>3, ArrivalForm
  <2>3. QED
    BY <2>1, <2>2 DEF TypeOK
<1>4. ASSUME NEW r \in Requests, Feedback(r) \/ Serve(r), ~Hit(r)
      PROVE  /\ cached' = cached
             /\ \A x \in cached : pc'[x] \in {"counting", "done"}
             /\ \A x \in Requests :
                  pc'[x] = "counting" => pc[x] = "counting" /\ call'[x] = call[x]
  <2>1. /\ call' = call /\ pc' = [pc EXCEPT ![r] = pc'[r]]
    BY <1>4, ServiceForm
  <2>2. cached' = cached /\ pc'[r] # "counting" /\ (pc[r] = "counting" => pc'[r] = "done")
    <3>1. CASE Feedback(r)
      BY <3>1 DEF Feedback, Report, ReportFails, Delete, DeleteFails, Blacklist, BlacklistFails,
                  TypeOK, replies, GoTo, Onwards
    <3>2. CASE Check(r) \/ CheckFails(r) \/ Miss(r) \/ Count(r)
      BY <3>2 DEF Check, CheckFails, Miss, Count, TypeOK, replies, GoTo
    <3>3. CASE Produce(r) \/ ProduceNothing(r) \/ Store(r)
      BY <3>3 DEF Produce, ProduceNothing, Store, TypeOK, replies, GoTo
    <3>4. QED
      BY <1>4, <3>1, <3>2, <3>3 DEF Serve
  <2>3. \A x \in cached : x # r => pc'[x] = pc[x]
    BY <2>1 DEF TypeOK
  <2>4. r \in cached => pc[r] = "counting"
    BY <1>4, ServiceForm
  <2>5. QED
    BY <2>1, <2>2, <2>3, <2>4 DEF TypeOK
<1>5. CASE UNCHANGED vars \/ \E k \in Keys : Expire(k)
  BY <1>2, <1>5 DEF vars, Expire, replies
<1>6. QED
  BY <1>1, <1>2, <1>3, <1>4, <1>5 DEF Next

LEMMA CountedGrows ==
  ASSUME TypeOK, UsesCounted, [Next]_vars, NEW k \in Keys
  PROVE  /\ Counted(k) \subseteq Counted(k)' /\ IsFiniteSet(Counted(k)')
         /\ IsFiniteSet(Counted(k))
         /\ Cardinality(Counted(k)) \in Nat /\ Cardinality(Counted(k)') \in Nat
         /\ Cardinality(Counted(k)) <= Cardinality(Counted(k)')
<1>1. \A x \in Counted(k) : x \in Requests /\ pc[x] = "done"
  BY DEF Counted, TypeOK
<1>2. \A x \in Counted(k) : x \in Counted(k)'
  BY <1>1, CallKept, CachedForm DEF Counted
<1>3. Counted(k)' \subseteq cached'
  BY DEF Counted
<1>4. IsFiniteSet(Counted(k)')
  BY <1>3, CachedForm, FS_Subset
<1>5. QED
  BY <1>2, <1>4, FS_Subset, FS_CardinalityType

LEMMA UsesStep == TypeOK /\ Aimed /\ UsesCounted /\ [Next]_vars => UsesCounted'
<1> SUFFICES ASSUME TypeOK, Aimed, UsesCounted, [Next]_vars PROVE UsesCounted'
  OBVIOUS
<1>1. SUFFICES ASSUME NEW k \in Keys PROVE row'[k].uses <= Cardinality(Counted(k)')
  BY CachedForm DEF UsesCounted
<1>2. row[k].uses \in Nat /\ row[k].uses <= Cardinality(Counted(k))
  BY DEF TypeOK, UsesCounted
<1>3. CASE row'[k].uses = row[k].uses
  BY <1>2, <1>3, CountedGrows
<1>4. ASSUME NEW r \in Requests, Count(r) PROVE row'[k].uses <= Cardinality(Counted(k)')
  <2>1. AskedKey(r) \in Keys
    BY <1>4, AskedKeyType DEF Count
  <2>2. CASE row' = row \/ k # AskedKey(r)
    BY <1>3, <1>4, <2>1, <2>2 DEF Count, TypeOK
  <2>3. CASE row' = [row EXCEPT ![k] = UsedOnce(@)] /\ k = AskedKey(r)
    <3>1. row'[k].uses = row[k].uses + 1
      BY <2>1, <2>3 DEF TypeOK, UsedOnce
    <3>2. r \in cached /\ call[r].kind = "generate" /\ r \notin Counted(k)
      BY <1>4 DEF Count, UsesCounted, Counted
    <3>3. pc'[r] = "done" /\ call' = call /\ cached' = cached
      BY <1>4 DEF Count, GoTo, TypeOK, replies
    <3>4. r \in Counted(k)'
      BY <2>3, <3>2, <3>3 DEF Counted, AskedKey
    <3>5. /\ IsFiniteSet(Counted(k) \cup {r})
          /\ Cardinality(Counted(k) \cup {r}) = Cardinality(Counted(k)) + 1
      BY <3>2, CountedGrows, FS_AddElement
    <3>6. Cardinality(Counted(k) \cup {r}) <= Cardinality(Counted(k)')
      BY <3>4, CountedGrows, FS_Subset
    <3>7. QED
      BY <1>2, <3>1, <3>5, <3>6, CountedGrows
  <2>4. QED
    BY <1>4, <2>2, <2>3 DEF Count
<1>5. ASSUME NEW r \in Requests, Report(r) PROVE row'[k].uses = row[k].uses
  BY <1>5, ReportedRow
<1>6. ASSUME NEW r \in Requests, Blacklist(r) PROVE row'[k].uses = row[k].uses
  BY <1>6, TargetType DEF Blacklist, Blacklisted, TypeOK
<1>7. CASE \A r \in Requests : ~Report(r) /\ ~Blacklist(r) /\ ~Count(r)
  BY <1>7, <1>3, RowsKept
<1>8. QED
  BY <1>3, <1>4, <1>5, <1>6, <1>7

-----------------------------------------------------------------------------
(* Answers.                                                                *)

LEMMA PlacedStep == TypeOK /\ Aimed /\ Placed /\ [Next]_vars => Placed'
<1> SUFFICES ASSUME TypeOK, Aimed, Placed, [Next]_vars PROVE Placed'
  OBVIOUS
<1> USE DEF Placed, AskedKey
<1> DEFINE KeyNext(x) == Key[call'[x].question]
<1>1. \A x \in Requests : pc[x] = "done" => pc'[x] = "done" /\ KeyNext(x) = AskedKey(x)
  BY CallKept
<1>2. NoAnswer \notin removed /\ removed \subseteq Requests
  BY CacheAssumption DEF TypeOK
<1>3. \A k \in Keys : entry[k] # NoAnswer => entry[k] \in Requests
  BY DEF TypeOK
<1>4. ASSUME NEW r \in Requests, Delete(r) PROVE Placed'
  <2>1. Target(r) \in Keys
    BY <1>4, TargetType DEF Delete
  <2>2. /\ entry' = [entry EXCEPT ![Target(r)] = NoAnswer] /\ reply' = reply
        /\ removed' = removed \union ({entry[Target(r)]} \ {NoAnswer})
    BY <1>4 DEF Delete, replies
  <2>3. pc' = [pc EXCEPT ![r] = "blacklisting"]
    BY <1>4 DEF Delete, GoTo
  <2>4. \A x \in removed' : pc'[x] = "done"
    BY <1>1, <1>2, <1>3, <2>1, <2>2
  <2>5. ASSUME NEW k \in Keys, entry'[k] # NoAnswer
        PROVE  pc'[entry'[k]] = "done" /\ KeyNext(entry'[k]) = k /\ entry'[k] \notin removed'
    <3>1. k # Target(r) /\ entry'[k] = entry[k]
      BY <2>1, <2>2, <2>5 DEF TypeOK
    <3>2. KeyNext(entry[k]) = k /\ pc'[entry[k]] = "done"
      BY <1>1, <1>3, <2>5, <3>1
    <3>3. entry[k] # entry[Target(r)]
      BY <2>1, <2>5, <3>1
    <3>4. KeyNext(entry'[k]) = KeyNext(entry[k])
      BY <3>1 DEF AskedKey
    <3>5. QED
      BY <2>2, <2>5, <3>1, <3>2, <3>3, <3>4
  <2>6. QED
    BY <2>2, <2>3, <2>4, <2>5 DEF TypeOK
<1>5. ASSUME NEW r \in Requests, Store(r) PROVE Placed'
  <2>1. AskedKey(r) \in Keys /\ r # NoAnswer /\ reply[r] = r /\ r \notin removed
    BY <1>5, AskedKeyType, CacheAssumption DEF Store
  <2>2. /\ entry' = [entry EXCEPT ![AskedKey(r)] = r] \/ entry' = entry
        /\ pc' = [pc EXCEPT ![r] = "done"] /\ removed' = removed /\ reply' = reply
        /\ call' = call
    BY <1>5, <2>1 DEF Store, GoTo, replies, history
  <2>3. ASSUME NEW k \in Keys, entry'[k] # NoAnswer
        PROVE  pc'[entry'[k]] = "done" /\ KeyNext(entry'[k]) = k /\ entry'[k] \notin removed'
    <3>1. CASE entry'[k] = entry[k]
      <4>1. KeyNext(entry'[k]) = AskedKey(entry[k])
        BY <1>1, <1>3, <2>3, <3>1 DEF AskedKey
      <4>2. QED
        BY <1>1, <1>3, <2>2, <2>3, <3>1, <4>1
    <3>2. CASE entry'[k] # entry[k]
      <4>1. k = AskedKey(r) /\ entry'[k] = r
        BY <2>1, <2>2, <3>2 DEF TypeOK
      <4>2. KeyNext(entry'[k]) = AskedKey(r)
        BY <2>2, <4>1 DEF AskedKey
      <4>3. QED
        BY <2>1, <2>2, <4>1, <4>2 DEF TypeOK
    <3>3. QED
      BY <3>1, <3>2
  <2>4. QED
    BY <1>1, <1>2, <2>2, <2>3 DEF TypeOK
<1>6. ASSUME removed' = removed,
             \A k \in Keys : entry'[k] # NoAnswer => entry'[k] = entry[k],
             \A x \in Requests : pc'[x] = "storing" => reply'[x] = x
      PROVE  Placed'
  <2>1. ASSUME NEW k \in Keys, entry'[k] # NoAnswer
        PROVE  pc'[entry'[k]] = "done" /\ KeyNext(entry'[k]) = k /\ entry'[k] \notin removed'
    <3>1. entry'[k] = entry[k]
      BY <1>6, <2>1
    <3>2. KeyNext(entry'[k]) = AskedKey(entry[k])
      BY <1>1, <1>3, <2>1, <3>1 DEF AskedKey
    <3>3. QED
      BY <1>1, <1>3, <1>6, <2>1, <3>1, <3>2
  <2>2. QED
    BY <1>1, <1>2, <1>6, <2>1
<1>7. ASSUME NEW r \in Requests, Arrival(r) PROVE Placed'
  <2>1. /\ pc' = [pc EXCEPT ![r] = pc'[r]] /\ pc'[r] # "storing"
        /\ entry' = entry /\ reply' = reply /\ removed' = removed
    BY <1>7, ArrivalForm DEF stores, replies, history
  <2>2. QED
    BY <1>6, <2>1 DEF TypeOK
<1>8. ASSUME NEW r \in Requests, Feedback(r), ~Delete(r) PROVE Placed'
  <2>1. /\ pc' = [pc EXCEPT ![r] = pc'[r]] /\ pc'[r] # "storing"
        /\ entry' = entry /\ reply' = reply /\ removed' = removed
    BY <1>8 DEF Feedback, Report, ReportFails, DeleteFails, Blacklist, BlacklistFails,
                stores, replies, history, GoTo, Onwards, TypeOK
  <2>2. QED
    BY <1>6, <2>1 DEF TypeOK
<1>9. ASSUME NEW r \in Requests, Serve(r), ~Store(r) PROVE Placed'
  <2>1. /\ pc' = [pc EXCEPT ![r] = pc'[r]] /\ entry' = entry /\ removed' = removed
    <3>1. CASE Check(r) \/ CheckFails(r) \/ Miss(r) \/ ProduceNothing(r) \/ Produce(r)
      BY <3>1 DEF Check, CheckFails, Miss, ProduceNothing, Produce, stores, history, GoTo, TypeOK
    <3>2. CASE Hit(r) \/ Count(r)
      BY <3>2 DEF Hit, HitAnd, Count, stores, history, GoTo, TypeOK
    <3>3. QED
      BY <1>9, <3>1, <3>2 DEF Serve
  <2>2. \A x \in Requests : x # r => reply'[x] = reply[x] /\ pc'[x] = pc[x]
    BY <1>9, <2>1 DEF Serve, Check, CheckFails, Hit, HitAnd, Miss, Count, Produce,
                      ProduceNothing, replies, TypeOK
  <2>3. pc'[r] = "storing" => reply'[r] = r
    BY <1>9 DEF Serve, Check, CheckFails, Hit, HitAnd, Miss, Count, Produce,
                ProduceNothing, GoTo, TypeOK
  <2>4. QED
    BY <1>6, <2>1, <2>2, <2>3
<1>10. ASSUME NEW k \in Keys, Expire(k) PROVE Placed'
  BY <1>6, <1>10 DEF Expire, replies, history, TypeOK
<1>11. CASE UNCHANGED vars
  BY <1>6, <1>11 DEF vars, stores, replies, history
<1>12. QED
  BY <1>4, <1>5, <1>7, <1>8, <1>9, <1>10, <1>11 DEF Next

-----------------------------------------------------------------------------
(* Warnings.                                                               *)

LEMMA WarnedStep ==
  TypeOK /\ Aimed /\ FiledOnce /\ Warned /\ [Next]_vars => Warned'
<1> SUFFICES ASSUME TypeOK, Aimed, FiledOnce, Warned, [Next]_vars PROVE Warned'
  OBVIOUS
<1> USE DEF Warned
<1>1. \A x \in Requests : pc[x] # "new" => call'[x] = call[x] /\ call[x].closed \subseteq Closed'
  BY CallKept, ClosedGrows
<1>2. ASSUME NEW r \in Requests, Arrival(r) PROVE Warned'
  <2>1. /\ pc[r] = "new" /\ pc' = [pc EXCEPT ![r] = pc'[r]]
        /\ call' = [call EXCEPT ![r] = call'[r]]
        /\ call'[r].closed = Closed /\ (pc'[r] = "getting" => call'[r].kind = "stream")
    BY <1>2, ArrivalForm
  <2>2. unchecked' = unchecked
    BY <1>2, ArrivalForm DEF replies
  <2>3. \A x \in Requests : pc'[x] # "new" => call'[x].closed \subseteq Closed'
    BY <1>1, <2>1, ClosedGrows DEF TypeOK
  <2>4. ASSUME NEW x \in Requests \ unchecked', pc'[x] = "getting", call'[x].kind = "generate"
        PROVE  AskedKey(x)' \notin call'[x].closed
    <3>1. x # r /\ pc'[x] = pc[x] /\ call'[x] = call[x]
      BY <2>1, <2>4 DEF TypeOK
    <3>2. QED
      BY <2>2, <2>4, <3>1 DEF AskedKey
  <2>5. QED
    BY <2>3, <2>4
<1>3. ASSUME NEW r \in Requests, Feedback(r) \/ Serve(r) PROVE Warned'
  <2>1. call' = call /\ pc' = [pc EXCEPT ![r] = pc'[r]] /\ pc[r] # "new"
    BY <1>3, ServiceForm
  <2>2. \A x \in Requests : pc'[x] # "new" => call'[x].closed \subseteq Closed'
    BY <1>1, <2>1 DEF TypeOK
  <2>3. unchecked \subseteq unchecked'
    BY <1>3 DEF Feedback, Report, ReportFails, Delete, DeleteFails, Blacklist, BlacklistFails,
                Serve, Check, CheckFails, Hit, HitAnd, Miss, Count, Produce, ProduceNothing,
                Store, replies
  <2>4. ASSUME pc'[r] = "getting", call[r].kind = "generate", r \notin unchecked'
        PROVE  AskedKey(r) \notin call[r].closed
    <3>1. Check(r)
      BY <1>3, <2>4 DEF Feedback, Report, ReportFails, Delete, DeleteFails, Blacklist,
                        BlacklistFails, Serve, CheckFails, Hit, HitAnd, Miss, Count,
                        Produce, ProduceNothing, Store, GoTo, Onwards, TypeOK
    <3>2. ~row[AskedKey(r)].blacklisted
      BY <2>4, <3>1 DEF Check, GoTo, IsBlacklisted, TypeOK
    <3>3. AskedKey(r) \notin Closed
      BY <2>1, <3>2, AskedKeyType DEF FiledOnce
    <3>4. QED
      BY <2>1, <3>3
  <2>5. \A x \in Requests \ unchecked' :
          pc'[x] = "getting" /\ call'[x].kind = "generate" => AskedKey(x)' \notin call'[x].closed
    BY <2>1, <2>3, <2>4 DEF TypeOK, AskedKey
  <2>6. QED
    BY <2>2, <2>5
<1>4. CASE UNCHANGED vars \/ \E k \in Keys : Expire(k)
  BY <1>1, <1>4 DEF vars, Expire, replies, AskedKey, history, Closed
<1>5. QED
  BY <1>2, <1>3, <1>4 DEF Next

LEMMA ServedStep ==
  TypeOK /\ Warned /\ UsesCounted /\ ClosedNotServed /\ [Next]_vars => ClosedNotServed'
<1> SUFFICES ASSUME TypeOK, Warned, UsesCounted, ClosedNotServed, [Next]_vars,
                    NEW x \in cached' \ unchecked', call'[x].kind = "generate"
             PROVE  AskedKey(x)' \notin call'[x].closed
  BY DEF ClosedNotServed
<1>1. unchecked \subseteq unchecked'
  <2>1. ASSUME NEW r \in Requests, Arrival(r) PROVE unchecked' = unchecked
    BY <2>1, ArrivalForm DEF replies
  <2>2. ASSUME NEW r \in Requests, Feedback(r) \/ Serve(r) PROVE unchecked \subseteq unchecked'
    BY <2>2 DEF Feedback, Report, ReportFails, Delete, DeleteFails, Blacklist, BlacklistFails,
                Serve, Check, CheckFails, Hit, HitAnd, Miss, Count, Produce, ProduceNothing,
                Store, replies
  <2>3. CASE UNCHANGED vars \/ \E k \in Keys : Expire(k)
    BY <2>3 DEF vars, Expire, replies
  <2>4. QED
    BY <2>1, <2>2, <2>3 DEF Next
<1>2. CASE x \in cached
  <2>1. x \in Requests /\ pc[x] # "new"
    BY <1>2 DEF UsesCounted, TypeOK
  <2>2. call'[x] = call[x] /\ AskedKey(x)' = AskedKey(x)
    BY <2>1, CallKept
  <2>3. QED
    BY <1>1, <1>2, <2>2 DEF ClosedNotServed
<1>3. CASE x \notin cached
  <2>1. PICK r \in Requests : Hit(r)
    <3>1. ASSUME NEW r \in Requests, Arrival(r) PROVE cached' = cached
      BY <3>1, ArrivalForm DEF replies
    <3>2. ASSUME NEW r \in Requests, Feedback(r) \/ Serve(r), ~Hit(r) PROVE cached' = cached
      BY <3>2 DEF Feedback, Report, ReportFails, Delete, DeleteFails, Blacklist, BlacklistFails,
                  Serve, Check, CheckFails, Miss, Count, Produce, ProduceNothing, Store, replies
    <3>3. CASE UNCHANGED vars \/ \E k \in Keys : Expire(k)
      BY <1>3, <3>3 DEF vars, Expire, replies
    <3>4. QED
      BY <1>3, <3>1, <3>2, <3>3 DEF Next
  <2>2. x = r /\ call' = call /\ pc[r] = "getting"
    BY <1>3, <2>1 DEF Hit, HitAnd
  <2>3. QED
    BY <1>1, <2>2 DEF Warned, AskedKey
<1>4. QED
  BY <1>2, <1>3

-----------------------------------------------------------------------------
(* The theorems.                                                           *)

\* CacheInv is inductive: with it, what the promises below say of one state is
\* known of every state.
THEOREM CacheInductive == Spec => []CacheInv
<1>1. CacheInv /\ [Next]_vars => CacheInv'
  BY TypeStep, AimedStep, FiledStep, UsesStep, PlacedStep, WarnedStep, ServedStep DEF CacheInv
<1>2. QED
  BY <1>1, CacheInit, PTL DEF Spec

\* Whatever requests, reports, invalidations, failures and expiries overlap, a
\* Generate that began after its key was closed, and whose blacklist query did
\* not fail, was not answered from the cache (manager.go 249-263).
THEOREM ClosedStaysUnserved == Spec => []ClosedNotServed
BY CacheInductive, PTL DEF CacheInv

\* An answer that InvalidateCache deleted is in no entry of Redis again,
\* whoever was reading, producing or storing meanwhile (feedback.go 386-391).
THEOREM RemovedStays == Spec => []RemovedForGood
<1>1. CacheInv => RemovedForGood
  BY CacheAssumption DEF CacheInv, Placed, RemovedForGood, TypeOK
<1>2. QED
  BY <1>1, CacheInductive, PTL

\* Reports and uses are counted as often as they happened, or less for a use
\* whose update failed, and a closed key is on the blacklist
\* (migrations/0008:49-56, feedback.go 394-400, 430-445).
THEOREM StatsHold == Spec => []StatsAgree
<1>1. ASSUME CacheInv PROVE StatsAgree
  <2>1. ASSUME NEW k \in Keys
        PROVE  row[k].uses <= Cardinality({r \in cached :
                 call[r].kind = "generate" /\ AskedKey(r) = k})
    <3> DEFINE S == {r \in cached : call[r].kind = "generate" /\ AskedKey(r) = k}
    <3>1. IsFiniteSet(S) /\ S \subseteq cached
      BY <1>1, FS_Subset DEF CacheInv, UsesCounted
    <3>2. Counted(k) \subseteq S
      BY DEF Counted
    <3>3. /\ Cardinality(Counted(k)) <= Cardinality(S)
          /\ Cardinality(Counted(k)) \in Nat /\ Cardinality(S) \in Nat
      BY <3>1, <3>2, FS_Subset, FS_CardinalityType
    <3>4. row[k].uses \in Nat /\ row[k].uses <= Cardinality(Counted(k))
      BY <1>1 DEF CacheInv, TypeOK, UsesCounted
    <3>5. row[k].uses <= Cardinality(S)
      BY <3>3, <3>4
    <3>6. QED
      BY <3>5
  <2>2. QED
    BY <1>1, <2>1 DEF CacheInv, FiledOnce, StatsAgree
<1>2. QED
  BY <1>1, CacheInductive, PTL

\* No step takes a key off the blacklist.
THEOREM BlacklistKept == Spec => BlacklistedForGood
<1>1. ASSUME CacheInv, [Next]_vars, NEW k \in Keys, row[k].blacklisted PROVE row'[k].blacklisted
  <2>1. ASSUME NEW r \in Requests, Report(r) PROVE row'[k].blacklisted
    BY <1>1, <2>1, ReportFiled DEF CacheInv
  <2>2. ASSUME NEW r \in Requests, Blacklist(r) PROVE row'[k].blacklisted
    BY <1>1, <2>2, TargetType DEF Blacklist, Blacklisted, CacheInv, TypeOK
  <2>3. ASSUME NEW r \in Requests, Count(r) PROVE row'[k].blacklisted
    BY <1>1, <2>3, AskedKeyType DEF Count, UsedOnce, CacheInv, TypeOK
  <2>4. CASE \A r \in Requests : ~Report(r) /\ ~Blacklist(r) /\ ~Count(r)
    BY <1>1, <2>4, RowsKept
  <2>5. QED
    BY <2>1, <2>2, <2>3, <2>4
<1>2. CacheInv /\ [Next]_vars => [\A k \in Keys : row[k].blacklisted => row'[k].blacklisted]_vars
  BY <1>1
<1>3. QED
  BY <1>2, CacheInductive, PTL DEF Spec, BlacklistedForGood
=============================================================================
