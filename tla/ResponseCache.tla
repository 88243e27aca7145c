---------------------------- MODULE ResponseCache ----------------------------
(***************************************************************************)
(* The cache of answers and its blacklist: Redis entries written by        *)
(* Generate and StreamGenerate (internal/ai/manager.go), cache_stats rows  *)
(* written by FeedbackManager (internal/cache/feedback.go) and by the      *)
(* trigger of migrations/0008. The two stores share no transaction and     *)
(* requests overlap: each action is one call to Redis, PostgreSQL or a     *)
(* provider. An answer is named by the request that produced it. Quality   *)
(* scores and texts are left out; sessions and their prompts too, a        *)
(* question being the whole prompt with its parameters.                    *)
(***************************************************************************)
EXTENDS Naturals, FiniteSetsExt

CONSTANTS
  Requests, Questions, Keys,
  Key,          \* getCacheKey of a question
  TextKey,      \* getCacheKey of a request whose prompt is the answer to it
  NoAnswer, NoCall,
  ReportLimit,  \* how many reports blacklist a key (3 in the trigger)
  Kinds,        \* which of "generate", "stream" and "invalidate" are called
  Faults        \* which of "redis", "db", "provider" and "expire" may happen

ASSUME CacheAssumption ==
  /\ Key \in [Questions -> Keys] /\ TextKey \in [Questions -> Keys]
  /\ NoAnswer \notin Requests
  /\ ReportLimit \in Nat /\ ReportLimit > 1
  /\ Kinds \subseteq {"generate", "stream", "invalidate"}
  /\ Faults \subseteq {"redis", "db", "provider", "expire"}

Calls == [kind : Kinds, question : Questions,
          about : Requests \union {NoAnswer}, critical : BOOLEAN,
          closed : SUBSET Keys, accused : SUBSET Requests]

ASSUME NoCallAssumption == NoCall \notin Calls

VARIABLES
  entry,       \* entry[k]: the answer Redis holds for k
  row,         \* row[k]: the cache_stats of k, zeros when there is no row
  pc, call,    \* where request r is, and what it asked for
  reply,       \* reply[r]: the answer r was given
  cached,      \* the requests answered from Redis
  unchecked,   \* those for which IsBlacklisted failed
  filed,       \* filed[k]: the requests whose report about k was inserted
  invalidated, \* the keys for which InvalidateCache has returned nil
  accused,     \* the answers whose complaint has led to such a return
  removed      \* the answers that InvalidateCache has deleted from Redis

stores  == <<entry, row>>
replies == <<reply, cached, unchecked>>
history == <<filed, invalidated, accused, removed>>
vars    == <<stores, pc, call, replies, history>>

(* A faulty form may stand above a definition, for the mutation runs.      *)

\* The trigger's UPDATE for one more report.
LimitOrNot(s)   == s.reports + 1 >= ReportLimit
Blacklisting(s) == s.blacklisted \/ s.reports + 1 >= ReportLimit

\* InvalidateCache's upsert.
Blacklisted(s) == [s EXCEPT !.blacklisted = TRUE]

\* increment_cache_usage.
UsedTwice(s) == [s EXCEPT !.uses = @ + 2]
UsedOnce(s)  == [s EXCEPT !.uses = @ + 1]

\* Get gives "" and no error for a key that Redis does not hold.
Found(k)   == entry[k] # NoAnswer

\* The SELECT of IsBlacklisted.
OnlyReported(k)  == row[k].reports >= ReportLimit
IsBlacklisted(k) == row[k].blacklisted

\* AnalyzeForProblems: the severities its tables give to the words of a prompt
\* and, after an answer with code, to the issues it names; the severity of a
\* prompt that matches a pattern of correction; and the one that invalidates.
WordSeverities  == 1 .. 5
IssueSeverities == 1 .. 5
PatternSeverity == 3

Severity(words, pattern, issues) ==
  Max(words \union issues \union (IF pattern THEN {PatternSeverity} ELSE {}))

Verdicts ==
  {Severity(f[1], f[2], f[3]) >= 4 :
     f \in ((SUBSET WordSeverities) \X BOOLEAN \X (SUBSET IssueSeverities))
             \ {<<{}, FALSE, {}>>}}

\* The answers that are in a history: Generate's own, for neither a stream nor
\* a hit is added to one.
Answers == {r \in Requests :
              pc[r] = "done" /\ call[r].kind = "generate" /\ reply[r] = r}

AskedKey(r) == Key[call[r].question]

\* The key a report is filed under is that of the previous answer as a
\* prompt; the endpoint is given the key itself.
Target(r) == IF call[r].kind = "invalidate" THEN AskedKey(r)
             ELSE TextKey[call[call[r].about].question]

Closed == invalidated \union {k \in Keys : Cardinality(filed[k]) >= ReportLimit}

-----------------------------------------------------------------------------
Init ==
  /\ entry = [k \in Keys |-> NoAnswer]
  /\ row = [k \in Keys |-> [reports |-> 0, uses |-> 0, blacklisted |-> FALSE]]
  /\ pc = [r \in Requests |-> "new"]
  /\ call = [r \in Requests |-> NoCall]
  /\ reply = [r \in Requests |-> NoAnswer]
  /\ cached = {} /\ unchecked = {}
  /\ filed = [k \in Keys |-> {}] /\ invalidated = {}
  /\ accused = {} /\ removed = {}

GoTo(r, where) == pc' = [pc EXCEPT ![r] = where]

\* A call begins; it remembers what has been reported by then.
Arrive(r, kind, about, critical, where) ==
  /\ pc[r] = "new" /\ kind \in Kinds
  /\ \E q \in Questions :
       call' = [call EXCEPT ![r] =
         [kind |-> kind, question |-> q, about |-> about, critical |-> critical,
          closed |-> Closed, accused |-> accused]]
  /\ GoTo(r, where)
  /\ UNCHANGED <<stores, replies, history>>

Ask(r)    == Arrive(r, "generate", NoAnswer, FALSE, "checking")
Stream(r) == Arrive(r, "stream", NoAnswer, FALSE, "getting")

InvalidateKey(r) == Arrive(r, "invalidate", NoAnswer, FALSE, "deleting")

\* AnalyzeForProblems finds a complaint about the last answer of the session.
Complain(r) == \E a \in Answers, critical \in Verdicts :
                 Arrive(r, "generate", a, critical, "reporting")

(* ReportProblem and InvalidateCache. Their callers log an error.          *)

\* What follows them: the endpoint returns, Generate turns to the cache.
Onwards(r) == GoTo(r, IF call[r].kind = "invalidate" THEN "done" ELSE "checking")

Report(r) ==
  /\ pc[r] = "reporting"
  /\ row' = [row EXCEPT ![Target(r)].reports = @ + 1,
                        ![Target(r)].blacklisted = Blacklisting(row[Target(r)])]
  /\ filed' = [filed EXCEPT ![Target(r)] = @ \union {r}]
  /\ IF call[r].critical THEN GoTo(r, "deleting") ELSE Onwards(r)
  /\ UNCHANGED <<entry, call, replies, invalidated, accused, removed>>

ReportFails(r) ==
  /\ "db" \in Faults /\ pc[r] = "reporting"
  /\ Onwards(r)
  /\ UNCHANGED <<stores, call, replies, history>>

Delete(r) ==
  /\ pc[r] = "deleting"
  /\ entry' = [entry EXCEPT ![Target(r)] = NoAnswer]
  /\ removed' = removed \union ({entry[Target(r)]} \ {NoAnswer})
  /\ GoTo(r, "blacklisting")
  /\ UNCHANGED <<row, call, replies, filed, invalidated, accused>>

DeleteFails(r) ==
  /\ "redis" \in Faults /\ pc[r] = "deleting"
  /\ Onwards(r)
  /\ UNCHANGED <<stores, call, replies, history>>

Blacklist(r) ==
  /\ pc[r] = "blacklisting"
  /\ row' = [row EXCEPT ![Target(r)] = Blacklisted(@)]
  /\ invalidated' = invalidated \union {Target(r)}
  /\ accused' = accused \union ({call[r].about} \ {NoAnswer})
  /\ Onwards(r)
  /\ UNCHANGED <<entry, call, replies, filed, removed>>

BlacklistFails(r) ==
  /\ "db" \in Faults /\ pc[r] = "blacklisting"
  /\ Onwards(r)
  /\ UNCHANGED <<stores, call, replies, history>>

(* The cache in Generate and StreamGenerate; the latter starts with Get.   *)

Check(r) ==
  /\ pc[r] = "checking"
  /\ GoTo(r, IF IsBlacklisted(AskedKey(r)) THEN "generating" ELSE "getting")
  /\ UNCHANGED <<stores, call, replies, history>>

\* An error of IsBlacklisted counts as not blacklisted.
CheckFails(r) ==
  /\ "db" \in Faults /\ pc[r] = "checking"
  /\ GoTo(r, "getting")
  /\ unchecked' = unchecked \union {r}
  /\ UNCHANGED <<stores, call, reply, cached, history>>

\* A hit writes nothing back to Redis.
HitAnd(r, where) ==
  /\ pc[r] = "getting" /\ Found(AskedKey(r))
  /\ reply' = [reply EXCEPT ![r] = entry[AskedKey(r)]]
  /\ cached' = cached \union {r}
  /\ GoTo(r, where)
  /\ UNCHANGED <<stores, call, unchecked, history>>

HitRefreshes(r) == HitAnd(r, "storing")
Hit(r) == HitAnd(r, IF call[r].kind = "generate" THEN "counting" ELSE "done")

Miss(r) ==
  /\ pc[r] = "getting"
  /\ ~Found(AskedKey(r)) \/ "redis" \in Faults
  /\ GoTo(r, "generating")
  /\ UNCHANGED <<stores, call, replies, history>>

\* IncrementCacheUsage, whose error is logged.
Count(r) ==
  /\ pc[r] = "counting"
  /\ \/ row' = [row EXCEPT ![AskedKey(r)] = UsedOnce(@)]
     \/ "db" \in Faults /\ UNCHANGED row
  /\ GoTo(r, "done")
  /\ UNCHANGED <<entry, call, replies, history>>

Produce(r) ==
  /\ pc[r] = "generating"
  /\ reply' = [reply EXCEPT ![r] = r]
  /\ GoTo(r, "storing")
  /\ UNCHANGED <<stores, call, cached, unchecked, history>>

\* The provider fails or its answer is empty, which is neither cached nor ever
\* complained about.
ProduceNothing(r) ==
  /\ "provider" \in Faults /\ pc[r] = "generating"
  /\ GoTo(r, "done")
  /\ UNCHANGED <<stores, call, replies, history>>

\* Set, whatever the key's row or entry holds by now; its error is logged. A
\* stream whose client has gone is not cached.
Store(r) ==
  /\ pc[r] = "storing"
  /\ \/ entry' = [entry EXCEPT ![AskedKey(r)] = reply[r]]
     \/ ("redis" \in Faults \/ call[r].kind = "stream") /\ UNCHANGED entry
  /\ GoTo(r, "done")
  /\ UNCHANGED <<row, call, replies, history>>

\* The hour of the entry is over.
Expire(k) ==
  /\ "expire" \in Faults /\ entry[k] # NoAnswer
  /\ entry' = [entry EXCEPT ![k] = NoAnswer]
  /\ UNCHANGED <<row, pc, call, replies, history>>

-----------------------------------------------------------------------------
Arrival(r) == Ask(r) \/ Stream(r) \/ InvalidateKey(r) \/ Complain(r)

Feedback(r) == \/ Report(r) \/ ReportFails(r)
               \/ Delete(r) \/ DeleteFails(r)
               \/ Blacklist(r) \/ BlacklistFails(r)

Serve(r) == \/ Check(r) \/ CheckFails(r) \/ Hit(r) \/ Miss(r) \/ Count(r)
            \/ Produce(r) \/ ProduceNothing(r) \/ Store(r)

Next == \/ \E r \in Requests : Arrival(r) \/ Feedback(r) \/ Serve(r)
        \/ \E k \in Keys : Expire(k)

Spec == Init /\ [][Next]_vars

-----------------------------------------------------------------------------
(* Properties.                                                             *)

TypeOK ==
  /\ entry \in [Keys -> Requests \union {NoAnswer}]
  /\ row \in [Keys -> [reports : Nat, uses : Nat, blacklisted : BOOLEAN]]
  /\ pc \in [Requests -> {"new", "reporting", "deleting", "blacklisting", "checking",
                          "getting", "counting", "generating", "storing", "done"}]
  /\ call \in [Requests -> Calls \union {NoCall}]
  /\ reply \in [Requests -> Requests \union {NoAnswer}]
  /\ cached \subseteq Requests /\ unchecked \subseteq Requests
  /\ \A r \in cached : reply[r] # NoAnswer
  /\ filed \in [Keys -> SUBSET Requests]
  /\ invalidated \subseteq Keys /\ {accused, removed} \subseteq SUBSET Requests

\* A Generate that begins after a key was invalidated, or reported often
\* enough, is not answered from that key's entry, although a slower request
\* may have put an answer back: only a failed query lets it (manager.go
\* 249-263, CACHE_FEEDBACK_SYSTEM.md:122 "Antes de usar cache, verificar si
\* está blacklisted").
ClosedNotServed ==
  \A r \in cached \ unchecked :
    call[r].kind = "generate" => AskedKey(r) \notin call[r].closed

\* An answer that InvalidateCache has deleted is in no entry again, whoever was
\* reading, producing or storing at that moment, so that neither a Generate nor
\* a stream, which asks no blacklist, serves it (386-391, manager.go 249, 498).
RemovedForGood == \A k \in Keys : entry[k] \notin removed

\* No report, hit or overlap of the two ever takes a key off the blacklist
\* (migrations/0008:49-56, feedback.go 394-400).
BlacklistedForGood ==
  [][\A k \in Keys : row[k].blacklisted => row'[k].blacklisted]_vars

\* The statistics say what happened to a key: each inserted report is counted,
\* the last of ReportLimit blacklists it, so does InvalidateCache, and the uses
\* are answers that were served from it.
StatsAgree ==
  TypeOK /\ \A k \in Keys :
    /\ row[k].reports = Cardinality(filed[k])
    /\ k \in Closed => row[k].blacklisted
    /\ row[k].uses <= Cardinality({r \in cached :
         call[r].kind = "generate" /\ AskedKey(r) = k})

\* A critical complaint keeps its answer from later users
\* (CACHE_FEEDBACK_SYSTEM.md:250 "Misma pregunta genera respuesta nueva").
ComplaintHeeded ==
  \A r \in cached : call[r].kind = "generate" => reply[r] \notin call[r].accused
=============================================================================
