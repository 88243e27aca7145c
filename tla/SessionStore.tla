----------------------------- MODULE SessionStore -----------------------------
(***************************************************************************)
(* The history of one session id (internal/session/manager.go) under the   *)
(* requests that use it (Manager.Generate, internal/ai/manager.go). The    *)
(* history lives in a Redis key and in a row of the Chat table; a request  *)
(* reads it, appends to its own copy and writes the copy back to both,     *)
(* without a lock or a transaction, first with its prompt and then with    *)
(* the answer. Requests of one batch share their session id and run at the *)
(* same time; the requests of a client that waits for each answer do not.  *)
(* ClearSession, which nothing in the repository calls, runs at most once. *)
(***************************************************************************)
EXTENDS Naturals, SequencesExt

CONSTANTS
  Requests, Users,
  NoSession,        \* nil
  MaxMessages, ContextWindow,
  Setups            \* the deployments and clients to choose from

\* user: the X-User-ID header of each request; uses: the stores the session
\* manager is connected to; feedback: m.feedbackManager # nil; active: how many
\* requests run at a time; faults: what may happen; clears: who calls
\* ClearSession, if anybody.
Setup == [user : UNION {[R -> Users] : R \in SUBSET Requests},
          uses : SUBSET {"redis", "db"}, feedback : BOOLEAN, active : Nat,
          faults : SUBSET {"redis", "db", "expire", "hit", "fail"},
          clears : SUBSET Users]

ASSUME SessionAssumption ==
  /\ NoSession \notin [user : Users, messages : Seq([request : Requests, role : {"user", "assistant"}])]
  /\ Setups \subseteq Setup
  /\ \A s \in Setups : Cardinality(s.clears) <= 1
  /\ MaxMessages \in Nat \ {0} /\ ContextWindow \in Nat \ {0}

VARIABLES
  setup,    \* the deployment and the client
  redis,    \* the value of session:<id>
  db,       \* the row of Chat with this id
  phase,    \* phase[r]: which call of Generate r is in
  step,     \* step[r]: where in that call it is
  work,     \* work[r]: the session it has at hand
  prompt,   \* prompt[r]: the messages in the prompt the model is given
  answered, \* the requests whose client got an answer
  added,    \* the messages whose AddMessage returned nil, in that order, since
            \* ClearSession
  clear,    \* ClearSession: "off", "alone" or "met" by a request between its two
            \* deletions, or "done"
  cleared   \* the messages that a ClearSession no request met has removed

stores    == <<setup, redis, db>>
clearVars == <<clear, cleared>>
vars == <<stores, phase, step, work, prompt, answered, added, clearVars>>

Message  == [request : Requests, role : {"user", "assistant"}]
Session  == [user : Users, messages : Seq(Message)]
Phases   == <<"new", "context", "user", "build", "answer", "assistant", "done">>
User     == setup.user
Faults   == setup.faults
UseRedis == "redis" \in setup.uses
UseDB    == "db" \in setup.uses
Adding   == {"user", "assistant"}
Reading  == {"context", "build"} \union Adding
Active   == {r \in Requests : phase[r] \notin {"new", "done"}}
Clearing == clear \in {"alone", "met"}

LastOf(s, n) == SubSeq(s, IF Len(s) > n THEN Len(s) - n + 1 ELSE 1, Len(s))

(* A faulty form may stand above a definition, for the mutation runs.      *)

\* The history with a message appended and cut to maxMessages.
PutFirst(h, m)    == LastOf(<<m>> \o h, MaxMessages)
Appended(h, m)    == LastOf(Append(h, m), MaxMessages)

\* The last contextWindow messages.
WindowAndOne(h) == LastOf(h, ContextWindow + 1)
Window(h)       == LastOf(h, ContextWindow)

\* GetSession compares the user of the session in Redis.
AnyUser(s, r)   == TRUE
BelongsTo(s, r) == s.user = User[r]

\* The row is looked up by id and user.
AnyRow(r) == db # NoSession
RowOf(r)  == db # NoSession /\ db.user = User[r]

\* The UserID of the session AddMessage saves.
NoOwner(r) == NoSession
Owner(r)   == User[r]

\* AddMessage saves to Redis as well as to the database.
DatabaseOnly == FALSE
SavesToRedis == UseRedis

\* What Delete leaves in Redis.
KeyLeft == redis
NoKey   == NoSession

New(r) == [request |-> r, role |-> "user"]

Messages(s) == IF s = NoSession THEN <<>> ELSE s.messages

-----------------------------------------------------------------------------
Init ==
  /\ setup \in Setups /\ redis = NoSession /\ db = NoSession
  /\ phase = [r \in Requests |-> "new"]
  /\ step = [r \in Requests |-> "get"]
  /\ work = [r \in Requests |-> NoSession]
  /\ prompt = [r \in Requests |-> <<>>]
  /\ answered = {} /\ added = <<>>
  /\ clear = "off" /\ cleared = {}

\* The call of r that comes after the one it is in.
Following(r) ==
  Phases[1 + CHOOSE i \in 1 .. Len(Phases) - 1 : Phases[i] = phase[r]]

Proceed(r) ==
  /\ phase' = [phase EXCEPT ![r] = Following(r)]
  /\ step' = [step EXCEPT ![r] = "get"]
  /\ work' = [work EXCEPT ![r] = NoSession]

GoTo(r, where) == step' = [step EXCEPT ![r] = where] /\ UNCHANGED phase

Begin(r) ==
  /\ r \in DOMAIN User /\ phase[r] = "new"
  /\ Cardinality(Active) < setup.active
  /\ Clearing => setup.active > 1
  /\ phase' = [phase EXCEPT ![r] = IF setup.feedback THEN "context" ELSE "user"]
  /\ clear' = IF Clearing THEN "met" ELSE clear
  /\ UNCHANGED <<stores, step, work, prompt, answered, added, cleared>>

(* GetSession, and what its caller does with the session s it returns.     *)

Got(r, s) ==
  \/ /\ phase[r] = "context"
     /\ Proceed(r) /\ UNCHANGED prompt
  \/ /\ phase[r] = "build"
     /\ prompt' = [prompt EXCEPT ![r] = Append(Window(Messages(s)), New(r))]
     /\ Proceed(r)
  \/ /\ phase[r] \in Adding
     /\ work' = [work EXCEPT ![r] =
          [user |-> Owner(r),
           messages |-> Appended(Messages(s), [request |-> r, role |-> phase[r]])]]
     /\ GoTo(r, "save") /\ UNCHANGED prompt

\* Every caller logs an error and goes on without the history.
GetFails(r) ==
  /\ Proceed(r)
  /\ prompt' = [prompt EXCEPT ![r] = IF phase[r] = "build" THEN <<New(r)>> ELSE @]

ReadRedis(r) ==
  /\ phase[r] \in Reading /\ step[r] = "get"
  /\ UseRedis /\ redis # NoSession
  /\ IF BelongsTo(redis, r) THEN Got(r, redis) ELSE GetFails(r)
  /\ UNCHANGED <<stores, answered, added, clearVars>>

\* No key, an error of Redis, or no Redis.
MissRedis(r) ==
  /\ phase[r] \in Reading /\ step[r] = "get"
  /\ ~UseRedis \/ redis = NoSession \/ "redis" \in Faults
  /\ IF UseDB
     THEN GoTo(r, "getFromDB") /\ UNCHANGED <<work, prompt>>
     ELSE Got(r, NoSession)
  /\ UNCHANGED <<stores, answered, added, clearVars>>

ReadDB(r) ==
  /\ step[r] = "getFromDB"
  /\ IF RowOf(r) /\ UseRedis
     THEN /\ work' = [work EXCEPT ![r] = db]
          /\ GoTo(r, "fill") /\ UNCHANGED prompt
     ELSE Got(r, IF RowOf(r) THEN db ELSE NoSession)
  /\ UNCHANGED <<stores, answered, added, clearVars>>

ReadDBFails(r) ==
  /\ "db" \in Faults /\ step[r] = "getFromDB"
  /\ GetFails(r)
  /\ UNCHANGED <<stores, answered, added, clearVars>>

Fill(r) ==
  /\ step[r] = "fill"
  /\ redis' \in {work[r]} \union (IF "redis" \in Faults THEN {redis} ELSE {})
  /\ Got(r, work[r])
  /\ UNCHANGED <<setup, db, answered, added, clearVars>>

(* AddMessage, after GetSession. An error of Redis is logged, one of the   *)
(* database is returned, and Generate logs it.                             *)

AddReturns(r) ==
  /\ Proceed(r)
  /\ added' = Append(added, [request |-> r, role |-> phase[r]])

SaveToRedis(r) ==
  /\ step[r] = "save"
  /\ redis' \in IF SavesToRedis
                THEN {work[r]} \union (IF "redis" \in Faults THEN {redis} ELSE {})
                ELSE {redis}
  /\ IF UseDB THEN GoTo(r, "update") /\ UNCHANGED <<work, added>>
              ELSE AddReturns(r)
  /\ UNCHANGED <<setup, db, prompt, answered, clearVars>>

\* UPDATE ... WHERE id AND "userId"; no row affected leads to the INSERT.
Update(r) ==
  /\ step[r] = "update"
  /\ IF RowOf(r)
     THEN db' = work[r] /\ AddReturns(r)
     ELSE GoTo(r, "insert") /\ UNCHANGED <<db, work, added>>
  /\ UNCHANGED <<setup, redis, prompt, answered, clearVars>>

\* The id is the primary key: a row that is there by now makes it fail.
Insert(r) ==
  /\ step[r] = "insert"
  /\ IF db = NoSession
     THEN db' = work[r] /\ AddReturns(r)
     ELSE Proceed(r) /\ UNCHANGED <<db, added>>
  /\ UNCHANGED <<setup, redis, prompt, answered, clearVars>>

SaveToDBFails(r) ==
  /\ "db" \in Faults /\ step[r] \in {"update", "insert"}
  /\ Proceed(r)
  /\ UNCHANGED <<stores, prompt, answered, added, clearVars>>

(* The answer: from the provider, from the cache, or none.                 *)

Ends(r) ==
  /\ phase' = [phase EXCEPT ![r] = "done"]
  /\ UNCHANGED <<stores, step, work, prompt, added, clearVars>>

AnswerUnsaved(r) ==
  /\ phase[r] = "answer"
  /\ answered' = answered \union {r}
  /\ Ends(r)

Answer(r) ==
  /\ phase[r] = "answer"
  /\ Proceed(r)
  /\ answered' = answered \union {r}
  /\ UNCHANGED <<stores, prompt, added, clearVars>>

\* Generate returns at a cache hit.
Hit(r) ==
  /\ "hit" \in Faults /\ phase[r] = "answer"
  /\ answered' = answered \union {r}
  /\ Ends(r)

Fail(r) ==
  /\ "fail" \in Faults /\ phase[r] = "answer"
  /\ Ends(r) /\ UNCHANGED answered

\* The key's time to live is over.
Expire ==
  /\ "expire" \in Faults /\ redis # NoSession
  /\ redis' = NoSession
  /\ UNCHANGED <<setup, db, phase, step, work, prompt, answered, added, clearVars>>

(* ClearSession of user u. An error of Redis is ignored, one of the        *)
(* database is returned; the row is deleted by id and user.                *)

ClearReturns == clear' = "done" /\ added' = <<>>

ClearKey(u) ==
  /\ clear = "off" /\ (Active = {} \/ setup.active > 1)
  /\ \/ redis' = (IF UseRedis THEN NoKey ELSE redis)
        /\ IF UseDB
           THEN clear' = (IF Active = {} THEN "alone" ELSE "met") /\ UNCHANGED <<added, cleared>>
           ELSE /\ ClearReturns
                /\ cleared' = IF Active = {} THEN ToSet(Messages(redis)) ELSE {}
     \/ /\ UseRedis /\ "redis" \in Faults
        /\ IF UseDB THEN clear' = "met" /\ UNCHANGED added ELSE ClearReturns
        /\ UNCHANGED <<redis, cleared>>
  /\ UNCHANGED <<setup, db, phase, step, work, prompt, answered>>

ClearRow(u) ==
  /\ Clearing /\ ClearReturns
  /\ LET hit == db # NoSession /\ db.user = u IN
     /\ db' = IF hit THEN NoSession ELSE db
     /\ cleared' = IF hit /\ clear = "alone" THEN ToSet(db.messages) ELSE {}
  /\ UNCHANGED <<setup, redis, phase, step, work, prompt, answered>>

ClearRowFails ==
  /\ Clearing /\ "db" \in Faults
  /\ clear' = "done"
  /\ UNCHANGED <<stores, phase, step, work, prompt, answered, added, cleared>>

-----------------------------------------------------------------------------
GetSession(r) == ReadRedis(r) \/ MissRedis(r) \/ ReadDB(r) \/ ReadDBFails(r) \/ Fill(r)

Save(r) == SaveToRedis(r) \/ Update(r) \/ Insert(r) \/ SaveToDBFails(r)

Next == \/ Expire
        \/ \E u \in setup.clears : ClearKey(u) \/ ClearRow(u) \/ ClearRowFails
        \/ \E r \in Requests : \/ Begin(r) \/ GetSession(r) \/ Save(r)
                               \/ Answer(r) \/ Hit(r) \/ Fail(r)

Spec == Init /\ [][Next]_vars

-----------------------------------------------------------------------------
(* Properties.                                                             *)

Steps == {"get", "getFromDB", "fill", "save", "update", "insert"}

TypeOK ==
  /\ setup \in Setups /\ {redis, db} \subseteq Session \union {NoSession}
  /\ phase \in [Requests -> {Phases[i] : i \in 1 .. Len(Phases)}]
  /\ step \in [Requests -> Steps]
  /\ work \in [Requests -> Session \union {NoSession}]
  /\ prompt \in [Requests -> Seq(Message)]
  /\ answered \subseteq Requests /\ added \in Seq(Message)
  /\ clear \in {"off", "alone", "met", "done"} /\ cleared \subseteq Message

\* A user's prompt and the copy that is written back hold the messages of that user
\* alone, whoever else uses the session id and whatever fails or expires.
NotMixed ==
  \A r \in DOMAIN User :
    /\ \A i \in DOMAIN prompt[r] : User[prompt[r][i].request] = User[r]
    /\ \A i \in DOMAIN Messages(work[r]) :
         User[Messages(work[r])[i].request] = User[r]

\* However requests overlap, a history shows a message once, a prompt before
\* its answer, and no more than maxMessages.
WellFormed(h) ==
  /\ Len(h) <= MaxMessages
  /\ \A i, j \in DOMAIN h :
       i < j => ~ (h[i].request = h[j].request /\ (h[i].role = h[j].role \/ h[i].role = "assistant"))

HistoriesWellFormed == WellFormed(Messages(redis)) /\ WellFormed(Messages(db))

Idle == Active = {} /\ ~Clearing

\* One client that waits for each answer, whose stores do not fail and whose
\* answers do not come from the cache.
InTurns ==
  /\ setup.active = 1 /\ Faults \subseteq {"expire", "fail"}
  /\ \A u, v \in setup.clears \union {User[r] : r \in DOMAIN User} : u = v

\* Between requests the row holds the latest of the messages AddMessage
\* accepted, in order (manager.go:154 "AddMessage agrega un mensaje al
\* historial"); without a database, Redis holds those since its key expired.
Tells(h, all) == IF UseDB THEN h = all ELSE IsSuffix(h, all)

EveryMessageKept ==
  Idle => Tells(Messages(IF UseDB THEN db ELSE redis), LastOf(added, MaxMessages))

\* Every answer a client was given was added to the history (manager.go:450 of
\* internal/ai "guardar respuesta en el historial").
AnswersKept ==
  \A r \in answered :
    phase[r] = "done" /\ clear = "off" => Contains(added, [request |-> r, role |-> "assistant"])

\* A client that takes turns loses nothing it sent or received, before or after a
\* ClearSession.
NothingLost == InTurns => EveryMessageKept /\ AnswersKept

\* Between requests the two stores hold the same session, unless the key has expired
\* (manager.go:188 "Guardar en ambos lugares").
StoresAgree == InTurns /\ Idle /\ redis # NoSession /\ UseDB => redis = db

\* The row stays with the user who made it until that user clears the session,
\* whoever else uses or clears its id and whatever that user's requests put
\* into Redis (313-386).
RowKeepsOwner ==
  [][db # NoSession =>
       IF db' = NoSession THEN Clearing /\ db.user \in setup.clears
                          ELSE db'.user = db.user]_vars

\* A history that its owner cleared is in neither store again, as long as no
\* request of the session was under way between the two deletions and Redis
\* did not refuse the first (366 "ClearSession limpia una sesion").
ClearedGone ==
  cleared \cap (ToSet(Messages(redis)) \union ToSet(Messages(db))) = {}

\* Ahead of the new message, the prompt a request sends to the model carries
\* the end of the conversation as its client knows it.
PromptHasHistory ==
  InTurns => \A r \in Requests : phase[r] = "answer" =>
    Tells(Front(prompt[r]), LastOf(LastOf(added, MaxMessages), ContextWindow))
=============================================================================
