----------------------------- MODULE RequestPath -----------------------------
(***************************************************************************)
(* What becomes of a client's request: each of the seven entry points of   *)
(* internal/handlers/handler.go turns the client's fields into an          *)
(* ai.GenerateRequest, with its own copy of the same defaults; Manager     *)
(* (Generate, StreamGenerate) looks it up in the cache, chooses a provider *)
(* and stores the answer. Sessions, the blacklist, chunks and the batch's  *)
(* pool are in SessionStore, ResponseCache, StreamPipeline and             *)
(* ParallelBatch; the temperature has the defaults of MAX_TOKENS without   *)
(* the catalog, and is left out. Requests for different models share       *)
(* nothing here: all ask for one model, chosen in Init.                    *)
(***************************************************************************)
EXTENDS ModelCatalog, Sequences

CONSTANTS
  Requests,
  Prompts,    \* the clients' prompts, as the code points of their characters
  HashWidth,  \* how many values an int has (2^64 in the code)
  Worlds,     \* the deployments, the model asked for and the clients' fields
  None        \* no value yet

NoPrompt == <<>>

Client  == [prompt : Prompts, provider : {"", "aws", "azure", "aws-bedrock"},
            limit : Int, system : {"", "s"}, systemPrompt : {"", "p"}]
World   == [registered : SUBSET Providers, maxTokens : Int \union {Unset, Unparsable},
            azureModel : Strings, model : IDs \union Names \union Words \union {""},
            clients : SUBSET Client]

\* The ai.GenerateRequest, and what a provider is asked.
Asks     == [prompt : Prompts, provider : {"", "aws", "azure", "aws-bedrock"},
             limit : Int, system : {"", "s", "p"}]
Question == [provider : Providers, model : Strings, prompt : Prompts, limit : Int,
             system : {"", "s", "p"}]

ASSUME RequestAssumption ==
  /\ Prompts \subseteq Seq(Nat) /\ HashWidth \in Nat \ {0}
  /\ Worlds \subseteq World /\ None \notin Asks \union Question

VARIABLES
  world,   \* the registered providers, MAX_TOKENS, AZURE_DEFAULT_MODEL, the
           \* model string, and the other fields a client may send
  client,  \* client[r]: the fields r came with
  via,     \* via[r]: the entry point
  stage,   \* "new", "asking", "routing", "waiting", "storing" or "done"
  req,     \* req[r]: the ai.GenerateRequest
  sent,    \* sent[r]: what the provider was asked
  reply,   \* reply[r]: the answer, named by what its provider was asked
  cache    \* the entries of Redis: a function of some keys

vars == <<world, client, via, stage, req, sent, reply, cache>>

Model == world.model

(* A faulty form may stand above a definition, for the mutation runs.      *)

\* hashString: h*31 + c for each character, in an int that wraps. Different
\* prompts may have one hash, "Aa" and "BB" for instance.
hashString(prompt) ==
  LET h[i \in 0..Len(prompt)] ==
        IF i = 0 THEN 0 ELSE (h[i - 1] * 31 + prompt[i]) % HashWidth
  IN h[Len(prompt)]

\* The parts of the cache key.
KeyNoLimit(q) == <<Model, hashString(q.prompt)>>
CacheKey(q)   == <<Model, hashString(q.prompt), q.limit>>

-----------------------------------------------------------------------------
Init ==
  /\ world \in Worlds
  /\ client = [r \in Requests |-> None] /\ via = [r \in Requests |-> None]
  /\ stage = [r \in Requests |-> "new"]
  /\ req = [r \in Requests |-> None] /\ sent = [r \in Requests |-> None]
  /\ reply = [r \in Requests |-> None] /\ cache = <<>>

GoTo(r, where) == stage' = [stage EXCEPT ![r] = where]

\* The ai.GenerateRequest made of c, with system as its SystemPrompt.
Arrive(r, c, where, system) ==
  /\ stage[r] = "new"
  /\ \E limit \in IF c.limit = 0
                  THEN DefaultLimits(world.registered, Model, world.maxTokens)
                  ELSE {c.limit} :
       req' = [req EXCEPT ![r] =
         [prompt |-> c.prompt, provider |-> c.provider, limit |-> limit, system |-> system]]
  /\ client' = [client EXCEPT ![r] = c] /\ via' = [via EXCEPT ![r] = where]
  /\ GoTo(r, "asking")
  /\ UNCHANGED <<world, sent, reply, cache>>

\* "system" before "systemPrompt".
Aliased(c) == IF c.system # "" THEN c.system ELSE c.systemPrompt

\* gRPC refuses an empty prompt, carries a limit of 32 bits, and knows one field
\* for the system prompt.
Refuse(r, c) ==
  /\ stage[r] = "new" /\ c.prompt = NoPrompt
  /\ GoTo(r, "done")
  /\ UNCHANGED <<world, client, via, req, sent, reply, cache>>

Called(r, c, where) ==
  /\ c.limit \in Int32
  /\ \/ Refuse(r, c)
     \/ c.prompt # NoPrompt /\ Arrive(r, c, where, c.systemPrompt)

GenerateRPC(r, c)       == Called(r, c, "grpc")
GenerateStreamRPC(r, c) == Called(r, c, "grpcStream")

GenerateHTTP(r, c)       == Arrive(r, c, "http", Aliased(c))
GenerateStreamHTTP(r, c) == Arrive(r, c, "sse", Aliased(c))

PlainWebSocket(r, c)  == Arrive(r, c, "ws", c.systemPrompt)
HandleWebSocket(r, c) == Arrive(r, c, "ws", Aliased(c))

GenerateBatchHTTP(r, c)       == Arrive(r, c, "batch", Aliased(c))
\* It decodes the requests themselves, which have no "system".
GenerateBatchStreamHTTP(r, c) == Arrive(r, c, "batchStream", c.systemPrompt)

(* Generate and StreamGenerate.                                            *)

Hit(r) ==
  /\ stage[r] = "asking" /\ CacheKey(req[r]) \in DOMAIN cache
  /\ reply' = [reply EXCEPT ![r] = cache[CacheKey(req[r])]]
  /\ GoTo(r, "done")
  /\ UNCHANGED <<world, client, via, req, sent, cache>>

\* No entry, or an error of Redis.
Miss(r) ==
  /\ stage[r] = "asking"
  /\ GoTo(r, "routing")
  /\ UNCHANGED <<world, client, via, req, sent, reply, cache>>

\* The providers the request may go to.
Route(q) == IF q.provider # "" THEN {q.provider} \cap world.registered
            ELSE SelectProvider(world.registered, Model)

\* The model that p asks its service for.
Streams(e)   == e \in {"grpcStream", "sse", "ws"}
Target(r, p) == MapModel(p, Requested(p, Model, Streams(via[r]), world.azureModel))

Send(r) ==
  /\ stage[r] = "routing"
  /\ \E p \in Route(req[r]) :
       sent' = [sent EXCEPT ![r] =
         [provider |-> p, model |-> Target(r, p), prompt |-> req[r].prompt,
          limit |-> LimitSent(p, Target(r, p), req[r].limit), system |-> req[r].system]]
  /\ GoTo(r, "waiting")
  /\ UNCHANGED <<world, client, via, req, reply, cache>>

\* "no provider available for model"
NoRoute(r) ==
  /\ stage[r] = "routing" /\ Route(req[r]) = {}
  /\ GoTo(r, "done")
  /\ UNCHANGED <<world, client, via, req, sent, reply, cache>>

\* The service behind the provider answers for the models it has.
Answer(r) ==
  /\ stage[r] = "waiting"
  /\ \E m \in ListModels[sent[r].provider] : m.id = sent[r].model
  /\ reply' = [reply EXCEPT ![r] = sent[r]]
  /\ GoTo(r, "storing")
  /\ UNCHANGED <<world, client, via, req, sent, cache>>

Fail(r) ==
  /\ stage[r] = "waiting"
  /\ GoTo(r, "done")
  /\ UNCHANGED <<world, client, via, req, sent, reply, cache>>

\* The answer is cached unless it is empty, Redis fails or a stream's client
\* has gone.
Store(r) ==
  /\ stage[r] = "storing"
  /\ LET key == CacheKey(req[r]) IN
     cache' \in {cache, [k \in DOMAIN cache \union {key} |->
                          IF k = key THEN reply[r] ELSE cache[k]]}
  /\ GoTo(r, "done")
  /\ UNCHANGED <<world, client, via, req, sent, reply>>

\* The hour of an entry is over.
Expire ==
  /\ \E k \in DOMAIN cache :
       cache' = [j \in DOMAIN cache \ {k} |-> cache[j]]
  /\ UNCHANGED <<world, client, via, stage, req, sent, reply>>

Endpoint(r, c) == \/ GenerateRPC(r, c) \/ GenerateStreamRPC(r, c)
                  \/ GenerateHTTP(r, c) \/ GenerateStreamHTTP(r, c)
                  \/ HandleWebSocket(r, c)
                  \/ GenerateBatchHTTP(r, c) \/ GenerateBatchStreamHTTP(r, c)

Generate(r) == \/ Hit(r) \/ Miss(r) \/ Send(r) \/ NoRoute(r)
               \/ Answer(r) \/ Fail(r) \/ Store(r)

Next == \/ \E r \in Requests : (\E c \in world.clients : Endpoint(r, c)) \/ Generate(r)
        \/ Expire

Spec == Init /\ [][Next]_vars

-----------------------------------------------------------------------------
(* Properties.                                                             *)

Entries == {"grpc", "grpcStream", "http", "sse", "ws", "batch", "batchStream"}

TypeOK ==
  /\ world \in Worlds
  /\ client \in [Requests -> world.clients \union {None}]
  /\ via \in [Requests -> Entries \union {None}]
  /\ stage \in [Requests -> {"new", "asking", "routing", "waiting", "storing", "done"}]
  /\ req \in [Requests -> Asks \union {None}]
  /\ sent \in [Requests -> Question \union {None}]
  /\ reply \in [Requests -> Question \union {None}]
  /\ \A k \in DOMAIN cache : cache[k] \in Question

\* The cache had nothing for r, and it has gone to a provider or been turned
\* away.
Routed(r) == sent[r] # None \/ (stage[r] = "done" /\ req[r] # None /\ reply[r] = None)

\* No other registered provider lists a model of m's family, which is one that
\* selectProvider looks for.
Unmistakable(m, p) ==
  /\ m.family \notin {"none", "palm"}
  /\ \A o \in world.registered \ {p} : \A n \in ListModels[o] : n.family # m.family

\* An ID that a provider lists reaches that provider as that very model, and is
\* never turned away, when the client names the provider, when it is the only
\* one or when its family is unmistakable, whatever aliases the mapping tables
\* have: ListModels, selectProvider and the tables agree (manager.go 637-676,
\* aws_provider.go 826-921, azure_provider.go 432-460). An ID of a family that
\* both providers list, or of none, may go astray.
ListedReached ==
  \A r \in {q \in Requests : Routed(q)}, p \in world.registered :
    \A m \in {l \in ListModels[p] : l.id = Model} :
      \/ req[r].provider = p
      \/ req[r].provider = "" /\ (world.registered = {p} \/ Unmistakable(m, p))
      => sent[r] # None /\ sent[r].provider = p /\ sent[r].model = m.id

\* The model string is the ID or the name in a listing, which has a limit.
LimitListed ==
  \E m \in Listed(world.registered) : Model \in {m.id, m.name} /\ m.limit > 0

\* MAX_TOKENS, or the 4096 that stand for it, is a number of tokens that every
\* provider passes on as it is.
EnvUsable == world.maxTokens = Unset \/ world.maxTokens \in 1..MaxInt32

\* A request that leaves the limit to the server asks for at least one token, and
\* when it names its model by a listed ID or name for no more than the listing
\* allows, even when another provider lists the same name with a higher limit
\* (handler.go 57-81, aws_provider.go 826-921). A spelling that no listing has,
\* and a model listed without a limit, get MAX_TOKENS: it may be more than the
\* model allows, and one that is no number, zero, negative or wider than an
\* int32 may leave no token. So may a limit of the client's own: only zero is
\* replaced, a negative one is passed on, and one wider than an int32 is cut
\* for AWS's Claude models (71, 288) and not for others.
LimitUsable ==
  \A r \in {q \in Requests : sent[q] # None} :
    /\ sent[r].limit < 1 =>
         \/ client[r].limit # 0 /\ client[r].limit \notin 1..MaxInt32
         \/ client[r].limit = 0 /\ ~LimitListed /\ ~EnvUsable
    /\ client[r].limit = 0 /\ LimitListed =>
         \A m \in ListModels[sent[r].provider] :
           m.id = sent[r].model /\ m.limit > 0 => sent[r].limit <= m.limit

\* Requests with the same fields ask the same question through whichever of the
\* seven entry points they came, but for the "system" that gRPC and the batch
\* stream do not know, and a name that two providers list with different limits.
\* (The seven copies of the limit's defaults are the same text, and one operator
\* here: what differs between them is the system prompt.)
KnowsSystem(e) == e \in {"http", "sse", "ws", "batch"}
Ambiguous      == Cardinality(ListedLimits(world.registered, Model)) > 1

EndpointsAgree ==
  TypeOK /\ \A r, s \in Requests :
    /\ req[r] # None /\ req[s] # None /\ client[r] = client[s]
    /\ ~Ambiguous
    /\ client[r].system = "" \/ KnowsSystem(via[r]) = KnowsSystem(via[s])
    => req[r] = req[s]

\* Every answer was generated: for the request itself if it went to a provider,
\* and for one of the same hash and limit if it was found in the cache, whatever
\* entry point, race or expiry put it there (manager.go 678-688). The provider
\* and the system prompt are not in the key, and may be another client's. Nor is
\* the prompt, and the property does not claim that it is the same: "Aa" and "BB"
\* have one hash, so that the one is answered with the other's answer (740-747).
AnswerFits ==
  \A r \in Requests : reply[r] # None =>
    /\ sent[r] # None => reply[r] = sent[r]
    /\ \E s \in Requests :
         /\ sent[s] = reply[r]
         /\ hashString(req[s].prompt) = hashString(req[r].prompt)
         /\ req[s].limit = req[r].limit
=============================================================================
