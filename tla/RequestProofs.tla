--------------------------- MODULE RequestProofs ---------------------------
(***************************************************************************)
(* Machine-checked proofs about RequestPath, for any requests and clients, *)
(* any providers registered, any MAX_TOKENS, any model string and any      *)
(* widths of the integers. The first part is about the tables of           *)
(* ModelCatalog: what a listed ID or name is taken for, and what narrowing *)
(* leaves of a limit. The inductive invariant says of each request that it *)
(* is what its entry point made of the client's fields (Posed) and that    *)
(* what its provider was asked was made of it (Directed); of each cached   *)
(* answer that a request with its key was given it by a provider (Keyed);  *)
(* and the same of each reply (Founded).                                   *)
(***************************************************************************)
EXTENDS RequestPath, FiniteSetTheorems, TLAPS

-----------------------------------------------------------------------------
(* The tables.                                                             *)

LEMMA Units == K \in Nat /\ Ki \in Nat /\ K > 0 /\ K < Ki /\ 64 * Ki < 128 * K
BY DEF K, Ki

LEMMA Catalog ==
  AllListings = AwsClaude \union AwsLlama \union AwsOthers \union AzureModels
BY DEF AllListings, Providers, ListModels

LEMMA ListingTypes ==
  \A m \in AllListings :
    /\ m.limit \in 0 .. 300 * K
    /\ m.id \in IDs /\ m.name \in Names /\ m.named \in IDs \union Names
<1>1. \A m \in AllListings : m.id \in IDs /\ m.name \in Names
  BY DEF IDs, Names
<1>2. \A m \in AwsClaude : m.limit \in 0 .. 300 * K /\ \E n \in AwsClaude : m.named \in {n.id, n.name}
  BY Units DEF AwsClaude, Listing
<1>3. \A m \in AwsLlama : m.limit \in 0 .. 300 * K /\ m.named \in {m.id, m.name}
  BY Units DEF AwsLlama, Listing
<1>4. \A m \in AwsOthers : m.limit \in 0 .. 300 * K /\ m.named \in {m.id, m.name}
  BY Units DEF AwsOthers, Listing
<1>5. \A m \in AzureModels : m.limit \in 0 .. 300 * K /\ m.named \in {m.id, m.name}
  BY Units DEF AzureModels, Listing
<1>6. QED
  BY <1>1, <1>2, <1>3, <1>4, <1>5, Catalog

\* An ID is listed once.
LEMMA OneListing ==
  ASSUME NEW l \in AllListings, NEW m \in AllListings, l.id = m.id
  PROVE  l = m
BY Catalog DEF AwsClaude, AwsLlama, AwsOthers, AzureModels, Listing

\* No ID is a name.
LEMMA IDNoName ==
  ASSUME NEW l \in AllListings, NEW m \in AllListings
  PROVE  l.id # m.name
BY Catalog DEF AwsClaude, AwsLlama, AwsOthers, AzureModels, Listing

\* No listing has an empty ID or name.
LEMMA NotEmpty == \A m \in AllListings : m.id # "" /\ m.name # ""
<1> DEFINE ids == {"us.anthropic.claude-3-haiku-20240307-v1:0",
                   "us.anthropic.claude-3-5-sonnet-20240620-v1:0",
                   "us.anthropic.claude-3-5-sonnet-20241022-v2:0",
                   "us.anthropic.claude-3-7-sonnet-20250219-v1:0",
                   "us.meta.llama3-2-11b-instruct-v1:0",
                   "us.meta.llama3-3-70b-instruct-v1:0", "us.amazon.nova-pro-v1:0",
                   "us.deepseek.r1-v1:0", "us.mistral.pixtral-large-2502-v1:0",
                   "us.writer.palmyra-x4-v1:0", "us.stability.stable-image-inpaint-v1:0",
                   "amazon.titan-text-express-v1", "DeepSeek-R1", "DeepSeek-V3-0324",
                   "gpt-4.1", "gpt-4o", "gpt-5-chat", "o4-mini", "Llama-3.3-70B-Instruct",
                   "grok-3"}
           names == {"Claude_3_Haiku", "Claude_3.5_Sonnet", "Claude_3.5_Sonnet_v2",
                     "Claude_3.7_Sonnet", "Llama_3.2_11B_Instruct", "Llama_3.3_70B_Instruct",
                     "Nova_Pro", "DeepSeek_R1", "Pixtral_Large_25.02", "Palmyra_X4",
                     "Stable_Image_Inpaint", "Titan_Text_Express", "DeepSeek_V3_0324",
                     "GPT-4.1", "GPT-4o", "GPT-5_Chat", "O4_Mini", "Grok_3"}
<1>1. \A m \in AwsClaude \union AwsLlama : m.id \in ids /\ m.name \in names
  BY DEF AwsClaude, AwsLlama, Listing
<1>2. \A m \in AwsOthers : m.id \in ids /\ m.name \in names
  BY DEF AwsOthers, Listing
<1>3. \A m \in AzureModels : m.id \in ids /\ m.name \in names
  BY DEF AzureModels, Listing
<1>4. "" \notin ids /\ "" \notin names
  BY Zenon
<1> HIDE DEF ids, names
<1>5. QED
  BY <1>1, <1>2, <1>3, <1>4, Catalog

\* The tables take no other provider's spelling for an ID, and no ID for anything
\* but itself.
LEMMA KnownID ==
  ASSUME NEW p \in Providers, NEW m \in ListModels[p]
  PROVE  MapModel(p, m.id) = m.id
<1>1. m \in AllListings /\ ListModels[p] \subseteq AllListings
  BY DEF AllListings
<1>2. \A a \in Spellings[p] : a[1] # m.id
  <2>1. \A a \in AwsSpellings, l \in AwsClaude \union AwsLlama \union AwsOthers : a[1] # l.id
    BY DEF AwsSpellings, AwsClaude, AwsLlama, AwsOthers, Listing
  <2>2. \A a \in AzureSpellings, l \in AzureModels : a[1] # l.id
    BY DEF AzureSpellings, AzureModels, Listing
  <2>3. QED
    BY <2>1, <2>2 DEF Providers, ListModels, Spellings
<1>3. \A u \in Known(p, m.id) : u = m.id
  BY <1>1, <1>2, IDNoName DEF Known
<1>4. QED
  BY <1>3 DEF MapModel

LEMMA MapCases ==
  ASSUME NEW p \in Providers, NEW model
  PROVE  \/ MapModel(p, model) = model
         \/ \E l \in ListModels[p] : l.name = model /\ MapModel(p, model) = l.named
         \/ \E a \in Spellings[p] : a[1] = model /\ MapModel(p, model) = a[3]
<1>1. CASE Known(p, model) = {}
  BY <1>1 DEF MapModel
<1>2. CASE Known(p, model) # {}
  <2>1. MapModel(p, model) \in Known(p, model)
    BY <1>2 DEF MapModel
  <2>2. QED
    BY <2>1 DEF Known
<1>3. QED
  BY <1>1, <1>2

LEMMA MapType ==
  ASSUME NEW p \in Providers, NEW model \in Strings
  PROVE  MapModel(p, model) \in Strings
<1>1. ListModels[p] \subseteq AllListings /\ Spellings[p] \subseteq AllSpellings
  BY DEF AllListings, AllSpellings
<1>2. \A l \in ListModels[p] : l.named \in Strings
  BY <1>1, ListingTypes DEF Strings
<1>3. \A a \in Spellings[p] : a[3] \in Strings
  BY <1>1 DEF Strings
<1>4. QED
  BY <1>2, <1>3, MapCases

LEMMA TargetType ==
  ASSUME NEW p \in Providers, NEW model \in Strings, NEW streams, NEW azureModel \in Strings
  PROVE  MapModel(p, Requested(p, model, streams, azureModel)) \in Strings
<1>1. "gpt-4.1" \in Strings
  <2>1. \E m \in AzureModels : m.id = "gpt-4.1"
    BY DEF AzureModels, Listing
  <2>2. QED
    BY <2>1, Catalog DEF Strings, IDs
<1>2. Requested(p, model, streams, azureModel) \in Strings
  BY <1>1 DEF Requested
<1>3. QED
  BY <1>2, MapType

\* Narrowing makes an int32 of a limit, the same one if it is not negative and fits.
LEMMA Narrowed ==
  ASSUME NEW n \in Int
  PROVE  AsInt32(n) \in Int /\ (n \in 0 .. MaxInt32 => AsInt32(n) = n)
<1>1. MaxInt32 \in Nat
  BY CatalogAssumption
<1> DEFINE w == 2 * (MaxInt32 + 1)
           x == n + MaxInt32 + 1
<1>2. w \in Nat /\ w > 0 /\ x \in Int
  BY <1>1
<1>3. n \in 0 .. MaxInt32 => x >= 0 /\ x < w
  BY <1>1
<1>4. AsInt32(n) = (x % w) - (MaxInt32 + 1)
  BY DEF AsInt32
<1> HIDE DEF w
<1>5. x % w \in Int
  BY <1>2
<1>6. n \in 0 .. MaxInt32 => x % w = x
  BY <1>2, <1>3
<1>7. QED
  BY <1>1, <1>4, <1>5, <1>6

LEMMA SentLimit ==
  ASSUME NEW p, NEW model, NEW n \in Int
  PROVE  /\ LimitSent(p, model, n) \in Int
         /\ n \in 0 .. MaxInt32 => LimitSent(p, model, n) = n
         /\ LimitSent(p, model, n) < 1 => n \notin 1 .. MaxInt32
<1>1. CASE Converses(p, model)
  <2>1. n \in 1 .. MaxInt32 => n \in 0 .. MaxInt32 /\ ~(n < 1)
    BY CatalogAssumption
  <2>2. QED
    BY <1>1, <2>1, Narrowed DEF LimitSent
<1>2. CASE ~Converses(p, model)
  BY <1>2, CatalogAssumption DEF LimitSent
<1>3. QED
  BY <1>1, <1>2

\* selectProvider finds one family in an ID, that of its listing.
LEMMA FamilyOfID ==
  ASSUME NEW m \in AllListings
  PROVE  Families(m.id) = {m.family}
<1>1. \A l \in AllListings : StandsFor(l, m.id) => l = m
  BY OneListing, IDNoName DEF StandsFor
<1>2. StandsFor(m, m.id)
  BY DEF StandsFor
<1>3. \A a \in AllSpellings : a[1] = m.id => a[2] = m.family
  <2>1. AllSpellings = AwsSpellings \union AzureSpellings
    BY DEF AllSpellings, Providers, Spellings
  <2>2. QED
    BY <2>1, Catalog DEF AwsSpellings, AzureSpellings, AwsClaude, AwsLlama, AwsOthers, AzureModels, Listing
<1>4. QED
  BY <1>1, <1>2, <1>3 DEF Families

\* A listed ID goes to its provider when no other could be meant.
LEMMA Home ==
  ASSUME NEW registered \in SUBSET Providers, NEW p \in registered, NEW m \in ListModels[p],
         \/ registered = {p}
         \/ /\ m.family \notin {"none", "palm"}
            /\ \A o \in registered \ {p} : \A n \in ListModels[o] : n.family # m.family
  PROVE  SelectProvider(registered, m.id) = {p}
<1>1. m \in AllListings
  BY DEF AllListings
<1>2. Families(m.id) = {m.family}
  BY <1>1, FamilyOfID
<1>3. CASE registered = {p}
  <2>1. p = "aws" \/ p = "azure"
    BY DEF Providers
  <2>2. QED
    BY <1>3, <2>1 DEF SelectProvider, Takes, FirstOf
<1>4. CASE registered # {p}
  <2>1. registered = {"aws", "azure"}
    BY <1>4 DEF Providers
  <2>2. CASE p = "aws"
    <3>1. m.family \in {"claude", "llama", "deepseek", "titan"}
      BY <1>4, <2>2 DEF ListModels, AwsClaude, AwsLlama, AwsOthers, Listing
    <3>2. \E n \in ListModels["azure"] : n.family = "deepseek"
      BY DEF ListModels, AzureModels, Listing
    <3>3. m.family \in AwsFamilies
      BY <1>4, <2>1, <2>2, <3>1, <3>2 DEF AwsFamilies
    <3>4. QED
      BY <1>2, <2>1, <2>2, <3>3 DEF SelectProvider, Takes
  <2>3. CASE p = "azure"
    <3>1. m.family \in {"deepseek", "gpt", "o4", "llama", "grok"}
      BY <2>3 DEF ListModels, AzureModels, Listing
    <3>2. \E n \in ListModels["aws"] : n.family = "llama"
      <4>1. AwsLlama # {} /\ \A n \in AwsLlama : n.family = "llama"
        BY DEF AwsLlama, Listing
      <4>2. QED
        BY <4>1 DEF ListModels
    <3>3. m.family \in AzureFamilies /\ m.family \notin AwsFamilies
      BY <1>4, <2>1, <2>3, <3>1, <3>2 DEF AwsFamilies, AzureFamilies
    <3>4. QED
      BY <1>2, <2>1, <2>3, <3>3 DEF SelectProvider, Takes
  <2>4. QED
    BY <2>1, <2>2, <2>3
<1>5. QED
  BY <1>3, <1>4

\* A listing's limit is one that the model its ID or name is taken for allows.
LEMMA LimitFits ==
  ASSUME NEW l \in AllListings, l.limit > 0, NEW model \in {l.id, l.name},
         NEW p \in Providers, NEW m \in ListModels[p], m.limit > 0, m.id = MapModel(p, model)
  PROVE  l.limit <= m.limit
<1>1. m \in AllListings /\ ListModels[p] \subseteq AllListings
  BY DEF AllListings
<1>2. l.limit \in Nat /\ m.limit \in Nat
  BY <1>1, Units, ListingTypes
<1>3. CASE m.id = model
  <2>1. l = m
    BY <1>1, <1>3, OneListing, IDNoName
  <2>2. QED
    BY <1>2, <2>1
<1>4. ASSUME NEW n \in ListModels[p], n.name = model, m.id = n.named
      PROVE  l.limit <= m.limit
  <2>1. n \in AllListings /\ l.name = n.name
    BY <1>1, <1>4, IDNoName
  <2>2. CASE n \in AwsClaude
    <3>1. m \in AwsClaude
      BY <1>1, <1>4, <2>2, Catalog DEF AwsClaude, AwsLlama, AwsOthers, AzureModels, Listing
    <3>2. l \in AwsClaude
      BY <2>1, <2>2, Catalog DEF AwsClaude, AwsLlama, AwsOthers, AzureModels, Listing
    <3>3. QED
      BY <1>2, <3>1, <3>2 DEF AwsClaude, Listing
  <2>3. CASE n \notin AwsClaude
    <3>1. m.id = n.id
      <4>1. n.named \in {n.id, n.name}
        BY <2>1, <2>3, Catalog DEF AwsLlama, AwsOthers, AzureModels, Listing
      <4>2. QED
        BY <1>1, <1>4, <2>1, <4>1, IDNoName
    <3>2. l.limit <= n.limit
      <4>1. n.id = n.named
        BY <1>4, <3>1
      <4>2. l = n \/ (l.limit = 2 * Ki /\ n.limit = 64 * Ki)
        BY <2>1, <2>3, <4>1, Catalog DEF AwsClaude, AwsLlama, AwsOthers, AzureModels, Listing
      <4>3. QED
        BY <1>2, <2>1, <4>2, ListingTypes, Units
    <3>3. QED
      BY <1>1, <2>1, <3>1, <3>2, OneListing
  <2>4. QED
    BY <2>2, <2>3
<1>5. ASSUME NEW a \in Spellings[p], a[1] = model, m.id = a[3]
      PROVE  l.limit <= m.limit
  <2>1. l.id = "DeepSeek-R1" /\ m.id = "us.deepseek.r1-v1:0"
    BY <1>5, Catalog DEF Providers, Spellings, AwsSpellings, AzureSpellings, AwsClaude,
       AwsLlama, AwsOthers, AzureModels, Listing
  <2>2. l.limit = 2 * Ki
    BY <2>1, Catalog DEF AwsClaude, AwsLlama, AwsOthers, AzureModels, Listing
  <2>3. m.limit = 64 * Ki
    BY <1>1, <2>1, Catalog DEF AwsClaude, AwsLlama, AwsOthers, AzureModels, Listing
  <2>4. QED
    BY <2>2, <2>3, Units
<1>6. QED
  BY <1>3, <1>4, <1>5, MapCases

\* selectProvider finds registered providers only, and one whenever there is any.
LEMMA SelectRegistered ==
  ASSUME NEW registered \in SUBSET Providers, NEW model
  PROVE  /\ SelectProvider(registered, model) \subseteq registered
         /\ registered # {} => SelectProvider(registered, model) # {}
BY DEF SelectProvider, Takes, FirstOf

\* The default limits: a listed one, or that of MAX_TOKENS.
LEMMA DefaultsType ==
  ASSUME NEW registered \in SUBSET Providers, NEW model,
         NEW env \in Int \union {Unset, Unparsable}
  PROVE  /\ DefaultLimits(registered, model, env) \subseteq Int
         /\ ListedLimits(registered, model) \subseteq 1 .. 300 * K
         /\ env = Unset \/ env \in 1 .. MaxInt32 =>
              DefaultLimits(registered, model, env) \subseteq 1 .. MaxInt32
<1>1. Listed(registered) \subseteq AllListings
  BY DEF Listed, AllListings
<1>2. \A n \in ListedLimits(registered, model) : n \in 1 .. 300 * K
  <2>1. \A n \in 0 .. 300 * K : n > 0 => n \in 1 .. 300 * K
    BY Units
  <2>2. QED
    BY <1>1, <2>1, ListingTypes DEF ListedLimits, HasLimit
<1>3. 4 * Ki \in 1 .. MaxInt32 /\ \A n \in 1 .. 300 * K : n \in 1 .. MaxInt32
  <2>1. MaxInt32 \in Nat /\ MaxInt32 >= 300 * 1000
    BY CatalogAssumption DEF K
  <2>2. 4 * Ki \in 1 .. MaxInt32
    BY <2>1 DEF Ki
  <2>3. \A n \in 1 .. 300 * K : n \in 1 .. MaxInt32
    <3>1. 300 * K \in Nat
      BY Units
    <3> DEFINE most == 300 * K
    <3>2. most \in Nat /\ most <= MaxInt32
      BY <2>1, <3>1 DEF K
    <3> HIDE DEF most
    <3>3. \A n \in 1 .. most : n \in 1 .. MaxInt32
      BY <2>1, <3>2
    <3>4. QED
      BY <3>3 DEF most
  <2>4. QED
    BY <2>2, <2>3
<1>4. EnvLimit(env) \in Int
  BY <1>3, CatalogAssumption DEF EnvLimit
<1>5. env = Unset \/ env \in 1 .. MaxInt32 => EnvLimit(env) \in 1 .. MaxInt32
  <2>1. \A n \in 1 .. MaxInt32 : n # Unset /\ n # Unparsable
    BY CatalogAssumption
  <2>2. QED
    BY <1>3, <2>1, CatalogAssumption DEF EnvLimit
<1>6. \A n \in 1 .. 300 * K : n \in Int
  BY Units
<1>7. QED
  BY <1>2, <1>3, <1>4, <1>5, <1>6 DEF DefaultLimits

\* A name without competing limits has one default.
LEMMA OneDefault ==
  ASSUME NEW registered \in SUBSET Providers, NEW model, NEW env \in Int \union {Unset, Unparsable},
         ~(Cardinality(ListedLimits(registered, model)) > 1),
         NEW a \in DefaultLimits(registered, model, env),
         NEW b \in DefaultLimits(registered, model, env)
  PROVE  a = b
<1> DEFINE found == ListedLimits(registered, model)
<1>1. CASE found = {}
  BY <1>1 DEF DefaultLimits
<1>2. CASE found # {}
  <2>1. a \in found /\ b \in found /\ found \subseteq 1 .. 300 * K
    BY <1>2, DefaultsType DEF DefaultLimits
  <2> HIDE DEF found
  <2>2. IsFiniteSet(1 .. 300 * K)
    BY Units, FS_Interval
  <2>3. IsFiniteSet(found)
    BY <2>1, <2>2, FS_Subset
  <2>4. SUFFICES ASSUME a # b PROVE FALSE
    OBVIOUS
  <2>5. IsFiniteSet({a}) /\ Cardinality({a}) = 1 /\ b \notin {a} /\ {a} \union {b} \subseteq found
    BY <2>1, <2>4, FS_Singleton
  <2>6. Cardinality({a} \union {b}) = 2
    <3>1. Cardinality({a} \union {b}) = Cardinality({a}) + 1
      BY <2>5, FS_AddElement
    <3>2. QED
      BY <2>5, <3>1
  <2>7. Cardinality({a} \union {b}) <= Cardinality(found)
    BY <2>3, <2>5, FS_Subset
  <2>8. Cardinality(found) \in Nat
    BY <2>3, FS_CardinalityType
  <2>9. QED
    BY <2>6, <2>7, <2>8 DEF found
<1>3. QED
  BY <1>1, <1>2

-----------------------------------------------------------------------------
(* The inductive invariant.                                                *)

\* r is what its entry point made of the client's fields.
Posed(r) ==
  LET c == client[r] IN
  /\ c \in world.clients
  /\ req[r].prompt = c.prompt /\ req[r].provider = c.provider
  /\ req[r].system = IF KnowsSystem(via[r]) THEN Aliased(c) ELSE c.systemPrompt
  /\ IF c.limit = 0 THEN req[r].limit \in DefaultLimits(world.registered, Model, world.maxTokens)
                    ELSE req[r].limit = c.limit

\* Its provider is one the request may go to, and is asked what r asks.
Directed(r) ==
  /\ sent[r].provider \in Route(req[r])
  /\ sent[r].model = Target(r, sent[r].provider)
  /\ sent[r].prompt = req[r].prompt
  /\ sent[r].limit = LimitSent(sent[r].provider, sent[r].model, req[r].limit)

\* What has happened to r by stage[r].
Staged(r) ==
  /\ stage[r] = "new" => req[r] = None
  /\ stage[r] \notin {"new", "done"} \/ sent[r] # None => req[r] # None
  /\ stage[r] \in {"waiting", "storing"} => sent[r] # None
  /\ stage[r] \in {"new", "asking", "routing"} => sent[r] = None
  /\ stage[r] \in {"new", "asking", "routing", "waiting"} => reply[r] = None
  /\ stage[r] = "storing" => reply[r] = sent[r]
  /\ sent[r] # None /\ reply[r] # None => reply[r] = sent[r]
  /\ stage[r] = "done" /\ req[r] # None /\ sent[r] = None /\ reply[r] = None => Route(req[r]) = {}

Right(r) ==
  /\ Staged(r)
  /\ req[r] # None => Posed(r)
  /\ sent[r] # None => Directed(r)

\* An entry is what a provider answered to a request with its key.
Keyed ==
  \A k \in DOMAIN cache : \E s \in Requests : sent[s] = cache[k] /\ k = CacheKey(req[s])

\* And so is a reply.
Founded ==
  \A r \in Requests : reply[r] # None =>
    \E s \in Requests : sent[s] = reply[r] /\ CacheKey(req[s]) = CacheKey(req[r])

EachRight  == TypeOK /\ (\A r \in Requests : Right(r))
RequestInv == EachRight /\ Keyed /\ Founded

-----------------------------------------------------------------------------
(* The steps.                                                              *)

LEMMA WorldType ==
  ASSUME TypeOK
  PROVE  /\ world.registered \in SUBSET Providers /\ Model \in Strings
         /\ world.maxTokens \in Int \union {Unset, Unparsable} /\ world.azureModel \in Strings
         /\ world.clients \subseteq Client
<1>1. world \in World
  BY RequestAssumption DEF TypeOK
<1>2. QED
  BY <1>1 DEF World, Model, Strings

LEMMA RouteType ==
  ASSUME TypeOK, NEW q
  PROVE  Route(q) \subseteq world.registered /\ Route(q) \subseteq Providers
BY WorldType, SelectRegistered DEF Route

\* A request that a step is not about.
LEMMA RightKept ==
  ASSUME NEW x, Right(x), world' = world, client'[x] = client[x], via'[x] = via[x],
         stage'[x] = stage[x], req'[x] = req[x], sent'[x] = sent[x], reply'[x] = reply[x]
  PROVE  Right(x)'
<1>1. Staged(x)' /\ (sent'[x] # None => Directed(x)')
  BY DEF Right, Staged, Directed, Route, Target, Model
<1>2. req'[x] # None => Posed(x)'
  BY DEF Right, Posed, Model
<1>3. QED
  BY <1>1, <1>2 DEF Right

\* What each entry point makes of the fields.
LEMMA EndpointForm ==
  ASSUME NEW r, NEW c, Endpoint(r, c)
  PROVE  \/ Refuse(r, c)
         \/ \E e \in Entries : Arrive(r, c, e, IF KnowsSystem(e) THEN Aliased(c) ELSE c.systemPrompt)
BY DEF Endpoint, GenerateRPC, GenerateStreamRPC, Called, GenerateHTTP, GenerateStreamHTTP, HandleWebSocket,
       GenerateBatchHTTP, GenerateBatchStreamHTTP, Entries, KnowsSystem

LEMMA ArriveStep ==
  ASSUME EachRight, NEW r \in Requests, NEW c \in world.clients, NEW e \in Entries,
         Arrive(r, c, e, IF KnowsSystem(e) THEN Aliased(c) ELSE c.systemPrompt)
  PROVE  EachRight'
<1> DEFINE system == IF KnowsSystem(e) THEN Aliased(c) ELSE c.systemPrompt
           limits == IF c.limit = 0
                     THEN DefaultLimits(world.registered, Model, world.maxTokens)
                     ELSE {c.limit}
<1>1. c \in Client /\ limits \subseteq Int
  BY WorldType, DefaultsType DEF EachRight, Client
<1>2. system \in {"", "s", "p"}
  BY <1>1 DEF Client, Aliased
<1>3. PICK limit \in limits :
        req' = [req EXCEPT ![r] =
          [prompt |-> c.prompt, provider |-> c.provider, limit |-> limit, system |-> system]]
  BY DEF Arrive
<1>4. /\ stage[r] = "new"
      /\ client' = [client EXCEPT ![r] = c] /\ via' = [via EXCEPT ![r] = e]
      /\ stage' = [stage EXCEPT ![r] = "asking"]
      /\ UNCHANGED <<world, sent, reply, cache>>
  BY DEF Arrive, GoTo
<1> DEFINE q == [prompt |-> c.prompt, provider |-> c.provider, limit |-> limit, system |-> system]
<1>5. q \in Asks
  BY <1>1, <1>2 DEF Client, Asks
<1> HIDE DEF system, limits
<1>6. /\ q.prompt = c.prompt /\ q.provider = c.provider /\ q.limit = limit /\ q.system = system
  OBVIOUS
<1>7. req' = [req EXCEPT ![r] = q]
  BY <1>3
<1> HIDE DEF q
<1>8. TypeOK'
  <2>1. req' \in [Requests -> Asks \union {None}]
    BY <1>5, <1>7 DEF EachRight, TypeOK
  <2>2. client' \in [Requests -> world.clients \union {None}]
    BY <1>4 DEF EachRight, TypeOK
  <2>3. via' \in [Requests -> Entries \union {None}]
    BY <1>4 DEF EachRight, TypeOK
  <2>4. QED
    BY <1>4, <2>1, <2>2, <2>3 DEF EachRight, TypeOK
<1>9. ASSUME NEW x \in Requests PROVE Right(x)'
  <2>1. CASE x # r
    <3>1. /\ client'[x] = client[x] /\ via'[x] = via[x] /\ stage'[x] = stage[x] /\ req'[x] = req[x]
          /\ sent'[x] = sent[x] /\ reply'[x] = reply[x]
      BY <1>4, <1>7, <2>1 DEF EachRight, TypeOK
    <3>2. QED
      BY <1>4, <3>1, RightKept DEF EachRight
  <2>2. CASE x = r
    <3>1. client'[r] = c /\ via'[r] = e /\ stage'[r] = "asking" /\ req'[r] = q
      BY <1>4, <1>7 DEF EachRight, TypeOK
    <3>2. sent'[r] = None /\ reply'[r] = None
      BY <1>4 DEF EachRight, Right, Staged
    <3>3. q # None
      BY <1>5, RequestAssumption
    <3>4. Staged(r)'
      BY <3>1, <3>2, <3>3 DEF Staged
    <3>5. Posed(r)'
      BY <1>3, <1>4, <1>6, <3>1 DEF Posed, Model, system, limits
    <3>6. QED
      BY <2>2, <3>2, <3>4, <3>5 DEF Right
  <2>3. QED
    BY <2>1, <2>2
<1>10. QED
  BY <1>8, <1>9 DEF EachRight

\* The steps that move r alone and touch neither the cache nor the fields.
LEMMA OwnStep ==
  ASSUME EachRight, NEW r \in Requests, NEW where,
         where \in {"new", "asking", "routing", "waiting", "storing", "done"}, GoTo(r, where),
         NEW s \in Question \union {None}, sent' = [sent EXCEPT ![r] = s],
         NEW a \in Question \union {None}, reply' = [reply EXCEPT ![r] = a],
         UNCHANGED <<world, client, via, req, cache>>, Right(r)'
  PROVE  EachRight'
<1>1. TypeOK'
  <2>1. stage' \in [Requests -> {"new", "asking", "routing", "waiting", "storing", "done"}]
    BY DEF GoTo, EachRight, TypeOK
  <2>2. sent' \in [Requests -> Question \union {None}]
    BY DEF EachRight, TypeOK
  <2>3. reply' \in [Requests -> Question \union {None}]
    BY DEF EachRight, TypeOK
  <2>4. QED
    BY <2>1, <2>2, <2>3 DEF EachRight, TypeOK
<1>2. ASSUME NEW x \in Requests PROVE Right(x)'
  <2>1. CASE x # r
    <3>1. stage'[x] = stage[x] /\ sent'[x] = sent[x] /\ reply'[x] = reply[x]
      BY <2>1 DEF GoTo, EachRight, TypeOK
    <3>2. QED
      BY <3>1, RightKept DEF EachRight
  <2>2. QED
    BY <2>1
<1>3. QED
  BY <1>1, <1>2 DEF EachRight

LEMMA HitStep ==
  ASSUME EachRight, NEW r \in Requests, Hit(r)
  PROVE  EachRight'
<1> DEFINE a == cache[CacheKey(req[r])]
<1>1. /\ stage[r] = "asking" /\ CacheKey(req[r]) \in DOMAIN cache
      /\ reply' = [reply EXCEPT ![r] = a] /\ GoTo(r, "done")
      /\ UNCHANGED <<world, client, via, req, sent, cache>>
  BY DEF Hit
<1>2. a \in Question
  BY <1>1 DEF EachRight, TypeOK
<1>3. a # None
  BY <1>2, RequestAssumption
<1> HIDE DEF a
<1>4. stage'[r] = "done" /\ reply'[r] = a /\ sent'[r] = sent[r] /\ sent[r] = None
  BY <1>1 DEF GoTo, EachRight, TypeOK, Right, Staged
<1>5. Posed(r)' <=> Posed(r)
  BY <1>1 DEF Posed, Model
<1>6. Right(r)'
  BY <1>1, <1>3, <1>4, <1>5 DEF EachRight, Right, Staged
<1>7. sent' = [sent EXCEPT ![r] = sent[r]] /\ sent[r] \in Question \union {None}
  BY <1>1 DEF EachRight, TypeOK
<1>8. QED
  BY <1>1, <1>2, <1>6, <1>7, OwnStep

\* A step that only moves r on.
LEMMA MoveStep ==
  ASSUME EachRight, NEW r \in Requests, NEW where,
         where \in {"new", "asking", "routing", "waiting", "storing", "done"}, GoTo(r, where),
         UNCHANGED <<world, client, via, req, sent, reply, cache>>, Staged(r)'
  PROVE  EachRight'
<1>1. Right(r)'
  <2>1. req'[r] # None => Posed(r)'
    BY DEF EachRight, Right, Posed, Model
  <2>2. sent'[r] # None => Directed(r)'
    BY DEF EachRight, Right, Directed, Route, Target, Model
  <2>3. QED
    BY <2>1, <2>2 DEF Right
<1>2. sent' = [sent EXCEPT ![r] = sent[r]] /\ sent[r] \in Question \union {None}
  BY DEF EachRight, TypeOK
<1>3. reply' = [reply EXCEPT ![r] = reply[r]] /\ reply[r] \in Question \union {None}
  BY DEF EachRight, TypeOK
<1>4. QED
  BY <1>1, <1>2, <1>3, OwnStep

LEMMA MoveSteps ==
  ASSUME EachRight, NEW r \in Requests,
         Miss(r) \/ NoRoute(r) \/ Fail(r) \/ \E c \in world.clients : Refuse(r, c)
  PROVE  EachRight'
<1> USE DEF EachRight
<1>1. Staged(r)
  BY DEF Right
<1>2. CASE Miss(r)
  <2>1. stage'[r] = "routing" /\ stage[r] = "asking" /\ GoTo(r, "routing")
        /\ UNCHANGED <<world, client, via, req, sent, reply, cache>>
    BY <1>2 DEF Miss, GoTo, TypeOK
  <2>2. Staged(r)'
    BY <1>1, <2>1 DEF Staged
  <2>3. QED
    BY <2>1, <2>2, MoveStep
<1>3. CASE NoRoute(r)
  <2>1. /\ stage'[r] = "done" /\ stage[r] = "routing" /\ GoTo(r, "done") /\ Route(req[r]) = {}
        /\ UNCHANGED <<world, client, via, req, sent, reply, cache>>
    BY <1>3 DEF NoRoute, GoTo, TypeOK
  <2>2. Staged(r)'
    BY <1>1, <2>1 DEF Staged, Route, Model
  <2>3. QED
    BY <2>1, <2>2, MoveStep
<1>4. CASE Fail(r)
  <2>1. stage'[r] = "done" /\ stage[r] = "waiting" /\ GoTo(r, "done")
        /\ UNCHANGED <<world, client, via, req, sent, reply, cache>>
    BY <1>4 DEF Fail, GoTo, TypeOK
  <2>2. Staged(r)'
    BY <1>1, <2>1 DEF Staged
  <2>3. QED
    BY <2>1, <2>2, MoveStep
<1>5. ASSUME NEW c \in world.clients, Refuse(r, c) PROVE EachRight'
  <2>1. stage'[r] = "done" /\ stage[r] = "new" /\ GoTo(r, "done")
        /\ UNCHANGED <<world, client, via, req, sent, reply, cache>>
    BY <1>5 DEF Refuse, GoTo, TypeOK
  <2>2. Staged(r)'
    BY <1>1, <2>1 DEF Staged
  <2>3. QED
    BY <2>1, <2>2, MoveStep
<1>6. QED
  BY <1>2, <1>3, <1>4, <1>5

LEMMA SendStep ==
  ASSUME EachRight, NEW r \in Requests, Send(r)
  PROVE  EachRight'
<1>1. stage[r] = "routing" /\ GoTo(r, "waiting")
      /\ UNCHANGED <<world, client, via, req, reply, cache>>
  BY DEF Send
<1>2. PICK p \in Route(req[r]) :
        sent' = [sent EXCEPT ![r] =
         [provider |-> p, model |-> Target(r, p), prompt |-> req[r].prompt,
          limit |-> LimitSent(p, Target(r, p), req[r].limit), system |-> req[r].system]]
  BY DEF Send
<1> DEFINE limit == LimitSent(p, Target(r, p), req[r].limit)
           q == [provider |-> p, model |-> Target(r, p), prompt |-> req[r].prompt,
                 limit |-> limit, system |-> req[r].system]
<1>3. /\ q.provider = p /\ q.model = Target(r, p) /\ q.prompt = req[r].prompt
      /\ q.limit = limit /\ q.system = req[r].system
  OBVIOUS
<1>4. q \in Question
  <2>1. req[r] \in Asks
    BY <1>1 DEF EachRight, TypeOK, Right, Staged
  <2>2. p \in Providers /\ Target(r, p) \in Strings
    BY RouteType, WorldType, TargetType DEF EachRight, Target
  <2>3. limit \in Int
    BY <2>1, SentLimit DEF Asks
  <2> HIDE DEF limit
  <2>4. QED
    BY <2>1, <2>2, <2>3 DEF Asks, Question
<1>5. sent' = [sent EXCEPT ![r] = q]
  BY <1>2
<1> HIDE DEF q
<1>6. stage'[r] = "waiting" /\ sent'[r] = q /\ q # None /\ reply'[r] = None
  BY <1>1, <1>4, <1>5, RequestAssumption DEF GoTo, EachRight, TypeOK, Right, Staged
<1>7. Staged(r)'
  BY <1>1, <1>6 DEF EachRight, Right, Staged
<1>8. Directed(r)'
  <2>1. Route(req[r])' = Route(req[r]) /\ Target(r, p)' = Target(r, p)
    BY <1>1 DEF Route, Target, Model
  <2>2. QED
    BY <1>1, <1>2, <1>3, <1>6, <2>1 DEF Directed, Model
<1>9. req'[r] # None => Posed(r)'
  BY <1>1 DEF EachRight, Right, Posed, Model
<1>10. Right(r)'
  BY <1>6, <1>7, <1>8, <1>9 DEF Right
<1>11. reply' = [reply EXCEPT ![r] = reply[r]] /\ reply[r] \in Question \union {None}
  BY <1>1 DEF EachRight, TypeOK
<1>12. QED
  BY <1>1, <1>4, <1>5, <1>10, <1>11, OwnStep

LEMMA AnswerStep ==
  ASSUME EachRight, NEW r \in Requests, Answer(r)
  PROVE  EachRight'
<1>1. /\ stage[r] = "waiting" /\ GoTo(r, "storing") /\ reply' = [reply EXCEPT ![r] = sent[r]]
      /\ UNCHANGED <<world, client, via, req, sent, cache>>
  BY DEF Answer
<1>2. stage'[r] = "storing" /\ reply'[r] = sent[r] /\ sent[r] \in Question \union {None}
  BY <1>1 DEF GoTo, EachRight, TypeOK
<1>3. Staged(r)'
  BY <1>1, <1>2 DEF EachRight, Right, Staged
<1>4. req'[r] # None => Posed(r)'
  BY <1>1 DEF EachRight, Right, Posed, Model
<1>5. sent'[r] # None => Directed(r)'
  BY <1>1 DEF EachRight, Right, Directed, Route, Target, Model
<1>6. Right(r)'
  BY <1>3, <1>4, <1>5 DEF Right
<1>7. sent' = [sent EXCEPT ![r] = sent[r]]
  BY <1>1 DEF EachRight, TypeOK
<1>8. QED
  BY <1>1, <1>2, <1>6, <1>7, OwnStep

LEMMA StoreStep ==
  ASSUME EachRight, NEW r \in Requests, Store(r)
  PROVE  EachRight'
<1> DEFINE k == CacheKey(req[r])
<1>1. /\ stage[r] = "storing" /\ GoTo(r, "done")
      /\ \/ cache' = cache
         \/ cache' = [j \in DOMAIN cache \union {k} |-> IF j = k THEN reply[r] ELSE cache[j]]
      /\ UNCHANGED <<world, client, via, req, sent, reply>>
  BY DEF Store
<1>2. reply[r] \in Question
  BY <1>1 DEF EachRight, TypeOK, Right, Staged
<1> HIDE DEF k
<1>3. \A j \in DOMAIN cache' : cache'[j] \in Question
  BY <1>1, <1>2 DEF EachRight, TypeOK
<1>4. TypeOK'
  <2>1. stage' \in [Requests -> {"new", "asking", "routing", "waiting", "storing", "done"}]
    BY <1>1 DEF GoTo, EachRight, TypeOK
  <2>2. QED
    BY <1>1, <1>3, <2>1 DEF EachRight, TypeOK
<1>5. ASSUME NEW x \in Requests PROVE Right(x)'
  <2>1. CASE x # r
    <3>1. stage'[x] = stage[x]
      BY <1>1, <2>1 DEF GoTo, EachRight, TypeOK
    <3>2. QED
      BY <1>1, <3>1, RightKept DEF EachRight
  <2>2. CASE x = r
    <3>1. stage'[r] = "done" /\ sent[r] # None /\ req[r] # None /\ reply[r] = sent[r]
      BY <1>1 DEF GoTo, EachRight, TypeOK, Right, Staged
    <3>2. Staged(r)'
      BY <1>1, <3>1 DEF Staged
    <3>3. req'[r] # None => Posed(r)'
      BY <1>1 DEF EachRight, Right, Posed, Model
    <3>4. sent'[r] # None => Directed(r)'
      BY <1>1 DEF EachRight, Right, Directed, Route, Target, Model
    <3>5. QED
      BY <2>2, <3>2, <3>3, <3>4 DEF Right
  <2>3. QED
    BY <2>1, <2>2
<1>6. QED
  BY <1>4, <1>5 DEF EachRight

LEMMA QuietStep ==
  ASSUME EachRight, Expire \/ UNCHANGED vars
  PROVE  EachRight'
<1>1. UNCHANGED <<world, client, via, stage, req, sent, reply>>
  BY DEF Expire, vars
<1>2. \A j \in DOMAIN cache' : j \in DOMAIN cache /\ cache'[j] = cache[j]
  BY DEF Expire, vars
<1>3. TypeOK'
  BY <1>1, <1>2 DEF EachRight, TypeOK
<1>4. ASSUME NEW x \in Requests PROVE Right(x)'
  BY <1>1, RightKept DEF EachRight
<1>5. QED
  BY <1>3, <1>4 DEF EachRight

LEMMA EachStep ==
  ASSUME EachRight, [Next]_vars
  PROVE  EachRight'
<1>1. ASSUME NEW r \in Requests, NEW c \in world.clients, Endpoint(r, c) PROVE EachRight'
  BY <1>1, EndpointForm, ArriveStep, MoveSteps
<1>2. ASSUME NEW r \in Requests, Generate(r) PROVE EachRight'
  BY <1>2, HitStep, MoveSteps, SendStep, AnswerStep, StoreStep DEF Generate
<1>3. QED
  BY <1>1, <1>2, QuietStep DEF Next

\* What a step may do to requests, questions, replies and the cache.
LEMMA Changes ==
  ASSUME EachRight, [Next]_vars
  PROVE  /\ world' = world
         /\ \A s \in Requests : sent[s] # None => sent'[s] = sent[s] /\ req'[s] = req[s]
         /\ \A r \in Requests : reply'[r] = reply[r] \/ Hit(r) \/ Answer(r)
         /\ \A r \in Requests : reply[r] # None => req'[r] = req[r]
         /\ \A k \in DOMAIN cache' :
              \/ k \in DOMAIN cache /\ cache'[k] = cache[k]
              \/ \E r \in Requests : Store(r) /\ k = CacheKey(req[r]) /\ cache'[k] = reply[r]
<1> USE DEF EachRight, TypeOK
<1>1. CASE Expire \/ UNCHANGED vars
  BY <1>1 DEF Expire, vars
<1>2. ASSUME NEW r \in Requests, NEW c, Endpoint(r, c)
      PROVE  /\ stage[r] = "new" /\ UNCHANGED <<world, sent, reply, cache>>
             /\ \A s \in Requests : s # r => req'[s] = req[s]
  BY <1>2, EndpointForm DEF Refuse, Arrive
<1>3. ASSUME NEW r \in Requests, Generate(r)
      PROVE  /\ world' = world /\ req' = req
             /\ sent[r] # None => sent' = sent
             /\ \A s \in Requests : s # r => sent'[s] = sent[s] /\ reply'[s] = reply[s]
             /\ reply' = reply \/ Hit(r) \/ Answer(r)
             /\ cache' = cache \/ Store(r)
  <2>1. Right(r)
    OBVIOUS
  <2>2. QED
    BY <1>3, <2>1 DEF Right, Staged, Generate, Hit, Miss, Send, NoRoute, Answer, Fail, Store
<1>4. ASSUME NEW r \in Requests, Store(r), NEW k \in DOMAIN cache'
      PROVE  \/ k \in DOMAIN cache /\ cache'[k] = cache[k]
             \/ k = CacheKey(req[r]) /\ cache'[k] = reply[r]
  BY <1>4 DEF Store
<1>5. ASSUME NEW r \in Requests, NEW c \in world.clients, Endpoint(r, c)
      PROVE  /\ world' = world
             /\ \A s \in Requests : sent[s] # None => sent'[s] = sent[s] /\ req'[s] = req[s]
             /\ reply' = reply /\ cache' = cache
             /\ \A s \in Requests : reply[s] # None => req'[s] = req[s]
  <2>1. sent[r] = None /\ reply[r] = None
    BY <1>2, <1>5 DEF Right, Staged
  <2>2. QED
    BY <1>2, <1>5, <2>1
<1>6. QED
  BY <1>1, <1>3, <1>4, <1>5 DEF Next

\* Requests keep the keys they had when they were sent.
LEMMA KeyKept ==
  ASSUME EachRight, [Next]_vars, NEW s \in Requests, req'[s] = req[s]
  PROVE  CacheKey(req[s])' = CacheKey(req[s])
BY Changes DEF CacheKey, hashString, Model

LEMMA KeyedStep ==
  ASSUME RequestInv, [Next]_vars
  PROVE  Keyed'
<1>1. SUFFICES ASSUME NEW k \in DOMAIN cache'
               PROVE  \E s \in Requests : sent'[s] = cache'[k] /\ k = CacheKey(req[s])'
  BY DEF Keyed
<1>2. CASE k \in DOMAIN cache /\ cache'[k] = cache[k]
  <2>1. PICK s \in Requests : sent[s] = cache[k] /\ k = CacheKey(req[s])
    BY <1>2 DEF RequestInv, Keyed
  <2>2. sent[s] # None
    BY <1>2, <2>1, RequestAssumption DEF RequestInv, EachRight, TypeOK
  <2>3. sent'[s] = sent[s] /\ CacheKey(req[s])' = CacheKey(req[s])
    BY <2>2, Changes, KeyKept DEF RequestInv
  <2>4. QED
    BY <1>2, <2>1, <2>3
<1>3. ASSUME NEW r \in Requests, Store(r), k = CacheKey(req[r]), cache'[k] = reply[r]
      PROVE  \E s \in Requests : sent'[s] = cache'[k] /\ k = CacheKey(req[s])'
  <2>1. sent[r] # None /\ reply[r] = sent[r]
    BY <1>3 DEF Store, RequestInv, EachRight, Right, Staged
  <2>2. sent'[r] = sent[r] /\ CacheKey(req[r])' = CacheKey(req[r])
    BY <2>1, Changes, KeyKept DEF RequestInv
  <2>3. QED
    BY <1>3, <2>1, <2>2
<1>4. QED
  BY <1>2, <1>3, Changes DEF RequestInv

LEMMA FoundedStep ==
  ASSUME RequestInv, [Next]_vars
  PROVE  Founded'
<1>1. SUFFICES ASSUME NEW r \in Requests, reply'[r] # None
               PROVE  \E s \in Requests : /\ sent'[s] = reply'[r]
                                          /\ CacheKey(req[s])' = CacheKey(req[r])'
  BY DEF Founded
<1>2. ASSUME NEW s \in Requests, sent[s] = reply'[r], CacheKey(req[s]) = CacheKey(req[r]),
             req'[r] = req[r]
      PROVE  sent'[s] = reply'[r] /\ CacheKey(req[s])' = CacheKey(req[r])'
  <2>1. sent'[s] = sent[s] /\ CacheKey(req[s])' = CacheKey(req[s])
    BY <1>1, <1>2, Changes, KeyKept DEF RequestInv
  <2>2. CacheKey(req[r])' = CacheKey(req[r])
    BY <1>2, KeyKept DEF RequestInv
  <2>3. QED
    BY <1>2, <2>1, <2>2
<1>3. CASE reply'[r] = reply[r]
  <2>1. PICK s \in Requests : sent[s] = reply[r] /\ CacheKey(req[s]) = CacheKey(req[r])
    BY <1>1, <1>3 DEF RequestInv, Founded
  <2>2. req'[r] = req[r]
    BY <1>1, <1>3, Changes DEF RequestInv
  <2>3. QED
    BY <1>2, <1>3, <2>1, <2>2
<1>4. CASE Hit(r)
  <2>1. /\ CacheKey(req[r]) \in DOMAIN cache /\ reply'[r] = cache[CacheKey(req[r])]
        /\ req' = req
    BY <1>4 DEF Hit, RequestInv, EachRight, TypeOK
  <2>2. PICK s \in Requests : sent[s] = reply'[r] /\ CacheKey(req[r]) = CacheKey(req[s])
    BY <2>1 DEF RequestInv, Keyed
  <2>3. QED
    BY <1>2, <2>1, <2>2
<1>5. CASE Answer(r)
  <2>1. reply'[r] = sent[r] /\ req' = req
    BY <1>5 DEF Answer, RequestInv, EachRight, TypeOK
  <2>2. QED
    BY <1>2, <2>1
<1>6. QED
  BY <1>3, <1>4, <1>5, Changes DEF RequestInv

LEMMA RequestInit == Init => RequestInv
<1> SUFFICES ASSUME Init PROVE RequestInv
  OBVIOUS
<1>1. TypeOK
  BY DEF Init, TypeOK
<1>2. ASSUME NEW x \in Requests PROVE Right(x)
  BY DEF Init, Right, Staged
<1>3. Keyed /\ Founded
  BY DEF Init, Keyed, Founded
<1>4. QED
  BY <1>1, <1>2, <1>3 DEF RequestInv, EachRight

-----------------------------------------------------------------------------
\* RequestInv is inductive.
THEOREM RequestInductive == Spec => []RequestInv
<1>1. RequestInv /\ [Next]_vars => RequestInv'
  BY EachStep, KeyedStep, FoundedStep DEF RequestInv
<1>2. QED
  BY <1>1, RequestInit, PTL DEF Spec

\* Every answer was generated for the request itself or, whatever entry point, race
\* or expiry put it into the cache, for one with the same model, prompt hash and
\* limit (getCacheKey, manager.go 678-688). Not for the same prompt: hashString is
\* not injective, and HashWidth is any number here.
THEOREM AnswersFit == Spec => []AnswerFits
<1>1. ASSUME RequestInv, NEW r \in Requests, reply[r] # None
      PROVE  /\ sent[r] # None => reply[r] = sent[r]
             /\ \E s \in Requests :
                  /\ sent[s] = reply[r]
                  /\ hashString(req[s].prompt) = hashString(req[r].prompt)
                  /\ req[s].limit = req[r].limit
  <2>1. sent[r] # None => reply[r] = sent[r]
    BY <1>1 DEF RequestInv, EachRight, Right, Staged
  <2>2. PICK s \in Requests : sent[s] = reply[r] /\ CacheKey(req[s]) = CacheKey(req[r])
    BY <1>1 DEF RequestInv, Founded
  <2>3. QED
    BY <2>1, <2>2 DEF CacheKey
<1>2. RequestInv => AnswerFits
  BY <1>1 DEF AnswerFits
<1>3. QED
  BY <1>2, RequestInductive, PTL

\* The seven entry points ask the same question for the same fields, but for the
\* "system" that two of them do not know and a name listed with different limits
\* (handler.go 46-95 and its six copies).
THEOREM EndpointsAlike == Spec => []EndpointsAgree
<1>1. ASSUME RequestInv, NEW r \in Requests, NEW s \in Requests,
             req[r] # None, req[s] # None, client[r] = client[s], ~Ambiguous,
             client[r].system = "" \/ KnowsSystem(via[r]) = KnowsSystem(via[s])
      PROVE  req[r] = req[s]
  <2>1. req[r] \in Asks /\ req[s] \in Asks /\ Posed(r) /\ Posed(s) /\ client[r] \in Client
    BY <1>1, WorldType DEF RequestInv, EachRight, TypeOK, Right, Posed
  <2>2. req[r].prompt = req[s].prompt /\ req[r].provider = req[s].provider
    BY <1>1, <2>1 DEF Posed
  <2>3. req[r].system = req[s].system
    BY <1>1, <2>1 DEF Posed, Aliased
  <2>4. req[r].limit = req[s].limit
    BY <1>1, <2>1, WorldType, OneDefault DEF RequestInv, EachRight, Posed, Ambiguous
  <2>5. req[r] = [prompt |-> req[r].prompt, provider |-> req[r].provider,
                  limit |-> req[r].limit, system |-> req[r].system]
    BY <2>1 DEF Asks
  <2>6. req[s] = [prompt |-> req[s].prompt, provider |-> req[s].provider,
                  limit |-> req[s].limit, system |-> req[s].system]
    BY <2>1 DEF Asks
  <2>7. QED
    BY <2>2, <2>3, <2>4, <2>5, <2>6
<1>2. RequestInv => EndpointsAgree
  BY <1>1 DEF EndpointsAgree, RequestInv, EachRight
<1>3. QED
  BY <1>2, RequestInductive, PTL

\* A request that leaves the limit to the server and names its model by a listed ID
\* or name asks the model it is sent to for at least one token and for no more than
\* the listing allows. Without such a listing it gets MAX_TOKENS, and less than one
\* token only when that is no number of 1..MaxInt32; a limit of the client's own is
\* less than one token, once narrowed, only when it was none of 1..MaxInt32 either
\* (handler.go 57-81, aws_provider.go 71, 288 and 826-921, azure_provider.go 432-460).
THEOREM LimitsUsable == Spec => []LimitUsable
<1>1. ASSUME RequestInv, NEW r \in Requests, sent[r] # None
      PROVE  /\ sent[r].limit < 1 =>
                  \/ client[r].limit # 0 /\ client[r].limit \notin 1..MaxInt32
                  \/ client[r].limit = 0 /\ ~LimitListed /\ ~EnvUsable
             /\ client[r].limit = 0 /\ LimitListed =>
                  \A m \in ListModels[sent[r].provider] :
                    m.id = sent[r].model /\ m.limit > 0 => sent[r].limit <= m.limit
  <2>1. /\ Directed(r) /\ Posed(r) /\ req[r] \in Asks /\ client[r] \in Client
    <3>1. req[r] # None /\ req[r] \in Asks
      BY <1>1 DEF RequestInv, EachRight, Right, Staged, TypeOK
    <3>2. QED
      BY <1>1, <3>1, WorldType DEF RequestInv, EachRight, Right, Posed
  <2> DEFINE found == ListedLimits(world.registered, Model)
             limits == DefaultLimits(world.registered, Model, world.maxTokens)
  <2>2. /\ req[r].limit \in Int /\ client[r].limit \in Int
        /\ req[r].limit \in 0..MaxInt32 => sent[r].limit = req[r].limit
        /\ sent[r].limit < 1 => req[r].limit \notin 1..MaxInt32
    <3>1. req[r].limit \in Int /\ client[r].limit \in Int
      BY <2>1 DEF Asks, Client
    <3>2. QED
      BY <2>1, <3>1, SentLimit DEF Directed
  <2>3. /\ found \subseteq 1..300 * K
        /\ EnvUsable => limits \subseteq 1..MaxInt32
        /\ \A n \in 1..300 * K : n \in 0..MaxInt32 /\ n \in 1..MaxInt32
        /\ LimitListed => found # {} /\ limits = found
    <3>1. \A n \in 1..300 * K : n \in 0..MaxInt32 /\ n \in 1..MaxInt32
      BY CatalogAssumption, Units
    <3>2. LimitListed => found # {}
      BY DEF LimitListed, ListedLimits, StandsFor, HasLimit
    <3>3. QED
      BY <1>1, <3>1, <3>2, WorldType, DefaultsType DEF RequestInv, EachRight, EnvUsable, DefaultLimits
  <2>4. client[r].limit = 0 => req[r].limit \in limits
    BY <2>1 DEF Posed
  <2>5. client[r].limit # 0 => req[r].limit = client[r].limit
    BY <2>1 DEF Posed
  <2>6. ASSUME sent[r].limit < 1
        PROVE  \/ client[r].limit # 0 /\ client[r].limit \notin 1..MaxInt32
               \/ client[r].limit = 0 /\ ~LimitListed /\ ~EnvUsable
    <3>1. req[r].limit \notin 1..MaxInt32
      BY <2>2, <2>6
    <3> HIDE DEF found, limits
    <3>2. QED
      BY <2>3, <2>4, <2>5, <3>1
  <2>7. ASSUME client[r].limit = 0, LimitListed, NEW m \in ListModels[sent[r].provider],
               m.id = sent[r].model, m.limit > 0
        PROVE  sent[r].limit <= m.limit
    <3>1. sent[r].limit \in ListedLimits(world.registered, Model)
      BY <2>2, <2>3, <2>4, <2>7
    <3>2. PICK l \in Listed(world.registered) :
            sent[r].limit = l.limit /\ l.limit > 0 /\ Model \in {l.id, l.name}
      BY <3>1 DEF ListedLimits, StandsFor, HasLimit
    <3>3. l \in AllListings /\ sent[r].provider \in Providers
      BY <1>1, <2>1, WorldType, RouteType DEF RequestInv, EachRight, Directed, Listed, AllListings
    <3>4. m.id = MapModel(sent[r].provider, Model)
      <4>1. Model # ""
        BY <3>2, <3>3, NotEmpty
      <4>2. QED
        BY <2>1, <2>7, <4>1 DEF Directed, Target, Requested
    <3>5. QED
      BY <2>7, <3>2, <3>3, <3>4, LimitFits
  <2>8. QED
    BY <2>6, <2>7
<1>2. RequestInv => LimitUsable
  BY <1>1 DEF LimitUsable
<1>3. QED
  BY <1>2, RequestInductive, PTL

\* A listed ID reaches the provider that lists it, as that very model, when the client
\* names the provider, when it is the only one or when no other lists a model of
\* its family and the family is one that selectProvider looks for. With both
\* registered nothing is said of us.deepseek.r1-v1:0, which goes to Azure, of
\* Llama-3.3-70B-Instruct, which goes to AWS, or of Nova and the like, which go to
\* either (selectProvider, manager.go 636-676, and both mapping tables).
THEOREM ListedIsReached == Spec => []ListedReached
<1>1. ASSUME RequestInv, NEW r \in Requests, Routed(r), NEW p \in world.registered,
             NEW m \in ListModels[p], m.id = Model,
             \/ req[r].provider = p
             \/ req[r].provider = "" /\ (world.registered = {p} \/ Unmistakable(m, p))
      PROVE  sent[r] # None /\ sent[r].provider = p /\ sent[r].model = m.id
  <2>1. Route(req[r]) = {p}
    <3>1. CASE req[r].provider = ""
      <4>1. SelectProvider(world.registered, m.id) = {p}
        <5>1. p # ""
          BY <1>1, WorldType DEF RequestInv, EachRight, Providers
        <5>2. world.registered = {p} \/ Unmistakable(m, p)
          BY <1>1, <3>1, <5>1
        <5>3. QED
          BY <1>1, <5>2, WorldType, Home DEF RequestInv, EachRight, Unmistakable
      <4>2. QED
        BY <1>1, <3>1, <4>1 DEF Route
    <3>2. CASE req[r].provider # ""
      BY <1>1, <3>2 DEF Route
    <3>3. QED
      BY <3>1, <3>2
  <2>2. sent[r] # None
    BY <1>1, <2>1 DEF Routed, RequestInv, EachRight, Right, Staged
  <2>3. sent[r].provider = p /\ sent[r].model = MapModel(p, m.id)
    <3>1. Directed(r) /\ sent[r].provider = p
      BY <1>1, <2>1, <2>2 DEF RequestInv, EachRight, Right, Directed
    <3>2. m \in AllListings
      BY <1>1, WorldType DEF RequestInv, EachRight, AllListings
    <3>3. Model # ""
      BY <1>1, <3>2, NotEmpty
    <3>4. QED
      BY <1>1, <3>1, <3>3 DEF Directed, Target, Requested
  <2>4. MapModel(p, m.id) = m.id
    BY <1>1, WorldType, KnownID DEF RequestInv, EachRight
  <2>5. QED
    BY <2>2, <2>3, <2>4
<1>2. RequestInv => ListedReached
  <2> SUFFICES ASSUME RequestInv, NEW r \in {q \in Requests : Routed(q)},
                      NEW p \in world.registered, NEW m \in {l \in ListModels[p] : l.id = Model},
                      \/ req[r].provider = p
                      \/ req[r].provider = "" /\ (world.registered = {p} \/ Unmistakable(m, p))
               PROVE  sent[r] # None /\ sent[r].provider = p /\ sent[r].model = m.id
    BY DEF ListedReached
  <2>1. r \in Requests /\ Routed(r) /\ m \in ListModels[p] /\ m.id = Model
    OBVIOUS
  <2>2. QED
    BY <1>1, <2>1
<1>3. QED
  BY <1>2, RequestInductive, PTL
=============================================================================
