---------------------------- MODULE ModelCatalog ----------------------------
(***************************************************************************)
(* Which models the providers list (ListModels), which provider a model    *)
(* name is sent to (Manager.selectProvider), and what the provider makes of*)
(* the name (AWSProvider.mapModelID, AzureProvider.mapDeploymentName) and  *)
(* of the limit, which AWS narrows to 32 bits for some models.             *)
(* A listing stands for those that behave like it: the same provider,      *)
(* family and way of being named. A blank in a name is written "_".        *)
(***************************************************************************)
EXTENDS Integers, FiniteSets

CONSTANTS
  Unset, Unparsable,  \* values of MAX_TOKENS that are no number
  MaxInt32            \* the largest int32

K  == 1000
Ki == 1024

ASSUME CatalogAssumption ==
  /\ Unset # Unparsable /\ {Unset, Unparsable} \cap Int = {}
  /\ MaxInt32 \in Nat /\ MaxInt32 >= 300 * K

Providers == {"aws", "azure"}

\* family: the word of selectProvider that the ID and the name contain;
\* named: what the provider asks for when it is given the name.
Listing(id, name, limit, family, named) ==
  [id |-> id, name |-> name, limit |-> limit, family |-> family, named |-> named]

AwsClaude == {
  Listing("us.anthropic.claude-3-haiku-20240307-v1:0", "Claude_3_Haiku", 200 * K,
          "claude", "us.anthropic.claude-3-haiku-20240307-v1:0"),
  Listing("us.anthropic.claude-3-5-sonnet-20240620-v1:0", "Claude_3.5_Sonnet", 200 * K,
          "claude", "us.anthropic.claude-3-5-sonnet-20241022-v2:0"),
  Listing("us.anthropic.claude-3-5-sonnet-20241022-v2:0", "Claude_3.5_Sonnet_v2", 200 * K,
          "claude", "Claude_3.5_Sonnet_v2"),
  Listing("us.anthropic.claude-3-7-sonnet-20250219-v1:0", "Claude_3.7_Sonnet", 200 * K,
          "claude", "us.anthropic.claude-3-7-sonnet-20250219-v1:0")}

AwsLlama == {
  Listing("us.meta.llama3-2-11b-instruct-v1:0", "Llama_3.2_11B_Instruct", 128 * K,
          "llama", "Llama_3.2_11B_Instruct"),
  Listing("us.meta.llama3-3-70b-instruct-v1:0", "Llama_3.3_70B_Instruct", 128 * K,
          "llama", "Llama_3.3_70B_Instruct")}

AwsOthers == {
  Listing("us.amazon.nova-pro-v1:0", "Nova_Pro", 300 * K, "none", "us.amazon.nova-pro-v1:0"),
  Listing("us.deepseek.r1-v1:0", "DeepSeek_R1", 64 * Ki, "deepseek", "us.deepseek.r1-v1:0"),
  Listing("us.mistral.pixtral-large-2502-v1:0", "Pixtral_Large_25.02", 128 * K,
          "none", "Pixtral_Large_25.02"),
  Listing("us.writer.palmyra-x4-v1:0", "Palmyra_X4", 128 * K, "palm", "Palmyra_X4"),
  Listing("us.stability.stable-image-inpaint-v1:0", "Stable_Image_Inpaint", 0,
          "none", "Stable_Image_Inpaint"),
  Listing("amazon.titan-text-express-v1", "Titan_Text_Express", 8 * Ki,
          "titan", "amazon.titan-text-express-v1")}

AzureModels == {
  Listing("DeepSeek-R1", "DeepSeek_R1", 2 * Ki, "deepseek", "DeepSeek_R1"),
  Listing("DeepSeek-V3-0324", "DeepSeek_V3_0324", 2 * Ki, "deepseek", "DeepSeek_V3_0324"),
  Listing("gpt-4.1", "GPT-4.1", 15 * K, "gpt", "gpt-4.1"),
  Listing("gpt-4o", "GPT-4o", 4 * Ki, "gpt", "gpt-4o"),
  Listing("gpt-5-chat", "GPT-5_Chat", 50 * K, "gpt", "GPT-5_Chat"),
  Listing("o4-mini", "O4_Mini", 20 * K, "o4", "O4_Mini"),
  Listing("Llama-3.3-70B-Instruct", "Llama_3.3_70B_Instruct", 8 * Ki, "llama",
          "Llama_3.3_70B_Instruct"),
  Listing("grok-3", "Grok_3", 2 * Ki, "grok", "Grok_3")}

ListModels == [aws   |-> AwsClaude \union AwsLlama \union AwsOthers,
               azure |-> AzureModels]

\* Other spellings that the providers' tables know, and no listing has. Both
\* tables ignore case, so AWS knows Azure's "DeepSeek-R1"; it completes some
\* prefixes with "us.".
AwsSpellings == {
  <<"claude-3-7-sonnet", "claude", "us.anthropic.claude-3-7-sonnet-20250219-v1:0">>,
  <<"deepseek-r1", "deepseek", "us.deepseek.r1-v1:0">>,
  <<"DeepSeek-R1", "deepseek", "us.deepseek.r1-v1:0">>,
  <<"meta.llama3-3-70b-instruct-v1:0", "llama", "us.meta.llama3-3-70b-instruct-v1:0">>,
  <<"llama-3-70b", "llama", "us.meta.llama3-70b-instruct-v1:0">>}   \* not listed

AzureSpellings == {
  <<"deepseek-r1", "deepseek", "DeepSeek-R1">>,
  <<"deepseek-v3", "deepseek", "DeepSeek-V3-0324">>,
  <<"gpt4o", "gpt", "gpt-4o">>,
  <<"llama-3.3-70b", "llama", "Llama-3.3-70B-Instruct">>}

Spellings == [aws |-> AwsSpellings, azure |-> AzureSpellings]

AllListings == UNION {ListModels[p] : p \in Providers}
AllSpellings == UNION {Spellings[p] : p \in Providers}

IDs   == {m.id : m \in AllListings}
Names == {m.name : m \in AllListings}
Words == {a[1] : a \in AllSpellings}
Strings == IDs \union Names \union Words \union {a[3] : a \in AllSpellings} \union {""}

-----------------------------------------------------------------------------
(* A faulty form may stand above a definition, for the mutation runs.      *)

\* The listings that a model string stands for, as the handlers look it up.
NameOnly(m, model)   == m.name = model
StandsFor(m, model)  == m.id = model \/ m.name = model

Listed(registered) == UNION {ListModels[p] : p \in registered}

\* The handlers take the first listing with a positive limit; which provider's
\* come first is the order of a Go map, anew at each call.
HasLimit(m) == m.limit > 0

ListedLimits(registered, model) ==
  {m.limit : m \in {l \in Listed(registered) : StandsFor(l, model) /\ HasLimit(l)}}

\* A MAX_TOKENS that is no number leaves the limit at zero. Atoi knows negative
\* numbers.
EnvLimit(env)  == IF env = Unset THEN 4 * Ki ELSE IF env = Unparsable THEN 0 ELSE env

\* The limits a request without one may be given.
DefaultLimits(registered, model, env) ==
  LET found == ListedLimits(registered, model) IN
  IF found # {} THEN found ELSE {EnvLimit(env)}

-----------------------------------------------------------------------------
Families(model) ==
  {m.family : m \in {l \in AllListings : StandsFor(l, model)}}
  \union {a[2] : a \in {s \in AllSpellings : s[1] = model}}

AwsFamilies    == {"claude", "titan", "llama"}
AzureFamilies  == {"gpt", "deepseek", "llama", "o4", "grok", "dall-e"}
VertexFamilies == {"gemini", "palm"}

\* The family test of a provider, and that it is registered; InitVertexAI
\* registers nothing.
Takes(p, families, registered, model) ==
  p \in registered /\ Families(model) \cap families # {}

\* A model of no registered family goes to the first provider of the map.
NoProvider(registered)  == {}
FirstOf(registered)     == registered

SelectProvider(registered, model) ==
  IF Takes("aws", AwsFamilies, registered, model) THEN {"aws"}
  ELSE IF Takes("azure", AzureFamilies, registered, model) THEN {"azure"}
  ELSE IF Takes("vertex", VertexFamilies, registered, model) THEN {"vertex"}
  ELSE FirstOf(registered)

\* mapModelID and mapDeploymentName: a string they do not know is passed on.
Known(p, model) ==
  {m.id : m \in {l \in ListModels[p] : l.id = model}}
  \union {m.named : m \in {l \in ListModels[p] : l.name = model}}
  \union {a[3] : a \in {s \in Spellings[p] : s[1] = model}}

MapModel(p, model) ==
  IF Known(p, model) = {} THEN model ELSE CHOOSE u \in Known(p, model) : TRUE

\* For a request without a model Azure takes AZURE_DEFAULT_MODEL, which its
\* streams do not read, or gpt-4.1.
Requested(p, model, streams, azureModel) ==
  IF p # "azure" \/ model # "" THEN model
  ELSE IF streams \/ azureModel = "" THEN "gpt-4.1" ELSE azureModel

\* The models of AWS's Converse API are asked for int32(MaxTokens).
Int32     == -(MaxInt32 + 1) .. MaxInt32
AsInt32(n) == ((n + MaxInt32 + 1) % (2 * (MaxInt32 + 1))) - (MaxInt32 + 1)

Converses(p, model)    == p = "aws" /\ \E m \in AwsClaude : m.id = model
LimitSent(p, model, n) == IF Converses(p, model) THEN AsInt32(n) ELSE n
=============================================================================
