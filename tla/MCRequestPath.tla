---------------------------- MODULE MCRequestPath ----------------------------
(* Small instances of RequestPath: two requests for one model, every       *)
(* spelling of every model, every set of providers.                        *)
EXTENDS RequestPath, TLC

CONSTANTS r1, r2

TwoRequests == {r1, r2}
Symmetric   == Permutations(Requests)

\* "q", and two questions with one hash: "Aa" and "BB".
Q  == <<113>>
Aa == <<65, 97>>
BB == <<66, 66>>
FourPrompts == {NoPrompt, Q, Aa, BB}

Width == 2 * (MaxInt32 + 1)   \* of an int32

Fields(prompt, provider, limit, system, systemPrompt) ==
  [prompt |-> prompt, provider |-> provider, limit |-> limit,
   system |-> system, systemPrompt |-> systemPrompt]

Asking(limit) == Fields(Q, "", limit, "", "")
Routing == {Fields(Q, p, 0, "", "") : p \in {"", "aws", "azure"}}
Posing  == {Asking(0), Fields(Q, "", 0, "s", "p"), Fields(NoPrompt, "", 0, "", "p"),
            Fields(Q, "aws-bedrock", 0, "", "")}
Hashing == {Asking(100)} \union
           {Fields(prompt, "", limit, "", "") : prompt \in {Aa, BB}, limit \in {0, 100}}
Limits  == {Asking(n) : n \in {-1, MaxInt32, MaxInt32 + 1, Width}}

Deployment(registered, maxTokens, azureModel, model, clients) ==
  [registered |-> registered, maxTokens |-> maxTokens, azureModel |-> azureModel,
   model |-> model, clients |-> clients]

Deployed == SUBSET Providers \ {{}}

\* Every spelling, by clients that name a provider or none.
EveryModel == {Deployment(ps, Unset, "gpt-4o", m, Routing) :
                 ps \in SUBSET Providers, m \in IDs \union Names \union Words \union {""}}
\* Every kind of MAX_TOKENS, for a listed model, one without a limit, a shared
\* name, a spelling that no listing has and one of a model that gets an int32.
Configured == {Deployment(ps, env, "", m, {Asking(0)}) :
                 ps \in Deployed,
                 env \in {Unset, Unparsable, -1, 0, 10000, MaxInt32 + 1, Width},
                 m \in {"grok-3", "DeepSeek_R1", "Stable_Image_Inpaint", "deepseek-v3",
                        "claude-3-7-sonnet"}}
Aliasing   == {Deployment(Providers, Unset, "", m, Posing) :
                 m \in {"grok-3", "DeepSeek_R1", ""}}
Widths     == {Deployment({"aws"}, Unset, "", "claude-3-7-sonnet", Limits),
               Deployment({"azure"}, Unset, "", "grok-3", Limits)}
Colliding  == {Deployment({"azure"}, Unset, "", "grok-3", Hashing)}
AllWorlds  == EveryModel \union Configured \union Aliasing \union Widths \union Colliding
=============================================================================
