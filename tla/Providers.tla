----------------------------- MODULE Providers -----------------------------
(***************************************************************************)
(* The providers and the commands of the settings sheet that put one of    *)
(* them to use (commands/provider.rs, llm/<provider>.rs).  A test builds   *)
(* a router of its own around the provider, asks it for three variants,    *)
(* and only then replaces the router of the application; every pill is     *)
(* then a single request to that router's provider.  Several tests, model  *)
(* changes and pills may be under way at once.                             *)
(*                                                                         *)
(* A router is its index in the sequence of all routers ever made.  An     *)
(* override for another provider than a router's own is never read, so a   *)
(* router keeps one override only.                                         *)
(***************************************************************************)
EXTENDS Naturals, Sequences, FiniteSets

CONSTANTS Offer,        \* the providers the writer tries out
          Model,        \* models the writer can choose
          Unset,        \* the empty model name
          NothingSent,  \* no request yet
          Pending,      \* the tasks that ask for a pill
          MaxTests      \* bound on the tests

(* What an adapter puts for an empty model, in a bouquet and in a single   *)
(* request.                                                                *)
Adapter(bouquet, raw) == [bouquet |-> bouquet, raw |-> raw]

Anthropic  == Adapter(Unset, "claude-sonnet-4-6")
OpenAi     == Adapter(Unset, "gpt-4o-mini")
Kimi       == Adapter(Unset, "kimi-k2-0905-preview")
OpenRouter == Adapter("moonshotai/kimi-k2", "moonshotai/kimi-k2")
Gemini     == Adapter("gemini-2.5-flash", "gemini-2.5-flash")
Ollama     == Adapter(Unset, "qwen2.5:3b")
LlamaCpp   == Adapter(Unset, "default")
Canned     == Adapter("canned", "canned")

(* build_provider; mlx is not offered. *)
Build == [anthropic |-> Anthropic, openai |-> OpenAi, kimi |-> Kimi,
          openrouter |-> OpenRouter, gemini |-> Gemini, ollama |-> Ollama,
          llamacpp |-> LlamaCpp, canned |-> Canned]

(* The model a test asks for when the writer has chosen none. *)
DefaultModelFor ==
    [anthropic |-> "claude-sonnet-4-6", openai |-> "gpt-4o-mini",
     kimi |-> "kimi-k2-0905-preview", openrouter |-> "moonshotai/kimi-k2",
     gemini |-> "gemini-2.5-flash", ollama |-> "qwen2.5:3b",
     llamacpp |-> "default", canned |-> "canned"]

ModelName == Model \cup {DefaultModelFor[p] : p \in DOMAIN Build}
                   \cup {Build[p].raw : p \in DOMAIN Build}

(* No model goes by the empty name. *)
ASSUME ProvidersAssumption ==
    /\ Offer \subseteq DOMAIN Build
    /\ Unset \notin ModelName
    /\ MaxTests \in Nat

Tokens == 0..512

VariantsAsked   == 3     \* of a test
TestTokens      == 200
PillTokens      == 256   \* generate_raw_with_default
ClampedTokens   == 512   \* what an adapter puts for zero

VARIABLES made,         \* the routers, in the order they were made
          current,      \* the router of the application, 0 if none
          pill,         \* the router each pending pill has cloned, or 0
          wire          \* history: what was last sent to a provider

providerVars == <<made, current, pill, wire>>

TestStage == {"testing", "answered", "kept", "installed", "failed"}
Router == [provider : Offer, asked : ModelName, override : ModelName \cup {Unset},
           stage : TestStage, got : 0..VariantsAsked]

ProvidersTypeOK ==
    /\ made \in Seq(Router) /\ Len(made) <= MaxTests
    /\ current \in 0..Len(made)
    /\ pill \in [Pending -> 0..Len(made)]
    /\ wire \in [provider : Offer, model : ModelName \cup {Unset}, tokens : Tokens] \cup {NothingSent}

ProvidersInit ==
    /\ made = <<>>
    /\ current = 0
    /\ pill = [t \in Pending |-> 0]
    /\ wire = NothingSent

-----------------------------------------------------------------------------
(* What goes out for a bouquet and for a single request: only the latter   *)
(* clamps a token limit of zero.                                           *)
Or(model, default) == IF model = Unset THEN default ELSE model
BouquetRequest(p, model, limit) ==
    [provider |-> p, model |-> Or(model, Build[p].bouquet), tokens |-> limit]
RawRequest(p, model, limit) ==
    [provider |-> p, model |-> Or(model, Build[p].raw),
     tokens |-> IF limit = 0 THEN ClampedTokens ELSE limit]

ParsedLeniently(items, n) == {IF items < n THEN items ELSE n}

(* parse_bouquet_json: fewer items than asked are an error, more are cut   *)
(* off; the canned provider always has as many as it is asked for.         *)
Parsed(items, n) == IF items < n THEN {} ELSE {n}

(* provider_test, up to the request.  A provider without its key, which    *)
(* Secrets looks up anew every time, fails at once and changes nothing.    *)
ModelOfTest(p, model) == Or(model, DefaultModelFor[p])

TestProvider(p, model) ==
    /\ Len(made) < MaxTests
    /\ LET chosen == ModelOfTest(p, model) IN
       /\ made' = Append(made, [provider |-> p, asked |-> chosen, override |-> Unset,
                                stage |-> "testing", got |-> 0])
       /\ wire' = BouquetRequest(p, chosen, TestTokens)
    /\ UNCHANGED <<current, pill>>

TestAnswered(i, items) ==
    /\ made[i].stage = "testing"
    /\ \E got \in Parsed(items, VariantsAsked) :
          made' = [made EXCEPT ![i].stage = "answered", ![i].got = got]
    /\ UNCHANGED <<current, pill, wire>>

TestFailed(i) ==
    /\ made[i].stage = "testing"
    /\ made[i].provider # "canned"
    /\ made' = [made EXCEPT ![i].stage = "failed"]
    /\ UNCHANGED <<current, pill, wire>>

KeepModel(i) ==          \* set_default_model on the router of the test
    /\ made[i].stage = "answered"
    /\ made' = [made EXCEPT ![i].stage = "kept", ![i].override = made[i].asked]
    /\ UNCHANGED <<current, pill, wire>>

InstallEarly(i) ==       \* a router in use before its test has answered
    /\ made[i].stage \in {"testing", "kept"}
    /\ current # i
    /\ current' = i
    /\ UNCHANGED <<made, pill, wire>>

Install(i) ==
    /\ made[i].stage = "kept"
    /\ made' = [made EXCEPT ![i].stage = "installed"]
    /\ current' = i
    /\ UNCHANGED <<pill, wire>>

(* provider_set_model: the override of the router in use, if that is one   *)
(* of this provider; without a router the choice is dropped.               *)
SetModel(p, model) ==
    /\ current # 0 /\ made[current].provider = p
    /\ made' = [made EXCEPT ![current].override = model]
    /\ UNCHANGED <<current, pill, wire>>

(* A pill: the task clones the router, then reads its override and asks.   *)
CloneRouter(t) ==
    /\ pill[t] = 0 /\ current # 0
    /\ pill' = [pill EXCEPT ![t] = current]
    /\ UNCHANGED <<made, current, wire>>

GenerateRaw(t) ==
    /\ pill[t] # 0
    /\ wire' = RawRequest(made[pill[t]].provider, made[pill[t]].override, PillTokens)
    /\ pill' = [pill EXCEPT ![t] = 0]
    /\ UNCHANGED <<made, current>>

ProvidersNext ==
    \/ \E p \in Offer, m \in Model \cup {Unset} : TestProvider(p, m) \/ SetModel(p, m)
    \/ \E i \in DOMAIN made :
          \/ \E items \in (VariantsAsked - 1)..(VariantsAsked + 1) : TestAnswered(i, items)
          \/ TestFailed(i) \/ KeepModel(i) \/ Install(i)
    \/ \E t \in Pending : CloneRouter(t) \/ GenerateRaw(t)

ProvidersSpec == ProvidersInit /\ [][ProvidersNext]_providerVars

-----------------------------------------------------------------------------
(* Whatever the writer chose, cleared or never chose, and whichever way it *)
(* was asked for, each request that goes out names a model and allows the  *)
(* answer at least one token: the fallback of the command, of the router   *)
(* and of every adapter fit together.                                      *)
WireIsComplete == wire # NothingSent => wire.model # Unset /\ wire.tokens > 0

(* The router in use has passed its test: it gave three variants, however  *)
(* many tests succeed and fail around it.                                  *)
RouterInUsePassed ==
    current # 0 => made[current].stage = "installed" /\ made[current].got = VariantsAsked

(* What the settings of a provider promise to the calls made with them.    *)
RequestsAreWhole == ProvidersTypeOK /\ WireIsComplete /\ RouterInUsePassed
=============================================================================
