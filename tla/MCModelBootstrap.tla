-------------------------- MODULE MCModelBootstrap --------------------------
(* Instances of ModelBootstrap for TLC.                                    *)
EXTENDS ModelBootstrap, TLC

Specs == [provider : {"", "google", "anthropic", "openai", "gateway"},
          protocol : {"", "google", "anthropic", "openai", "other"},
          model : {"", "m"}, baseURL : {"", "https://custom", "custom"},
          secret : BOOLEAN, streaming : BOOLEAN]

\* Every Model resource up to the names that matter.
SomeModels == {[spec |-> s, atespace |-> ""] : s \in Specs \cup {NoSpec}}
=============================================================================
