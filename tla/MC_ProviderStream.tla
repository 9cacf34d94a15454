-------------------------- MODULE MC_ProviderStream -------------------------
(* Small instances of ProviderStream.                                      *)
EXTENDS ProviderStream

AllProviders == {"anthropic", "gemini", "openai"}
=============================================================================
