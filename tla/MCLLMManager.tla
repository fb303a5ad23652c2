----------------------------- MODULE MCLLMManager -----------------------------
(* The model requests on small instances: see MCLLM*.cfg. *)
EXTENDS LLMManager

CONSTANTS gemini, groq, ollama

TwoProviders == <<gemini, groq>>
ThreeProviders == <<gemini, groq, ollama>>
==============================================================================
