---------------------------- MODULE MCLLMClient -----------------------------
(***************************************************************************)
(* An instance of LLMClient for TLC: LM Studio and another server, two     *)
(* models, a decision beside a consolidation, and one page.                *)
(***************************************************************************)
EXTENDS LLMClient

TwoServers   == {"studio", "other"}
OnlyStudio   == {"studio"}
TwoModels    == {"small", "large"}
TwoRequests  == {"decide", "consolidate"}
OnePage      == {"page"}
Unconfigured == [enabled |-> TRUE, url |-> "studio", model |-> None]
=============================================================================
