-------------------------- MODULE MCInferenceEngine --------------------------
(***************************************************************************)
(* A model of two layers, one of which needs more memory to load than to   *)
(* keep, and two persistent weights, in half precision (a stored row is    *)
(* half a decoded one).  The budgets range from one that cannot hold a     *)
(* layer next to a run, through those where layers, the KV cache's growth  *)
(* and the sampler evict each other, to one that keeps the embedding       *)
(* matrix resident.  Prompts of up to 2 and runs of up to 3 tokens in a    *)
(* context of 4 with growth by 2 tokens: first growth, growth capped by    *)
(* the request, and requests the context refuses.                          *)
(***************************************************************************)
EXTENDS InferenceEngine

MCLayers == 1..2
MCLayerResident == <<2, 3>>
MCLayerPeak == <<3, 3>>
MCWeights == <<[load |-> 6, resident |-> 4], [load |-> 1, resident |-> 1]>>

\* An output matrix that is streamed whatever the budget.
MCLargeWeights == <<[load |-> 9, resident |-> 9], [load |-> 1, resident |-> 1]>>

MCPrefixes == {Active(i) : i \in MCLayers} \cup {Resident(i) : i \in MCLayers}
                \cup {Weight(w)[1] : w \in DOMAIN MCWeights}
                \cup {n[1] : n \in Temps \cup {KvCharge, KvGrowth}}
=============================================================================
