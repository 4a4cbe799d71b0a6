---------------------------- MODULE MCLayerCache ----------------------------
(***************************************************************************)
(* Two layers of up to two tensors in a ledger of at most 4 bytes with     *)
(* every cache capacity: layers that share the cache, that evict each      *)
(* other, that do not fit, and a foreign charge that asks for their room.  *)
(***************************************************************************)
EXTENDS LayerCache

MCLayers == {1, 2}
MCOther == <<<<"other", 0>>, 1>>
MCPrefixes == {Active(i) : i \in MCLayers} \cup {Resident(i) : i \in MCLayers} \cup {MCOther[1]}
=============================================================================
