------------------------- MODULE MCDeliveryPipeline -------------------------
(* Instances of DeliveryPipeline for TLC.                                  *)
EXTENDS DeliveryPipeline

CONSTANTS p1, c1, c2

MCProjects == {p1}
MCCallers == {c1, c2}
MCQuietHeads == {"pm"}
MCHeads == {"sales", "product", "engineering"}
=============================================================================
