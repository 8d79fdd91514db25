------------------------------- MODULE MCLLM --------------------------------
(* Calls of one process: of the main model with a schema, and of the light  *)
(* one for text.                                                            *)
EXTENDS LLM
CONSTANTS a, b, c, A
InstanceProcs == [x \in Calls |-> A]
InstanceAsked == [x \in Calls |-> IF x = a THEN "main" ELSE "light"]
InstanceKeys == [x \in Calls |-> IF x = a THEN "json" ELSE "text"]
InstanceCaps == [m \in {"main", "light"} |-> IF m = "main" THEN 3 ELSE 4]
InstanceRates == [m \in {"main", "light"} |-> 1]
=============================================================================
