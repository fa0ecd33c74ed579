---------------------------- MODULE MCApiProcess ----------------------------
(* Constant values for model-checking an API process. *)
EXTENDS ApiProcess

AllBrokerFaults == BrokerFaultKinds

Complete == [s \in Settings |-> IF s \in Defaulted THEN "absent" ELSE "word"]

(* A complete environment, and what may be wrong with it. *)
SomeEnvironments ==
    {Complete,
     [Complete EXCEPT !["API_KEY"] = "empty"],
     [Complete EXCEPT !["PORT"] = "zero"],
     [Complete EXCEPT !["RABBITMQ_URL"] = "absent"]}
=============================================================================
