----------------------- MODULE MCResourceCoordinator -----------------------
(* The two kinds of build: exclusive resources with a parallel startup, and  *)
(* the diagnostic profile full-serial, which keeps every service.            *)
EXTENDS ResourceCoordinator

MCConfigs == {[serial |-> FALSE, exclusive |-> TRUE, enabled |-> Service],
              [serial |-> TRUE, exclusive |-> FALSE, enabled |-> Service]}
ExclusiveConfigs == {[serial |-> FALSE, exclusive |-> TRUE, enabled |-> Service]}
=============================================================================
