------------------------ MODULE MCValidatorLifecycle ------------------------
(* The block-start options for the runs of ValidatorLifecycle.              *)
EXTENDS ValidatorLifecycle

NoBlockStart == [c \in Chains |-> 0]
KoinosBlockStart == [c \in Chains |-> IF c = "koinos" THEN 2 ELSE 0]
=============================================================================
