-------------------------- MODULE MCDeliveryLedger --------------------------
(***************************************************************************)
(* DeliveryLedger on one message: on the responder's and on an observer's  *)
(* route while the operator moves the binding.                             *)
(***************************************************************************)
EXTENDS DeliveryLedger, TLC

CONSTANTS web, worker, r1, r2, o1

MsgOfDef == [d \in Deliveries |-> IF d = r2 THEN 2 ELSE 1]

\* A bound: the responder is not detached in a behaviour that also loses a write.
OneUpset == faults = 0 \/ "responder" \in binding.routes

\* FairSpec within that bound.
RoutesSpec == Init /\ [][Next /\ OneUpset']_vars /\ Fairness

=============================================================================
