-------------------------- MODULE MCEventDelivery ---------------------------
(***************************************************************************)
(* Small instances of EventDelivery for TLC.                               *)
(***************************************************************************)
EXTENDS EventDelivery

CONSTANTS p1, p2

OnePublisher == {p1}
TwoPublishers == {p1, p2}
ThePhone == {phone}
=============================================================================
