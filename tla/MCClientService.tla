-------------------------- MODULE MCClientService --------------------------
(***************************************************************************)
(* An instance of ClientService for TLC: two cached clients, the first of  *)
(* them used by two goroutines (the health check serves requests           *)
(* concurrently), and three versions of the Secret with a malformed one in *)
(* the middle.                                                             *)
(***************************************************************************)
EXTENDS ClientService

TwoClients   == {"healthz", "actuator"}
InOrder      == <<"healthz", "actuator">>
TwoRequests  == {"request1", "request2"}
SharedClient == [g \in TwoRequests |-> "healthz"]
SecondIsBad  == {2}
=============================================================================
