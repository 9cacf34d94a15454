---------------------------- MODULE GatewayCalls ----------------------------
(***************************************************************************)
(* What the models of a call's life share: the calls of the /v1 endpoints  *)
(* and the database connections that they are served on. Metering follows  *)
(* their money, ConnectionPool their connections.                          *)
(***************************************************************************)
EXTENDS Integers, FiniteSets

CONSTANTS
  Requests,  \* calls of the /v1 endpoints
  Streams,   \* those that asked for stream=true
  PoolSize   \* connections the pool lends: pool_size + max_overflow

ASSUME CallsAssumption ==
  /\ IsFiniteSet(Requests)
  /\ Streams \subseteq Requests
  /\ PoolSize \in Nat \ {0}

=============================================================================
