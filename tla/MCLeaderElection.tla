-------------------------- MODULE MCLeaderElection --------------------------
(* Model checking instances of LeaderElection: the topology of the Makefile *)
(* and of docker-compose.yml in small, one node without peers and one with. *)
EXTENDS LeaderElection

=============================================================================
