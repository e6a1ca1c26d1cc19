---------------------------- MODULE MCEpollServer ----------------------------
(* An instance of EpollServer for TLC; the clients are interchangeable. *)
EXTENDS EpollServer, TLC

Symmetry == Permutations(Clients)

=============================================================================
