---------------------------- MODULE MCEsSessions ----------------------------
(* Values of the constants of EsSessions for TLC, and the symmetry of the  *)
(* safety runs: neither clients nor handlers are ever told apart.          *)
EXTENDS EsSessions, TLC

Symmetry == Permutations(Clients) \cup Permutations(Handlers)
=============================================================================
