------------------------------ MODULE MCSensor ------------------------------
(* SensorAgent with clients and queries that may be exchanged.              *)
EXTENDS SensorAgent, TLC

SensorSymmetry == Permutations(Clients) \cup Permutations(Queries)
=============================================================================
