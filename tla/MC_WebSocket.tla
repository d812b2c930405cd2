---------------------------- MODULE MC_WebSocket ----------------------------
(* Constants for TLC's runs of WebSocketRegistry. *)
EXTENDS WebSocketRegistry, TLC

MCSymmetry == Permutations(Connections) \cup Permutations(HttpIds)
=============================================================================
