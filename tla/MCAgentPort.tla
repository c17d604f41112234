----------------------------- MODULE MCAgentPort ------------------------------
(* The agent's port with a payload that holds the cancel byte, one that looks *)
(* like the beginning of a frame, and an empty one.                           *)
EXTENDS AgentPort

MCPayloads == <<<<Cancel>>, <<W, F>>, <<>>>>
=============================================================================
