---------------------------- MODULE MCAgentLoops ----------------------------
EXTENDS AgentLoops
Push(r, h, m) == [report |-> r, heartbeat |-> h, metrics |-> m]
MCPayload == {Push(4, 0, 0), Push(1, 5, 9)}
MCYaml == Push(6, 3, 3)
=============================================================================
