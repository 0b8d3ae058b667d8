---------------------------- MODULE MCAgentClient ----------------------------
\* AgentClient for TLC; values are given by the .cfg files.
EXTENDS AgentClient
=============================================================================
