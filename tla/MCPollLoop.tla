------------------------------- MODULE MCPollLoop -------------------------------
EXTENDS PollLoop
=============================================================================
