---------------------------- MODULE MCAssistantStream ----------------------------
\* AssistantStream on a small instance: see MCAssistantStream.cfg.
EXTENDS AssistantStream
=============================================================================
