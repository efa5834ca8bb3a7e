---- MODULE MCCodexTransport ----
EXTENDS CodexTransport
====
