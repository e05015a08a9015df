---------------------------- MODULE MC_HttpSend ----------------------------
EXTENDS HttpSend

\* Every peer the code handles, and one that accepts and never answers.
MCBehavioursHandled == {"refuse", "reply", "close"}
MCBehavioursAll == {"refuse", "reply", "close", "silent"}
MCMaxSends == 3
=============================================================================
