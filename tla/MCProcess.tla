------------------------------- MODULE MCProcess ------------------------------
EXTENDS Process, TLC

CONSTANTS s1, s2, h1, h2

BothOfFirst == h1 :> s1 @@ h2 :> s1

FirstUnbuffered == h1 :> FALSE @@ h2 :> TRUE

\* healthz without subscribers, and subscribers without healthz.
Either ==
  {[retryForever |-> r, onlyOnce |-> FALSE, subscribers |-> {}] : r \in BOOLEAN}
  \cup {[retryForever |-> TRUE, onlyOnce |-> TRUE, subscribers |-> {h1, h2}]}
===============================================================================
