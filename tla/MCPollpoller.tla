---------------------------- MODULE MCPollpoller -----------------------------
(* Four handlers over three descriptors: h4 reuses the descriptor of h1.    *)
EXTENDS Pollpoller

CONSTANTS h1, h2, h3, h4

HandleOf == [h \in Handlers |-> CASE h \in {h1, h4} -> 1
                                  [] h = h2 -> 2
                                  [] h = h3 -> 3]
==============================================================================
