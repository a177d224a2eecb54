--------------------------- MODULE MCPipelineCycle ---------------------------
(* TLC instance of PipelineCycle. *)
EXTENDS PipelineCycle

\* Each of the live settings alone, and each other setting beside one of them.
Paper == [live |-> "off", legacy |-> FALSE, testnet |-> "off",
          multibook |-> FALSE, routing |-> FALSE]
EachSetting ==
  {[Paper EXCEPT !.live = l] : l \in Live}
    \cup {[Paper EXCEPT !.testnet = t] : t \in Testnet}
    \cup {[Paper EXCEPT !.multibook = TRUE, !.live = l] : l \in {"off", "full"}}
    \cup {[Paper EXCEPT !.routing = TRUE, !.live = l] : l \in {"off", "full"}}
    \cup {[Paper EXCEPT !.legacy = TRUE, !.live = "full"]}
=============================================================================
