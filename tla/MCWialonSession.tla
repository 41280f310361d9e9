--------------------------- MODULE MCWialonSession ---------------------------
(* Instances of WialonSession for TLC.                                       *)
EXTENDS WialonSession

\* Fewer fields than the protocol's 2, 16, 0, 10, 16, 1 and 6: a command with one
\* field, with more than one and with none is what the parser tells apart.
FewFields == [c \in Known |-> CASE c \in {"L", "D", "B"} -> 2
                                [] c = "P" -> 0
                                [] OTHER -> 1]
==============================================================================
