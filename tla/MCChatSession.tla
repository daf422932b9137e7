--------------------------- MODULE MCChatSession ---------------------------
(* The ids that the texts and counters of the configuration make.          *)
EXTENDS ChatSession

MCPacketId == {JokerPacketId(t, s) : t \in Text, s \in 1..MaxSeq}
=============================================================================
