--------------------------- MODULE MCLLMProcessor ---------------------------
EXTENDS LLMProcessor
MCTokens == {"eos", "word", "long", "space"}
MCPieceLen == [t \in MCTokens |-> CASE t = "eos" -> 0 [] t = "word" -> 4
                                    [] t = "long" -> 9 [] t = "space" -> 1]
=============================================================================
