--------------------------- MODULE MCPriceFeeds ---------------------------
(* An instance of PriceFeeds and its properties for TLC. *)
EXTENDS PriceProperties

\* a mock that always says the same, and a source whose replies vary
OnePair == <<"ETH_USDC">>
TwoSources == <<"chainlink", "coingecko">>
TwoQuotes == [s \in ToSet(TwoSources) |->
                 [p \in {"ETH_USDC"} |-> IF s = "chainlink" THEN {10} ELSE {0, 7, 12}]]
=============================================================================
