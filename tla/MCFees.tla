-------------------------------- MODULE MCFees --------------------------------
(***************************************************************************)
(* Sales under every list of up to two of these fee modules.               *)
(***************************************************************************)
EXTENDS Sale

CONSTANTS Artist, State, Gold, Silver

MCRates == {Percent(1), Percent(50), Percent(100), Percent(101), Flat(CoinOf(Gold, 3)), Flat(CoinOf(Silver, 1))}
MCReceivers == {<<Artist>>, <<Artist, State>>, <<Seller, Artist>>}
MCFeeModules == [kind : {"tax", "royalty"}, rate : MCRates, receivers : MCReceivers]
===============================================================================
