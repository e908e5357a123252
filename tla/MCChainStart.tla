---------------------------- MODULE MCChainStart ----------------------------
EXTENDS ChainStart
MCFamilies == {"penumbra", "namada", "polkadot", "thorchain", "thorchainFork"}
MCParachains == <<2, 1>>
CONSTANT relayer
MCWallets == <<relayer>>
============================================================================
