---------------------------- MODULE MCIndexBuilder ----------------------------
(* IndexBuilder for TLC.  Wallets, and configs, are interchangeable.        *)
EXTENDS IndexBuilder, TLC

CONSTANTS alice, bob, small, large, asset, dust, extra

MCWallets == {alice, bob}
MCConfigs == {small, large}
MCConstituents == {asset, dust}
MCSmall == {dust}
MCExtras == {extra}

MCSymmetry == Permutations(MCWallets) \union Permutations(MCConfigs)

=============================================================================
