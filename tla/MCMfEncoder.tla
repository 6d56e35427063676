----------------------------- MODULE MCMfEncoder -----------------------------
EXTENDS MfEncoder

\* The adapter's own MFT, one that rejects the tagged input type (Quick Sync),
\* a foreign MFT that refuses the device, a foreign MFT listed first, none.
Own(types) == [own |-> TRUE, accepts |-> types]
Foreign(types) == [own |-> FALSE, accepts |-> types]

MCMftLists ==
  { <<>>, <<Own({"tagged", "plain"})>>, <<Own({"plain"})>>, <<Foreign({})>>,
    <<Foreign({}), Own({"plain"})>> }
=============================================================================
