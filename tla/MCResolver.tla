----------------------------- MODULE MCResolver -----------------------------
EXTENDS Resolver

MCParamLists == {<<"x">>}
=============================================================================
