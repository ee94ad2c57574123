-------------------------- MODULE MCProductSpawner --------------------------
EXTENDS ProductSpawner

MCMaxAlive == [product |-> 1, tray |-> 2]
MCModels == <<"small", "bar">>
MCLength == [bar |-> 3, small |-> 1]
=============================================================================
