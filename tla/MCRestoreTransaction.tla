------------------------ MODULE MCRestoreTransaction ------------------------
\* RestoreTransaction for TLC: two forwards; the first Vault and the third have a
\* Caddy route, the second has none.
EXTENDS RestoreTransaction

CONSTANTS f1, f2

MCForwards == {f1, f2}
MCCaddyVaults == {0, 2}
=============================================================================
