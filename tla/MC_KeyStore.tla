----------------------------- MODULE MC_KeyStore -----------------------------
EXTENDS KeyStore

\* "iPod1,1" is not a bare SQL identifier: UPDATE iPod1,1 SET ... is a
\* syntax error, while CREATE and INSERT quote it.
MCDevices == {"iPhone", "iPod1,1"}
MCQuoted == {"iPod1,1"}
=============================================================================
