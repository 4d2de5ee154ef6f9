-------------------------- MODULE MCEasyNmeaClaims --------------------------
\* The small instances of MCEasyNmeaImpl, for the claims.
EXTENDS MCEasyNmeaImpl, EasyNmeaClaims
=============================================================================
