----------------------------- MODULE MCWebServer -----------------------------
EXTENDS WebServer
Perms == Permutations(Conns) \cup Permutations(Workers)
=============================================================================
