----------------------------- MODULE MCAppTree -----------------------------
EXTENDS AppTree

CONSTANTS main, http, input, stt, state, rms, language, model, tls, ca, cert, key, none

\* Nothing, one setting, several in another order, one twice, and one that is unknown.
MCPosts == {<< >>, <<language, none>>, <<tls, model, language>>, <<none, model, model>>}
=============================================================================
