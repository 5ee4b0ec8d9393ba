------------------------------ MODULE MCProxy ------------------------------
EXTENDS ProxyProps
=============================================================================
