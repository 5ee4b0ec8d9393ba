------------------------- MODULE MCFrontendSession -------------------------
EXTENDS FrontendSessionProps
=============================================================================
