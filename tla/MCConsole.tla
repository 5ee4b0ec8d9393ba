----------------------------- MODULE MCConsole -----------------------------
EXTENDS ConsoleProps

\* What steps and checked properties depend on: of a session that is over, that its
\* links still ask whether it is paused.
LiveView ==
  <<status, online, terminals, buffer, screen, link, opened, printVars, history,
    [s \in Sessions |-> IF session[s].phase = "over" THEN <<"over", session[s].paused>>
                        ELSE <<session[s]>>]>>
=============================================================================
