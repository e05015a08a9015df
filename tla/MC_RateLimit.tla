---------------------------- MODULE MC_RateLimit -----------------------------
EXTENDS RateLimit

\* Half a second or a second per loop iteration (usleep(interval) plus the
\* work); the wall clock set a second back or forward, at most once net.
MCLoopGaps == {500000, 1000000}
MCClockSteps == {-1000000, 1000000}
MCMaxReal == 3000000
MCMaxSkew == 1000000
=============================================================================
