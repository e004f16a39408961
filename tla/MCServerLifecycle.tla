-------------------------- MODULE MCServerLifecycle --------------------------
\* One server, one player and one of every operation; two start requests
\* where the poll callbacks and RCON waits of an earlier start may meet a
\* later one.  The cfg picks the switches and the numbers.
EXTENDS ServerLifecycle

CONSTANTS s1, s2, r1

Opt(k, a, f, w) == [kind |-> k, automatic |-> a, forceAfterDeadline |-> f, warning |-> w]

MCOthers == Starts \cup {Stopper, Forcer, AutoStart}

\* A manual restart, a forcing Workshop restart, a scheduled backup, an update.
MCOptions == {Opt("restart", FALSE, FALSE, TRUE), Opt("workshop", TRUE, TRUE, FALSE),
              Opt("backup", TRUE, FALSE, FALSE), Opt("pz-update", FALSE, FALSE, FALSE)}
=============================================================================
