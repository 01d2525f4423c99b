---------------------------- MODULE MCFreeMemory ----------------------------
EXTENDS FreeMemory

CONSTANTS t1, t2

\* Two threads that claim and return; a reader, and a thread that only returns.
MCTeams ==
    {[claim |-> {t1, t2}, return |-> {t1, t2}], [claim |-> {t1}, return |-> {t1, t2}]}

\* A reader, and the removal thread.
MCReaderAndRemover == {[claim |-> {t1}, return |-> {t2}]}
=============================================================================
