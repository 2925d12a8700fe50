------------------------------- MODULE MCCron -------------------------------
EXTENDS Cron
Perms == Permutations(Callers) \cup Permutations(Timers)
=============================================================================
