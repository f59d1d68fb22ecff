-------------------------- MODULE MCProcessPriority --------------------------
EXTENDS ProcessPriority

\* The player's service raises its priority, the radio's does not.
MCLevel == [p \in Pid |-> CASE p = "home" -> MIDDLE [] p = "player" -> HIGH [] p = "radio" -> LOW]
MCServiceLevel == [p \in {"player", "radio"} |-> IF p = "player" THEN PERSISTENT ELSE LOW]

\* No lmk.cfg: 2, 4 and 8 MB of the 20 are the warnings.
MCCfg == <<>>
\* Enough; much, but in small blocks; almost none.
MCMemory == {<<12582912, 8388608>>, <<9437184, 6291456>>, <<2097152, 1024>>}
=============================================================================
