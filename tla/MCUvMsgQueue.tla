---------------------------- MODULE MCUvMsgQueue ----------------------------
(* Instances of UvMsgQueue for TLC.                                        *)
EXTENDS UvMsgQueue

\* The tasks of `main' post to `io', and those to `log'; one ends its loop.
MCRunsOn == [t \in Task |-> IF t \in {"start", "stop"} THEN "main"
                            ELSE IF t = "load" THEN "io" ELSE "log"]
MCPosts == [t \in Task |-> CASE t = "start" -> "load" [] t = "load" -> "line" [] OTHER -> None]
=============================================================================
