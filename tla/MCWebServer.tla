---------------------------- MODULE MCWebServer ----------------------------
(* Model-checking instances of WebServer.                                   *)
EXTENDS WebServer, TLC

CONSTANT Named  \* bound: the mails that the clients name in their commands

\* Neither the mails nor the connections are told apart.
Symmetry == Permutations(Message) \cup Permutations(Conn)

NamesOnly(cmds) ==
  \A i \in 1 .. Len(cmds) : cmds[i].action \in {"Open", "Remove"} => cmds[i].id \in Named

\* The service while it runs: nobody stops the storage task.
RunningNext == WebNext /\ ~cancelled' /\ \A c \in Conn : NamesOnly(inbox'[c])

RunningSpec == WebInit /\ [][RunningNext]_webVars /\ WebFairness
=============================================================================
