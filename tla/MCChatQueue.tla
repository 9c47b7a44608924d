---------------------------- MODULE MCChatQueue ----------------------------
(***************************************************************************)
(* Instances of ChatQueue for TLC.                                         *)
(***************************************************************************)
EXTENDS ChatQueue, TLC

ExecSymmetry == Permutations(Execs)

\* The steps of behaviours in which the runner registers again, or executions are
\* cancelled by a stop and the end of a caller, or by the end of the server.
OneKind ==
    \/ stops' = 0 /\ ends' = 0 /\ stage' # "ending"
    \/ stops' = 0 /\ ends' = 0 /\ gen' <= 1 /\ (gen' = 1 /\ ~online' => sent' <= 1)
    \/ stage' # "ending" /\ gen' <= 1 /\ (gen' = 1 /\ ~online' => sent' <= 1)
=============================================================================
