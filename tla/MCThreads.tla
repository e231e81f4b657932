------------------------------ MODULE MCThreads ------------------------------
(***************************************************************************)
(* TLC instance of ThreadLifecycle and ExecuteOnce.  Both model thread.cpp *)
(* but share no state, so no interleaving of the two can matter: every     *)
(* behaviour is one of a thread's life or one of a once flag.              *)
(***************************************************************************)
EXTENDS ThreadLifecycle, ExecuteOnce

VARIABLE part  \* the part that takes steps

Lifecycle == part = "lifecycle" /\ UNCHANGED <<part, onceVars>>
Once == part = "once" /\ UNCHANGED <<part, vars>>

MCInit == Init /\ OnceInit /\ part \in {"lifecycle", "once"}

MCNext == (Next /\ Lifecycle) \/ (OnceNext /\ Once)

\* The fairness of FairSpec and of OnceFairSpec.
MCSpec ==
    /\ MCInit /\ [][MCNext]_<<vars, onceVars, part>>
    /\ \A t \in Threads : /\ WF_vars(Finish(t) /\ Lifecycle) /\ WF_vars(Reap(t) /\ Lifecycle)
                          /\ WF_vars(JoinReturn(t) /\ Lifecycle)
    /\ \A t \in Tasks : /\ WF_onceVars(SpinResume(t) /\ Once)
                        /\ WF_onceVars((InitReturns(t) \/ InitThrows(t)) /\ Once)
==============================================================================
