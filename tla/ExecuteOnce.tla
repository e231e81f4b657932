----------------------------- MODULE ExecuteOnce -----------------------------
(***************************************************************************)
(* __libcpp_execute_once (libs/libcxx-threading/src/thread.cpp), which     *)
(* implements std::call_once.  The init routine may yield, so other tasks  *)
(* run while it is in progress; it may throw, and then some later or       *)
(* waiting caller tries again.                                             *)
(***************************************************************************)
EXTENDS Integers, FiniteSets

CONSTANT Tasks   \* the tasks that call with the same flag

VARIABLES
    flag,      \* *__flag: 0 not started, 1 in progress, 2 done
    pc,        \* each task: "idle", "init" in the init routine, "spin" in the
               \*   inner loop, "returned", "threw"
    completed  \* how often the init routine ran to its end

onceVars == <<flag, pc, completed>>

OnceInit ==
    /\ flag = 0
    /\ pc = [t \in Tasks |-> "idle"]
    /\ completed = 0

\* One turn of the outer loop, up to the point where it returns or may yield.
LoopTop(t) ==
    \/ /\ flag = 2
       /\ pc' = [pc EXCEPT ![t] = "returned"]
       /\ UNCHANGED flag
    \/ /\ flag = 0
       /\ flag' = 1
       /\ pc' = [pc EXCEPT ![t] = "init"]
    \/ /\ flag = 1
       /\ pc' = [pc EXCEPT ![t] = "spin"]
       /\ UNCHANGED flag

\* A call begins, the first one of the task or any later one: a caller that got
\* the exception may call again at once, without a yield in between (std::call_once
\* itself does not call when the flag is done, but the library does not rely on
\* that).
Call(t) ==
    /\ pc[t] \in {"idle", "returned", "threw"}
    /\ LoopTop(t)
    /\ UNCHANGED completed

\* Variant with a mistake: the end of the routine is taken for its success.
SpinResumeReturns(t) ==
    /\ pc[t] = "spin"
    /\ flag # 1
    /\ pc' = [pc EXCEPT ![t] = "returned"]
    /\ UNCHANGED <<flag, completed>>

\* The inner loop yields while the flag is 1 and then starts over.
SpinResume(t) ==
    /\ pc[t] = "spin"
    /\ flag # 1
    /\ LoopTop(t)
    /\ UNCHANGED completed

\* Variant with a mistake: the flag does not say "done".
InitReturnsResets(t) ==
    /\ pc[t] = "init"
    /\ flag' = 0
    /\ completed' = completed + 1
    /\ pc' = [pc EXCEPT ![t] = "returned"]

InitReturns(t) ==
    /\ pc[t] = "init"
    /\ flag' = 2
    /\ completed' = completed + 1
    /\ pc' = [pc EXCEPT ![t] = "returned"]

\* Variant with a mistake: the flag stays 1 when the routine throws.
InitThrowsKeepsFlag(t) ==
    /\ pc[t] = "init"
    /\ pc' = [pc EXCEPT ![t] = "threw"]
    /\ UNCHANGED <<flag, completed>>

InitThrows(t) ==
    /\ pc[t] = "init"
    /\ flag' = 0
    /\ pc' = [pc EXCEPT ![t] = "threw"]
    /\ UNCHANGED completed

OnceNext == \E t \in Tasks :
    Call(t) \/ SpinResume(t) \/ InitReturns(t) \/ InitThrows(t)

OnceSpec == OnceInit /\ [][OnceNext]_onceVars

\* Yielding tasks are run again in turn; the init routine ends, either way.
OnceFairSpec ==
    /\ OnceSpec
    /\ \A t \in Tasks : WF_onceVars(SpinResume(t))
                        /\ WF_onceVars(InitReturns(t) \/ InitThrows(t))
------------------------------------------------------------------------------
OnceTypeOK ==
    /\ flag \in 0..2
    /\ pc \in [Tasks -> {"idle", "init", "spin", "returned", "threw"}]
    /\ completed \in Nat

\* The flag is 1 exactly while one task, and only one, is in the init routine.
OneInitialiser ==
    /\ \A t, u \in Tasks : pc[t] = "init" /\ pc[u] = "init" => t = u
    /\ flag = 1 <=> \E t \in Tasks : pc[t] = "init"

\* The init routine completes at most once, however often it throws before.
CompletesOnce == completed = (IF flag = 2 THEN 1 ELSE 0)

\* No caller returns from execute_once before the init routine has completed,
\* also not one that spun while a failing routine was in progress
\* (thread.cpp:279-282).
ReturnedMeansDone == (\E t \in Tasks : pc[t] = "returned") => flag = 2

\* A caller that found the routine in progress spins for ever only when the
\* routine throws again and again.  Otherwise it returns, or runs the routine
\* itself and throws.  (The throwing task may call again before it yields; the
\* spinner then never sees the flag at 0, thread.cpp:279-282 and 302-312.)
SpinEnds ==
    \/ []<><<\E t \in Tasks : InitThrows(t)>>_onceVars
    \/ \A t \in Tasks : pc[t] = "spin" ~> pc[t] \in {"returned", "threw"}
==============================================================================
