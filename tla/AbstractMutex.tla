---------------------------- MODULE AbstractMutex ----------------------------
(***************************************************************************)
(* What a mutex promises its clients, with no word on how: at most one     *)
(* task owns it, a task that asked for it waits until it is the owner, and *)
(* a free mutex that somebody waits for does not stay free.                *)
(***************************************************************************)

CONSTANTS Tasks,    \* the tasks that use the mutex
          NoOwner   \* the value of owner while nobody has the mutex; not a task

VARIABLES owner,    \* the task that has the mutex, or NoOwner
          asking    \* the tasks that wait to get it

vars == <<owner, asking>>

Init == owner = NoOwner /\ asking = {}

\* A task that neither owns nor asks for the mutex asks for it.
Ask(t) ==
    /\ t # owner
    /\ t \notin asking
    /\ asking' = asking \cup {t}
    /\ UNCHANGED owner

\* The free mutex goes to t, which waited for it or asks in this very step.
Grant(t) ==
    /\ owner = NoOwner
    /\ owner' = t
    /\ asking' = asking \ {t}

\* The owner gives the mutex up.
Free ==
    /\ owner # NoOwner
    /\ owner' = NoOwner
    /\ UNCHANGED asking

Next == \/ \E t \in Tasks : Ask(t) \/ Grant(t)
        \/ Free

\* One of the waiting tasks gets the free mutex.
GrantWaiting == \E t \in asking : Grant(t)

Safety == Init /\ [][Next]_vars

Spec == Safety /\ WF_vars(GrantWaiting)
==============================================================================
