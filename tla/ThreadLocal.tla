----------------------------- MODULE ThreadLocal -----------------------------
(***************************************************************************)
(* Thread-local storage of libs/libcxx-threading/src/thread.cpp: the TLS   *)
(* keys (__libcpp_tls_create, _get, _set), the destructor passes at the    *)
(* end of CLibCXXTask::Run and __cxa_thread_atexit, which keeps the list   *)
(* of a task's thread_local objects under a key of its own.                *)
(*                                                                         *)
(* A slot of the kv array is a sequence of objects: at most one for a key  *)
(* of a client, the linked list, head first, for the key of                *)
(* __cxa_thread_atexit, and <<>> for the null pointer.  Objects are        *)
(* numbered in the order in which they are constructed.  A destructor may  *)
(* yield and may itself set slots and construct thread_local objects.      *)
(***************************************************************************)
EXTENDS Integers, Sequences, FiniteSets

CONSTANTS Threads,     \* tasks made by __libcpp_thread_create
          OtherTasks,  \* the main task and other tasks of Circle
          MaxKeys,     \* MAX_TLS_KEYS
          Iterations,  \* PTHREAD_DESTRUCTOR_ITERATIONS
          MaxObjs      \* bound: objects constructed in a run

ASSUME TlsAssumption ==
    /\ Threads \cap OtherTasks = {} /\ "none" \notin Threads \cup OtherTasks
    /\ MaxKeys \in Nat \ {0} /\ Iterations \in Nat \ {0} /\ MaxObjs \in Nat

Tasks == Threads \cup OtherTasks
Keys == 0..(MaxKeys - 1)
Objs == 1..MaxObjs

VARIABLES
    s_initialized,  \* the static of __libcpp_thread_create
    s_next_key,
    s_destructors,  \* s_destructors[k]: a destructor is registered for k
    cxa_key,        \* the key of __cxa_thread_atexit once it exists, else -1
    tls,            \* tls[t]: the task has a TaskTLSData
    kv,             \* kv[t][k]: the slot
    run,            \* run[t]: "new", "run", "exit" in the passes, "gone"
    pass,           \* pass[t]: the loop of Run: iteration i, key k,
                    \*   destructors_called, and cur, the objects of the slot
                    \*   whose destructor is running
    owner,          \* owner[o]: the task that constructed o, or "none"
    atexit,         \* the objects given to __cxa_thread_atexit
    late,           \* the objects constructed during the passes
    runs            \* runs[o]: how often o was destroyed

vars == <<s_initialized, s_next_key, s_destructors, cxa_key, tls, kv, run, pass,
          owner, atexit, late, runs>>

keyVars == <<s_next_key, s_destructors, cxa_key>>
objVars == <<owner, atexit, late>>

NoPass == [i |-> 0, k |-> 0, called |-> FALSE, cur |-> <<>>]

\* A fresh TaskTLSData; the hardware TLS block beside the slots is left out.
EmptyKv == [k \in Keys |-> <<>>]

Init ==
    /\ s_initialized = FALSE
    /\ s_next_key = 0
    /\ s_destructors = [k \in Keys |-> FALSE]
    /\ cxa_key = -1
    /\ tls = [t \in Tasks |-> FALSE]
    /\ kv = [t \in Tasks |-> EmptyKv]
    /\ run = [t \in Tasks |-> IF t \in Threads THEN "new" ELSE "run"]
    /\ pass = [t \in Tasks |-> NoPass]
    /\ owner = [o \in Objs |-> "none"]
    /\ atexit = {}
    /\ late = {}
    /\ runs = [o \in Objs |-> 0]
------------------------------------------------------------------------------
\* __libcpp_thread_create called by c: the first call ever gives c a
\* TaskTLSData; every call makes a task that has one.
Create(c, t) ==
    /\ run[c] = "run" /\ t \in Threads /\ run[t] = "new"
    /\ s_initialized' = TRUE
    /\ tls' = [u \in Tasks |-> tls[u] \/ u = t \/ (u = c /\ ~s_initialized)]
    /\ kv' = IF s_initialized THEN kv ELSE [kv EXCEPT ![c] = EmptyKv]
    /\ run' = [run EXCEPT ![t] = "run"]
    /\ UNCHANGED <<keyVars, pass, objVars, runs>>

\* __libcpp_tls_create: keys are never given back.  The code does not check
\* for MAX_TLS_KEYS; clients are assumed to stay below it.
NewKey(dtor) ==
    /\ s_next_key < MaxKeys
    /\ s_next_key' = s_next_key + 1
    /\ s_destructors' = [s_destructors EXCEPT ![s_next_key] = dtor]

TlsCreate(t) ==
    /\ run[t] = "run"
    /\ \E dtor \in BOOLEAN : NewKey(dtor)
    /\ UNCHANGED <<s_initialized, cxa_key, tls, kv, run, pass, objVars, runs>>

TlsGet(t, k) == IF tls[t] THEN kv[t][k] ELSE <<>>

\* __libcpp_tls_set: without a TaskTLSData the value is dropped.
TlsSet(t, k, s) == kv' = IF tls[t] THEN [kv EXCEPT ![t][k] = s] ELSE kv

\* o is the next object, constructed by t.
Construct(t, o) ==
    /\ o \in Objs /\ owner[o] = "none"
    /\ \A p \in Objs : owner[p] = "none" => o <= p
    /\ owner' = [owner EXCEPT ![o] = t]
    /\ late' = IF run[t] = "exit" THEN late \cup {o} ELSE late

\* A client puts a new object under one of its keys.
SetSlot(t) ==
    \E o \in Objs, k \in Keys :
        /\ k < s_next_key /\ k # cxa_key
        /\ Construct(t, o)
        /\ TlsSet(t, k, <<o>>)
        /\ UNCHANGED <<keyVars, atexit>>

\* Variant with a mistake: the object goes to the end of the list.
AtExitAppends(t) ==
    \E o \in Objs, k \in Keys :
        /\ IF cxa_key = -1 THEN NewKey(TRUE) /\ k = s_next_key
                           ELSE k = cxa_key /\ UNCHANGED <<s_next_key, s_destructors>>
        /\ cxa_key' = k
        /\ Construct(t, o)
        /\ TlsSet(t, k, TlsGet(t, k) \o <<o>>)
        /\ atexit' = atexit \cup {o}

\* __cxa_thread_atexit for a new thread_local object: the first call makes the
\* key (cxa_thread_atexit_init does not yield), then the object is prepended.
\* Memory is assumed not to run out: thread.cpp:395-398 returns -1 for a node
\* that cannot be allocated and leaves the object unregistered.
AtExit(t) ==
    \E o \in Objs, k \in Keys :
        /\ IF cxa_key = -1 THEN NewKey(TRUE) /\ k = s_next_key
                           ELSE k = cxa_key /\ UNCHANGED <<s_next_key, s_destructors>>
        /\ cxa_key' = k
        /\ Construct(t, o)
        /\ TlsSet(t, k, <<o>> \o TlsGet(t, k))
        /\ atexit' = atexit \cup {o}

Use(t) ==
    /\ run[t] = "run"
    /\ SetSlot(t) \/ AtExit(t)
    /\ UNCHANGED <<s_initialized, tls, run, pass, runs>>
------------------------------------------------------------------------------
\* The thread function returns: the destructor passes begin.
FunctionReturns(t) ==
    /\ t \in Threads /\ run[t] = "run"
    /\ run' = [run EXCEPT ![t] = "exit"]
    /\ UNCHANGED <<s_initialized, keyVars, tls, kv, pass, objVars, runs>>

\* Variants with a mistake: the slot is not nulled, the call is not noted.
EnterSlotKeepsValue(t) ==
    /\ run[t] = "exit" /\ pass[t].cur = <<>> /\ pass[t].k < s_next_key
    /\ kv[t][pass[t].k] # <<>> /\ s_destructors[pass[t].k]
    /\ pass' = [pass EXCEPT ![t].cur = kv[t][pass[t].k], ![t].called = TRUE]
    /\ UNCHANGED <<s_initialized, keyVars, tls, kv, run, objVars, runs>>

EnterSlotUnnoted(t) ==
    /\ run[t] = "exit" /\ pass[t].cur = <<>> /\ pass[t].k < s_next_key
    /\ kv[t][pass[t].k] # <<>> /\ s_destructors[pass[t].k]
    /\ pass' = [pass EXCEPT ![t].cur = kv[t][pass[t].k]]
    /\ kv' = [kv EXCEPT ![t][pass[t].k] = <<>>]
    /\ UNCHANGED <<s_initialized, keyVars, tls, run, objVars, runs>>

\* A full slot with a destructor is nulled before its destructor is called.
EnterSlot(t) ==
    /\ run[t] = "exit" /\ pass[t].cur = <<>> /\ pass[t].k < s_next_key
    /\ kv[t][pass[t].k] # <<>> /\ s_destructors[pass[t].k]
    /\ pass' = [pass EXCEPT ![t].cur = kv[t][pass[t].k], ![t].called = TRUE]
    /\ kv' = [kv EXCEPT ![t][pass[t].k] = <<>>]
    /\ UNCHANGED <<s_initialized, keyVars, tls, run, objVars, runs>>

\* The next object of the slot is destroyed; its destructor may use the TLS.
\* The loop goes on to the next key after the last object.
DestroyObject(t) ==
    /\ run[t] = "exit" /\ pass[t].cur # <<>>
    /\ runs' = [runs EXCEPT ![Head(pass[t].cur)] = @ + 1]
    /\ pass' = [pass EXCEPT ![t].cur = Tail(@),
                            ![t].k = IF Len(pass[t].cur) = 1 THEN @ + 1 ELSE @]
    /\ \/ UNCHANGED <<kv, keyVars, objVars>>
       \/ SetSlot(t)
       \/ AtExit(t)
    /\ UNCHANGED <<s_initialized, tls, run>>

SkipSlot(t) ==
    /\ run[t] = "exit" /\ pass[t].cur = <<>> /\ pass[t].k < s_next_key
    /\ kv[t][pass[t].k] = <<>> \/ ~s_destructors[pass[t].k]
    /\ pass' = [pass EXCEPT ![t].k = @ + 1]
    /\ UNCHANGED <<s_initialized, keyVars, tls, kv, run, objVars, runs>>

PassEnds(t) == run[t] = "exit" /\ pass[t].cur = <<>> /\ pass[t].k >= s_next_key

NextPass(t) ==
    /\ PassEnds(t)
    /\ pass[t].called /\ pass[t].i + 1 < Iterations
    /\ pass' = [pass EXCEPT ![t] = [NoPass EXCEPT !.i = pass[t].i + 1]]
    /\ UNCHANGED <<s_initialized, keyVars, tls, kv, run, objVars, runs>>

\* The block and the TaskTLSData are deleted, the user data nulled.
FreeTls(t) ==
    /\ PassEnds(t)
    /\ ~pass[t].called \/ pass[t].i + 1 >= Iterations
    /\ tls' = [tls EXCEPT ![t] = FALSE]
    /\ kv' = [kv EXCEPT ![t] = EmptyKv]
    /\ run' = [run EXCEPT ![t] = "gone"]
    /\ UNCHANGED <<s_initialized, keyVars, pass, objVars, runs>>

Exit(t) == EnterSlot(t) \/ DestroyObject(t) \/ SkipSlot(t) \/ NextPass(t) \/ FreeTls(t)

Next == \E t \in Tasks :
    \/ \E u \in Threads : Create(t, u)
    \/ TlsCreate(t)
    \/ Use(t)
    \/ FunctionReturns(t)
    \/ Exit(t)

Spec == Init /\ [][Next]_vars
------------------------------------------------------------------------------
TypeOK ==
    /\ s_initialized \in BOOLEAN
    /\ s_next_key \in 0..MaxKeys
    /\ s_destructors \in [Keys -> BOOLEAN]
    /\ cxa_key \in Keys \cup {-1}
    /\ tls \in [Tasks -> BOOLEAN]
    /\ \A t \in Tasks : \A k \in Keys : kv[t][k] \in Seq(Objs)
    /\ run \in [Tasks -> {"new", "run", "exit", "gone"}]
    /\ pass \in [Tasks -> [i : 0..(Iterations - 1), k : 0..MaxKeys,
                           called : BOOLEAN, cur : UNION {[1..n -> Objs] : n \in 0..MaxObjs}]]
    /\ runs \in [Objs -> Nat]

\* No thread-local object is destroyed twice, although its slot can be set
\* again by any destructor and the passes go over the slots several times.
DestroyedOnce == \A o \in Objs : runs[o] <= 1

\* Why DestroyedOnce holds: the objects in the slots of a task are its own and
\* not destroyed yet, because a slot is emptied before its destructor runs.
SlotsHoldLiveObjects ==
    \A t \in Tasks : \A k \in Keys :
        \A j \in 1..Len(kv[t][k]) :
            runs[kv[t][k][j]] = 0 /\ owner[kv[t][k][j]] = t

\* The thread_local objects a thread constructed before its function returned
\* are destroyed in reverse order of construction (thread.cpp:357-358),
\* whatever the destructors and the other tasks do in between.
ReverseOrder ==
    [][\A o \in atexit \ late : runs'[o] > runs[o] =>
          \A p \in atexit \ late :
              p > o /\ owner[p] = owner[o] => runs[p] = 1]_vars

\* A thread whose passes end before the limit leaves no slot with a destructor
\* filled: nothing that a destructor put back is forgotten.
NothingLeftBehind ==
    [][\A t \in Threads : run[t] = "exit" /\ run'[t] = "gone" /\ ~pass[t].called =>
          \A k \in Keys : s_destructors[k] => kv[t][k] = <<>>]_vars

\* thread.cpp:357 says the list is processed "LIFO (reverse construction
\* order), as required by the C++ standard": an object is destroyed after all
\* thread_local objects that its thread constructed later.
StrictReverseOrder ==
    [][\A o \in atexit : runs'[o] > runs[o] =>
          \A p \in atexit : p > o /\ owner[p] = owner[o] => runs[p] = 1]_vars

\* thread.cpp:319 says "Each task stores a TaskTLSData": an object a task has
\* just put under a key is what the task gets there.
SetIsVisible ==
    [][\A o \in Objs : owner[o] = "none" /\ owner'[o] # "none" =>
          \E k \in Keys : LET s == TlsGet(owner[o], k)'
                          IN  s # <<>> /\ Head(s) = o]_vars
==============================================================================
