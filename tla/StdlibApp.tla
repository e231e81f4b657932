------------------------------ MODULE StdlibApp ------------------------------
(***************************************************************************)
(* The base classes of applications (include/circle_stdlib_app.h) and the  *)
(* main() of the samples: Initialize() brings the devices up one after the *)
(* other, every class after those of its base class, then Run() is called, *)
(* Cleanup() and the machine halts.                                        *)
(***************************************************************************)
EXTENDS Integers, Sequences

VARIABLES
    appPc,    \* "init", "run", "cleanup" or "halt"
    appType,  \* mDeviceType
    up,       \* devices that are initialised, in this order
    netUp     \* mNet.IsRunning()

appVars == <<appPc, appType, up, netUp>>

\* What Initialize() of the classes does, in order.
AppSteps == <<"interrupt">>
ScreenSteps == AppSteps \o <<"screen", "serial", "logger", "timer">>
StdioSteps == ScreenSteps \o <<"emmc", "mount", "usb", "console", "stdio">>

InitializeNoWait(type) ==
    StdioSteps \o (IF type = "wlan" THEN <<"wlan", "net", "wpa">> ELSE <<"net">>)

NetworkSteps(type) == InitializeNoWait(type) \o <<"running", "network">>

AppInit == appPc = "init" /\ appType \in {"ethernet", "wlan"} /\ up = <<>> /\ netUp = FALSE

Step == NetworkSteps(appType)[Len(up) + 1]

\* Gluing newlib to the console and to the network does not fail.
CanFail(step) == step \notin {"stdio", "running", "network"}

Initialize ==
    /\ appPc = "init" /\ up # NetworkSteps(appType)
    /\ \/ /\ Step = "running" => netUp
          /\ up' = Append(up, Step)
          /\ appPc' = IF up' = NetworkSteps(appType) THEN "run" ELSE "init"
       \/ CanFail(Step) /\ appPc' = "halt" /\ UNCHANGED up
    /\ UNCHANGED <<appType, netUp>>

\* The network gets its address and runs.
NetRuns ==
    /\ ~netUp /\ \E i \in DOMAIN up : up[i] = "net"
    /\ netUp' = TRUE
    /\ UNCHANGED <<appPc, appType, up>>

\* Cleanup() unmounts the file system.
Cleanup ==
    /\ appPc = "cleanup" /\ appPc' = "halt"
    /\ up' = SelectSeq(up, LAMBDA d : d # "mount")
    /\ UNCHANGED <<appType, netUp>>
==============================================================================
