------------------------------ MODULE VpnTunnel ------------------------------
(***************************************************************************)
(* ArbuzVpnService on Android: the VPN interface, the sing-box process and *)
(* the threads that start, watch and stop them.                            *)
(*                                                                         *)
(* Intents are handled on the main thread.  Every connect intent starts a  *)
(* thread; a thread that launches the core starts a watchdog, which waits  *)
(* for the process to exit, and a health monitor, which polls it.  All of  *)
(* them call teardownTunnel, on fields that no lock protects.  A destroyed *)
(* service is replaced by a new object, while the threads of the old one   *)
(* keep running on its fields.                                             *)
(*                                                                         *)
(* A step reads or writes one field; but monitorActive is cleared in one   *)
(* step with destroy(), which only asks for what may happen at any time.   *)
(* A connect attempt identifies the interface and the process it creates.  *)
(* An interface is open from establish() until close(), whether a field    *)
(* still holds its descriptor or not.  ArbuzVpnStateHolder, which these    *)
(* threads write and none of them reads, is left out.                      *)
(***************************************************************************)
EXTENDS Integers

CONSTANTS
    Attempts,     \* connect intents
    NoOne,        \* null
    MaxServices   \* bound: service objects that are created

ASSUME VpnAssumption ==
    /\ NoOne \notin Attempts
    /\ MaxServices \in Nat \ {0}

VARIABLES
    iface,      \* vpnInterface of each service object
    core,       \* coreProcess of each service object
    monitor,    \* monitorActive of each service object
    open,       \* interfaces that were established and not closed
    alive,      \* processes that run
    current,    \* the service object that gets the intents
    destroying, \* the main thread is in onDestroy
    service,    \* the service object an attempt was made on
    pc,         \* control point of every thread
    crossed     \* history: the objects on which threads have crossed

vars == <<iface, core, monitor, open, alive, current, destroying, service, pc, crossed>>

Services == 1..MaxServices
Main == <<"main", NoOne>>
Connecting(c) == <<"connect", c>>
Watchdog(c) == <<"watchdog", c>>
Health(c) == <<"health", c>>
Threads == {Main} \union ({"connect", "watchdog", "health"} \X Attempts)

Teardown == {"stop", "forget", "close", "null"}
Control == {"off", "idle", "end", "wait", "loop", "loopCore", "loopIface",
            "probe", "check", "establish", "store", "launch", "register",
            "observe"} \union Teardown

TypeOK ==
    /\ iface \in [Services -> Attempts \union {NoOne}]
    /\ core \in [Services -> Attempts \union {NoOne}]
    /\ monitor \in [Services -> BOOLEAN]
    /\ open \subseteq Attempts
    /\ alive \subseteq Attempts
    /\ current \in Services
    /\ destroying \in BOOLEAN
    /\ service \in [Attempts -> Services]
    /\ pc \in [Threads -> Control]
    /\ crossed \subseteq Services

Init ==
    /\ iface = [s \in Services |-> NoOne]
    /\ core = [s \in Services |-> NoOne]
    /\ monitor = [s \in Services |-> FALSE]
    /\ open = {}
    /\ alive = {}
    /\ current = 1
    /\ destroying = FALSE
    /\ service = [c \in Attempts |-> 1]
    /\ pc = [t \in Threads |-> IF t = Main THEN "idle" ELSE "off"]
    /\ crossed = {}

fields == <<iface, core, monitor>>
processes == <<open, alive>>
lifecycle == <<current, destroying, service>>

(* The object whose fields a thread uses.                                  *)
This(t) == IF t = Main THEN current ELSE service[t[2]]

Goto(t, from, to) ==
    /\ pc[t] = from
    /\ pc' = [pc EXCEPT ![t] = to]

-----------------------------------------------------------------------------
(* Faulty variants, see the properties below.                              *)

(* The field is emptied before close(), which finds nothing to close.      *)
EmptiedClose(t) ==
    /\ Goto(t, "close", "null")
    /\ iface' = [iface EXCEPT ![This(t)] = NoOne]
    /\ UNCHANGED <<core, monitor, processes, lifecycle>>

(* The interface is kept when the core does not start.                     *)
KeepingCoreFails(c) ==
    /\ Goto(Connecting(c), "launch", "end")
    /\ UNCHANGED <<fields, processes, lifecycle>>

(* The interface field receives the descriptor before the null check.      *)
UncheckedStore(c) ==
    /\ Goto(Connecting(c), "store", "launch")
    /\ iface' = [iface EXCEPT ![service[c]] = "null"]
    /\ UNCHANGED <<core, monitor, processes, lifecycle>>

-----------------------------------------------------------------------------
(* The main thread                                                         *)

(* onStartCommand(ACTION_CONNECT) starts a thread.                         *)
Connect(c) ==
    /\ pc[Main] = "idle"
    /\ Goto(Connecting(c), "off", "check")
    /\ service' = [service EXCEPT ![c] = current]
    /\ UNCHANGED <<fields, processes, current, destroying>>

(* onStartCommand(ACTION_DISCONNECT) tears down on the main thread.        *)
Disconnect ==
    /\ Goto(Main, "idle", "stop")
    /\ UNCHANGED <<fields, processes, lifecycle>>

(* onDestroy, after stopSelf, or when the system revokes the VPN.          *)
Destroy ==
    /\ current < MaxServices
    /\ Goto(Main, "idle", "stop")
    /\ destroying' = TRUE
    /\ UNCHANGED <<fields, processes, current, service>>

-----------------------------------------------------------------------------
(* establishTunnel                                                         *)

ConnectCheck(c) ==
    /\ Goto(Connecting(c), "check",
            IF iface[service[c]] = NoOne THEN "establish" ELSE "end")
    /\ UNCHANGED <<fields, processes, lifecycle>>

(* Builder.establish() returns a descriptor, or null.                      *)
Establish(c) ==
    /\ \/ /\ Goto(Connecting(c), "establish", "store")
          /\ open' = open \union {c}
       \/ /\ Goto(Connecting(c), "establish", "end")
          /\ open' = open
    /\ UNCHANGED <<fields, alive, lifecycle>>

(* The descriptor another attempt has stored meanwhile is lost, not closed. *)
Store(c) ==
    /\ Goto(Connecting(c), "store", "launch")
    /\ iface' = [iface EXCEPT ![service[c]] = c]
    /\ UNCHANGED <<core, monitor, processes, lifecycle>>

(* startNativeCore: there is no binary, no usable runtime config, or the   *)
(* process does not start.                                                 *)
CoreFails(c) ==
    /\ Goto(Connecting(c), "launch", "stop")
    /\ UNCHANGED <<fields, processes, lifecycle>>

CoreStarts(c) ==
    /\ Goto(Connecting(c), "launch", "register")
    /\ alive' = alive \union {c}
    /\ UNCHANGED <<fields, open, lifecycle>>

(* The process is published, and its watchdog starts to wait.              *)
Register(c) ==
    /\ pc[Connecting(c)] = "register"
    /\ pc' = [pc EXCEPT ![Connecting(c)] = "observe", ![Watchdog(c)] = "wait"]
    /\ core' = [core EXCEPT ![service[c]] = c]
    /\ UNCHANGED <<iface, monitor, processes, lifecycle>>

StartHealthMonitor(c) ==
    /\ pc[Connecting(c)] = "observe"
    /\ pc' = [pc EXCEPT ![Connecting(c)] = "end", ![Health(c)] = "loop"]
    /\ monitor' = [monitor EXCEPT ![service[c]] = TRUE]
    /\ UNCHANGED <<iface, core, processes, lifecycle>>

-----------------------------------------------------------------------------
(* The process and its observers                                           *)

CoreExits(c) ==
    /\ c \in alive
    /\ alive' = alive \ {c}
    /\ UNCHANGED <<fields, open, lifecycle, pc>>

(* monitorProcessExit: waitFor returns.                                    *)
WatchdogWakes(c) ==
    /\ c \notin alive
    /\ Goto(Watchdog(c), "wait", IF core[service[c]] = c THEN "stop" ELSE "end")
    /\ UNCHANGED <<fields, processes, lifecycle>>

(* The three reads of the health monitor's loop condition, and its body.   *)
HealthLoop(c) ==
    /\ \/ Goto(Health(c), "loop",
               IF monitor[service[c]] THEN "loopCore" ELSE "end")
       \/ Goto(Health(c), "loopCore",
               IF core[service[c]] = c THEN "loopIface" ELSE "end")
       \/ Goto(Health(c), "loopIface",
               IF iface[service[c]] # NoOne THEN "probe" ELSE "end")
    /\ UNCHANGED <<fields, processes, lifecycle>>

HealthProbe(c) ==
    /\ Goto(Health(c), "probe", IF c \in alive THEN "loop" ELSE "stop")
    /\ UNCHANGED <<fields, processes, lifecycle>>

-----------------------------------------------------------------------------
(* teardownTunnel, on any thread                                           *)

(* The health monitor is asked to end, and the process to exit: it may     *)
(* take its time, as it may exit at any other time.                        *)
Stop(t) ==
    /\ Goto(t, "stop", "forget")
    /\ monitor' = [monitor EXCEPT ![This(t)] = FALSE]
    /\ alive' \in {alive, alive \ {core[This(t)]}}
    /\ UNCHANGED <<iface, core, open, lifecycle>>

Forget(t) ==
    /\ Goto(t, "forget", "close")
    /\ core' = [core EXCEPT ![This(t)] = NoOne]
    /\ UNCHANGED <<iface, monitor, processes, lifecycle>>

(* close() releases the interface, also when it throws.                    *)
Close(t) ==
    /\ Goto(t, "close", "null")
    /\ open' = open \ {iface[This(t)]}
    /\ UNCHANGED <<fields, alive, lifecycle>>

(* The finally block.  What the field holds by now is dropped.  After      *)
(* onDestroy the object is left to its threads.                            *)
Drop(t) ==
    /\ Goto(t, "null", IF t = Main THEN "idle" ELSE "end")
    /\ iface' = [iface EXCEPT ![This(t)] = NoOne]
    /\ destroying' = (destroying /\ t # Main)
    /\ current' = IF destroying /\ t = Main THEN current + 1 ELSE current
    /\ UNCHANGED <<core, monitor, processes, service>>

-----------------------------------------------------------------------------

ConnectStep(c) ==
    \/ ConnectCheck(c) \/ Establish(c) \/ Store(c)
    \/ CoreFails(c) \/ CoreStarts(c) \/ Register(c)
    \/ StartHealthMonitor(c)

HealthStep(c) == HealthLoop(c) \/ HealthProbe(c)

TeardownStep(t) == Stop(t) \/ Forget(t) \/ Close(t) \/ Drop(t)

Step ==
    \/ \E c \in Attempts : \/ Connect(c)
                           \/ ConnectStep(c)
                           \/ CoreExits(c)
                           \/ WatchdogWakes(c)
                           \/ HealthStep(c)
    \/ \E t \in Threads : TeardownStep(t)
    \/ Disconnect
    \/ Destroy

(* A connect thread has found no interface and has not stored its own,     *)
(* while another thread of the object does the same or tears it down: a    *)
(* descriptor may be overwritten, or dropped without being closed.         *)
Crossing(s) ==
    \E c \in Attempts, t \in Threads :
        /\ service[c] = s /\ pc[Connecting(c)] \in {"establish", "store"}
        /\ t # Connecting(c)
        /\ This(t) = s /\ pc[t] \in {"establish", "store"} \union Teardown

Record == crossed' = crossed \union {s \in Services : Crossing(s)'}

Next == Step /\ Record

Spec == Init /\ [][Next]_vars

(* Threads that can run do run, but one that fetches its runtime config:   *)
(* the timeouts are for one read each, so the answer may take for ever.    *)
(* The user and the life of the process are not constrained.               *)
ConnectThread(c) ==
    (ConnectStep(c) /\ pc[Connecting(c)] # "launch") \/ TeardownStep(Connecting(c))
WatchdogThread(c) == WatchdogWakes(c) \/ TeardownStep(Watchdog(c))
HealthThread(c) == HealthStep(c) \/ TeardownStep(Health(c))

Fairness ==
    /\ \A c \in Attempts : /\ WF_pc(ConnectThread(c))
                           /\ WF_pc(WatchdogThread(c))
                           /\ WF_pc(HealthThread(c))
    /\ WF_pc(TeardownStep(Main))

FairSpec == Spec /\ Fairness

-----------------------------------------------------------------------------
(* What the service promises.                                              *)

(* No thread of a service object is on its way to change its fields: what  *)
(* is left are observers of processes that run.                            *)
Settled(s) ==
    /\ current = s => pc[Main] = "idle"
    /\ \A c \in Attempts : service[c] = s =>
         /\ pc[Connecting(c)] \in {"off", "end"}
         /\ \/ pc[Watchdog(c)] \in {"off", "end"}
            \/ pc[Watchdog(c)] = "wait" /\ c \in alive
         /\ pc[Health(c)] \notin Teardown

(* Once a service object settles, every interface it has open is the one   *)
(* its field holds and has a running core behind it, unless threads have   *)
(* crossed on the object; and what the field holds has a running core in   *)
(* any case.  However connects, disconnects, a late onDestroy, exits and   *)
(* health checks follow each other, the phone's traffic is not left in a   *)
(* tunnel nobody reads.  What the code leaves open when threads cross      *)
(* (lines 84 and 104-108) is not excluded.                                 *)
NoTunnelWithoutCore ==
    \A s \in Services : Settled(s) =>
        /\ iface[s] # NoOne => core[s] \in alive
        /\ s \notin crossed =>
             \A c \in open : service[c] = s => iface[s] = c

(* An open interface whose object has no running core does not stay so,    *)
(* unless its attempt still fetches the config for a core, or threads have *)
(* crossed on the object.  Also after onDestroy.                           *)
DeadTunnelEnds ==
    \A c \in Attempts :
        (c \in open /\ core[service[c]] \notin alive)
            ~> (\/ c \notin open
                \/ core[service[c]] \in alive
                \/ pc[Connecting(c)] = "launch"
                \/ service[c] \in crossed)
=============================================================================
