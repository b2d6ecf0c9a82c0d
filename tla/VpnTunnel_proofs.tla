-------------------------- MODULE VpnTunnel_proofs --------------------------
(***************************************************************************)
(* Proofs about VpnTunnel, for any number of connect intents and service   *)
(* objects: type correctness, and that a service object that has settled   *)
(* has no interface open without a running core, unless threads have       *)
(* crossed on it.                                                          *)
(*                                                                         *)
(* The argument: whatever races, an interface that is held has a helper, a *)
(* thread that is bound to look at it again; and until threads cross, an   *)
(* interface that is open is held, or about to be.                         *)
(***************************************************************************)
EXTENDS VpnTunnel, TLAPS

(* Somebody will close the interface of the service object, or watches its *)
(* core.                                                                   *)
Helped(s) ==
    \/ \E t \in Threads : This(t) = s /\ pc[t] \in Teardown
    \/ \E c \in Attempts :
         /\ service[c] = s
         /\ \/ pc[Connecting(c)] \in {"launch", "register"}
            \/ core[s] = c /\ pc[Watchdog(c)] = "wait"

HelpInv == \A s \in Services : iface[s] # NoOne => Helped(s)

(* The observers of an attempt start after its core.                       *)
OrderInv ==
    \A c \in Attempts :
      /\ pc[Connecting(c)] \in {"off", "check", "establish", "store", "launch", "register"} =>
           pc[Watchdog(c)] = "off"
      /\ pc[Connecting(c)] \in {"off", "check", "establish", "store", "launch", "register", "observe"} =>
           pc[Health(c)] = "off"

BaseInv ==
    /\ TypeOK
    /\ destroying => current < MaxServices
    /\ OrderInv
    /\ HelpInv

(* A field holds an interface that its object's attempt has stored.        *)
FieldInv ==
    \A s \in Services, c \in Attempts : iface[s] = c =>
        service[c] = s /\ pc[Connecting(c)] \notin {"off", "check", "establish", "store"}

(* Until threads cross on an object, what it has open is in its field, or  *)
(* about to be; an attempt that is about to store finds the field empty;   *)
(* and what a teardown drops is closed.                                    *)
OpenInv ==
    /\ \A c \in open :
         /\ pc[Connecting(c)] \notin {"off", "check", "establish"}
         /\ service[c] \notin crossed =>
              iface[service[c]] = c \/ pc[Connecting(c)] = "store"
    /\ \A c \in Attempts :
         service[c] \notin crossed /\ pc[Connecting(c)] \in {"establish", "store"} =>
             iface[service[c]] = NoOne
    /\ \A t \in Threads :
         This(t) \notin crossed /\ pc[t] = "null" => iface[This(t)] \notin open

CrossInv == \A s \in Services : Crossing(s) => s \in crossed

IInv == BaseInv /\ FieldInv /\ OpenInv /\ CrossInv

-----------------------------------------------------------------------------
(* The threads.                                                            *)
LEMMA ThreadFacts ==
    /\ Main \in Threads
    /\ \A c \in Attempts :
         Connecting(c) \in Threads /\ Watchdog(c) \in Threads /\ Health(c) \in Threads
    /\ \A t \in Threads :
         t = Main \/ \E c \in Attempts : t \in {Connecting(c), Watchdog(c), Health(c)}
  BY DEF Threads, Main, Connecting, Watchdog, Health

(* They are all different.                                                 *)
LEMMA ThreadsDiffer ==
    \A c, d \in Attempts :
      /\ Main \notin {Connecting(c), Watchdog(c), Health(c)}
      /\ Connecting(c) # Watchdog(d) /\ Connecting(c) # Health(d) /\ Watchdog(c) # Health(d)
      /\ Connecting(c) = Connecting(d) => c = d
      /\ Watchdog(c) = Watchdog(d) => c = d
      /\ Health(c) = Health(d) => c = d
  BY DEF Main, Connecting, Watchdog, Health

(* The service object of each thread.                                      *)
Owners ==
    /\ This(Main) = current
    /\ \A c \in Attempts :
         This(Connecting(c)) = service[c] /\ This(Watchdog(c)) = service[c]
           /\ This(Health(c)) = service[c]

(* It is the one the attempt was made on.                                  *)
LEMMA OwnersKnown == Owners /\ Owners'
  BY DEF Owners, This, Main, Connecting, Watchdog, Health

(* One thread moves.                                                       *)
Moves(t, to) ==
    /\ pc' \in [Threads -> Control]
    /\ pc'[t] = to
    /\ \A u \in Threads \ {t} : pc'[u] = pc[u]

(* The effect of Goto.                                                     *)
LEMMA GotoMoves ==
    ASSUME TypeOK, NEW t \in Threads, NEW from, NEW to \in Control, Goto(t, from, to)
    PROVE  pc[t] = from /\ Moves(t, to)
  BY DEF TypeOK, Goto, Moves

-----------------------------------------------------------------------------
(* A step of a thread that is neither a handler of intents nor the end of  *)
(* a teardown: what it leaves, another helper takes over, or itself.       *)
Hands(t, from, to) ==
    /\ from \in Teardown => to \in Teardown
    /\ from \in {"launch", "register"} => to \in Teardown \union {"register"}
    /\ \A c \in Attempts :
         t = Watchdog(c) /\ from = "wait" /\ core[service[c]] = c => to \in Teardown

(* An interface stays helped.                                              *)
LEMMA HelpStays ==
    ASSUME BaseInv, NEW t \in Threads, NEW to, Moves(t, to), Hands(t, pc[t], to),
           UNCHANGED <<current, service>>,
           NEW s \in Services, Helped(s), core'[s] # core[s] => This(t) = s /\ to \in Teardown
    PROVE  Helped(s)'
<1>1. \A u \in Threads : This(u)' = This(u)
  BY OwnersKnown, ThreadFacts DEF Owners
<1>2. CASE \E u \in Threads : This(u) = s /\ pc[u] \in Teardown
  BY <1>1, <1>2 DEF Helped, Moves, Hands
<1>3. CASE This(t) = s /\ to \in Teardown
  BY <1>1, <1>3 DEF Helped, Moves
<1>4. ASSUME NEW c \in Attempts, service[c] = s, pc[Connecting(c)] \in {"launch", "register"},
             ~(This(t) = s /\ to \in Teardown)
      PROVE  Helped(s)'
  <2>1. This(Connecting(c)) = s /\ Connecting(c) \in Threads
    BY <1>4, OwnersKnown, ThreadFacts DEF Owners
  <2>2. pc'[Connecting(c)] \in {"launch", "register"}
    BY <1>4, <2>1 DEF Moves, Hands
  <2> QED
    BY <1>4, <2>2 DEF Helped
<1>5. ASSUME NEW c \in Attempts, service[c] = s, core[s] = c, pc[Watchdog(c)] = "wait",
             ~(This(t) = s /\ to \in Teardown)
      PROVE  Helped(s)'
  <2>1. This(Watchdog(c)) = s /\ Watchdog(c) \in Threads
    BY <1>5, OwnersKnown, ThreadFacts DEF Owners
  <2>2. pc'[Watchdog(c)] = "wait" /\ core'[s] = c
    BY <1>5, <2>1 DEF Moves, Hands
  <2> QED
    BY <1>5, <2>2 DEF Helped
<1> QED
  BY <1>2, <1>3, <1>4, <1>5 DEF Helped

(* The conjuncts other than the types, for a step that opens nothing.      *)
LEMMA StepKeeps ==
    ASSUME BaseInv, NEW t \in Threads, NEW to, Moves(t, to), Hands(t, pc[t], to),
           UNCHANGED <<iface, current, service>>, destroying' => current < MaxServices,
           \A s \in Services : core'[s] # core[s] => This(t) = s /\ to \in Teardown,
           to # "off",
           pc[t] # "off",
           to \in {"check", "establish", "store", "launch", "register"} =>
             pc[t] \in {"off", "check", "establish", "store", "launch", "register"},
           to # "observe"
    PROVE  (destroying => current < MaxServices)' /\ OrderInv' /\ HelpInv'
<1>1. OrderInv'
  <2>1. ASSUME NEW c \in Attempts
        PROVE  /\ pc'[Connecting(c)] \in {"off", "check", "establish", "store", "launch", "register"} =>
                    pc'[Watchdog(c)] = "off"
               /\ pc'[Connecting(c)] \in {"off", "check", "establish", "store", "launch", "register", "observe"} =>
                    pc'[Health(c)] = "off"
    BY ThreadFacts, ThreadsDiffer DEF BaseInv, OrderInv, Moves
  <2> QED
    BY <2>1 DEF OrderInv
<1>2. HelpInv'
  BY HelpStays DEF BaseInv, HelpInv
<1> QED
  BY <1>1, <1>2 DEF BaseInv

(* Moves without any other effect on what the invariant is about.          *)
LEMMA PlainSteps ==
    ASSUME BaseInv, Record,
           \/ Disconnect \/ Destroy
           \/ \E c \in Attempts :
                ConnectCheck(c) \/ Establish(c) \/ CoreFails(c) \/ CoreStarts(c)
                \/ WatchdogWakes(c) \/ HealthStep(c)
           \/ \E t \in Threads : Stop(t) \/ Forget(t) \/ Close(t)
    PROVE  BaseInv'
<1>a. /\ TypeOK
      /\ \A t \in Threads : This(t) \in Services
  <2>1. TypeOK
    BY DEF BaseInv
  <2>2. current \in Services /\ \A c \in Attempts : service[c] \in Services
    BY <2>1 DEF TypeOK
  <2> QED
    BY <2>1, <2>2, OwnersKnown, ThreadFacts DEF Owners
<1>c. crossed' \subseteq Services
  BY <1>a DEF Record, TypeOK
<1>b. Teardown \subseteq Control /\ {"off", "check", "end", "launch"} \cap Teardown = {}
  BY DEF Control, Teardown
<1>1. CASE Disconnect \/ Destroy
  <2>1. /\ Goto(Main, "idle", "stop")
        /\ UNCHANGED <<fields, processes, current, service>>
        /\ destroying' \in BOOLEAN /\ (destroying' => current < MaxServices)
    <3>1. Goto(Main, "idle", "stop") /\ UNCHANGED <<fields, processes, current, service>>
      BY <1>1 DEF Disconnect, Destroy, lifecycle
    <3>2. CASE Disconnect
      BY <3>1, <3>2, <1>a DEF Disconnect, lifecycle, BaseInv, TypeOK
    <3>3. CASE Destroy
      BY <3>1, <3>3 DEF Destroy
    <3> QED
      BY <1>1, <3>2, <3>3
  <2>2. pc[Main] = "idle" /\ Moves(Main, "stop")
    BY <1>a, <2>1, GotoMoves, ThreadFacts DEF Control, Teardown
  <2>3. Hands(Main, pc[Main], "stop")
    BY <2>2 DEF Hands, Teardown
  <2>4. /\ (destroying => current < MaxServices)' /\ OrderInv' /\ HelpInv'
    BY <2>1, <2>2, <2>3, StepKeeps, ThreadFacts DEF fields
  <2>5. TypeOK'
    BY <1>a, <1>c, <2>1, <2>2 DEF TypeOK, Moves, fields, processes
  <2> QED
    BY <2>4, <2>5 DEF BaseInv
<1>2. ASSUME NEW c \in Attempts,
             ConnectCheck(c) \/ Establish(c) \/ CoreFails(c) \/ CoreStarts(c)
      PROVE  BaseInv'
  <2>1. PICK from \in {"check", "establish", "launch"},
             to \in {"establish", "store", "register", "stop", "end"} :
          /\ Goto(Connecting(c), from, to)
          /\ from = "launch" => to \in {"stop", "register"}
    BY <1>2 DEF ConnectCheck, Establish, CoreFails, CoreStarts
  <2>2. pc[Connecting(c)] = from /\ Moves(Connecting(c), to)
    BY <1>a, <2>1, GotoMoves, ThreadFacts DEF Control, Teardown
  <2>3. Hands(Connecting(c), pc[Connecting(c)], to)
    BY <2>1, <2>2 DEF Hands, Teardown
  <2>4. UNCHANGED <<fields, lifecycle>> /\ alive' \subseteq Attempts /\ open' \subseteq Attempts
    BY <1>a, <1>2 DEF ConnectCheck, Establish, CoreFails, CoreStarts, TypeOK, processes
  <2>5. /\ (destroying => current < MaxServices)' /\ OrderInv' /\ HelpInv'
    BY <2>1, <2>2, <2>3, <2>4, StepKeeps, ThreadFacts DEF fields, lifecycle, BaseInv
  <2>6. TypeOK'
    BY <1>a, <1>c, <2>2, <2>4 DEF TypeOK, Moves, fields, processes, lifecycle
  <2> QED
    BY <2>5, <2>6 DEF BaseInv
<1>3. ASSUME NEW c \in Attempts, WatchdogWakes(c)
      PROVE  BaseInv'
  <2>1. PICK to \in {"stop", "end"} :
          /\ Goto(Watchdog(c), "wait", to)
          /\ core[service[c]] = c => to = "stop"
    BY <1>3 DEF WatchdogWakes
  <2>2. pc[Watchdog(c)] = "wait" /\ Moves(Watchdog(c), to)
    BY <1>a, <2>1, GotoMoves, ThreadFacts DEF Control, Teardown
  <2>3. Hands(Watchdog(c), pc[Watchdog(c)], to)
    BY <2>1, <2>2, ThreadsDiffer DEF Hands, Teardown
  <2>4. UNCHANGED <<fields, processes, lifecycle>>
    BY <1>3 DEF WatchdogWakes
  <2>5. /\ (destroying => current < MaxServices)' /\ OrderInv' /\ HelpInv'
    BY <2>1, <2>2, <2>3, <2>4, StepKeeps, ThreadFacts DEF fields, lifecycle, BaseInv
  <2>6. TypeOK'
    BY <1>a, <1>c, <2>2, <2>4 DEF TypeOK, Moves, fields, processes, lifecycle
  <2> QED
    BY <2>5, <2>6 DEF BaseInv
<1>4. ASSUME NEW c \in Attempts, HealthStep(c)
      PROVE  BaseInv'
  <2>1. PICK from \in {"loop", "loopCore", "loopIface", "probe"},
             to \in {"loop", "loopCore", "loopIface", "probe", "stop", "end"} :
          Goto(Health(c), from, to)
    BY <1>4 DEF HealthStep, HealthLoop, HealthProbe
  <2>2. pc[Health(c)] = from /\ Moves(Health(c), to)
    BY <1>a, <2>1, GotoMoves, ThreadFacts DEF Control, Teardown
  <2>3. Hands(Health(c), pc[Health(c)], to)
    BY <2>1, <2>2 DEF Hands, Teardown
  <2>4. UNCHANGED <<fields, processes, lifecycle>>
    BY <1>4 DEF HealthStep, HealthLoop, HealthProbe
  <2>5. /\ (destroying => current < MaxServices)' /\ OrderInv' /\ HelpInv'
    BY <2>1, <2>2, <2>3, <2>4, StepKeeps, ThreadFacts DEF fields, lifecycle, BaseInv
  <2>6. TypeOK'
    BY <1>a, <1>c, <2>2, <2>4 DEF TypeOK, Moves, fields, processes, lifecycle
  <2> QED
    BY <2>5, <2>6 DEF BaseInv
<1>5. ASSUME NEW t \in Threads, Stop(t) \/ Forget(t) \/ Close(t)
      PROVE  BaseInv'
  <2>1. PICK from \in {"stop", "forget", "close"}, to \in {"forget", "close", "null"} :
          Goto(t, from, to)
    BY <1>5 DEF Stop, Forget, Close
  <2>2. pc[t] = from /\ Moves(t, to)
    BY <1>a, <2>1, GotoMoves DEF Control, Teardown
  <2>3. Hands(t, pc[t], to)
    BY <2>1, <2>2 DEF Hands, Teardown
  <2>4. /\ UNCHANGED <<iface, lifecycle>>
        /\ core' = core \/ core' = [core EXCEPT ![This(t)] = NoOne]
        /\ monitor' = monitor \/ monitor' = [monitor EXCEPT ![This(t)] = FALSE]
        /\ alive' \subseteq alive /\ open' \subseteq open
    BY <1>5 DEF Stop, Forget, Close, fields, processes
  <2>5. \A s \in Services : core'[s] # core[s] => This(t) = s /\ to \in Teardown
    BY <1>a, <2>1, <2>4 DEF TypeOK, Teardown
  <2>6. /\ (destroying => current < MaxServices)' /\ OrderInv' /\ HelpInv'
    BY <2>1, <2>2, <2>3, <2>4, <2>5, StepKeeps, ThreadFacts DEF lifecycle, BaseInv
  <2>7. TypeOK'
    <3>1. core' \in [Services -> Attempts \union {NoOne}] /\ monitor' \in [Services -> BOOLEAN]
      BY <1>a, <2>4 DEF TypeOK
    <3> QED
      BY <1>a, <1>c, <2>2, <2>4, <3>1 DEF TypeOK, Moves, lifecycle
  <2> QED
    BY <2>6, <2>7 DEF BaseInv
<1> QED
  BY <1>1, <1>2, <1>3, <1>4, <1>5

(* A connect intent reassigns an attempt none of whose threads runs.       *)
LEMMA ConnectKeeps ==
    ASSUME BaseInv, Record, NEW c \in Attempts, Connect(c)
    PROVE  BaseInv'
<1>a. TypeOK /\ current \in Services /\ service \in [Attempts -> Services]
  BY DEF BaseInv, TypeOK
<1>1. /\ pc[Connecting(c)] = "off" /\ Moves(Connecting(c), "check")
      /\ service' = [service EXCEPT ![c] = current]
      /\ UNCHANGED <<iface, core, monitor, open, alive, current, destroying>>
      /\ crossed' \subseteq Services
  BY <1>a, GotoMoves, ThreadFacts DEF Connect, Record, TypeOK, fields, processes, Control
<1>2. pc[Watchdog(c)] = "off" /\ pc[Health(c)] = "off"
  BY <1>1 DEF BaseInv, OrderInv
<1>3. TypeOK'
  BY <1>a, <1>1 DEF TypeOK, Moves
<1>4. OrderInv'
  <2>1. ASSUME NEW d \in Attempts
        PROVE  /\ pc'[Watchdog(d)] = pc[Watchdog(d)] /\ pc'[Health(d)] = pc[Health(d)]
               /\ d # c => pc'[Connecting(d)] = pc[Connecting(d)]
    BY <1>1, ThreadFacts, ThreadsDiffer DEF Moves
  <2> QED
    BY <1>2, <2>1 DEF BaseInv, OrderInv
<1>5. ASSUME NEW s \in Services, Helped(s) PROVE Helped(s)'
  <2>1. ASSUME NEW u \in Threads, This(u) = s, pc[u] \in Teardown PROVE Helped(s)'
    <3>1. u \notin {Connecting(c), Watchdog(c), Health(c)}
      BY <1>1, <1>2, <2>1 DEF Teardown
    <3>2. This(u)' = This(u)
      BY <1>a, <1>1, <3>1, OwnersKnown, ThreadFacts DEF Owners
    <3> QED
      BY <1>1, <2>1, <3>1, <3>2 DEF Helped, Moves
  <2>2. ASSUME NEW d \in Attempts, service[d] = s,
               \/ pc[Connecting(d)] \in {"launch", "register"}
               \/ core[s] = d /\ pc[Watchdog(d)] = "wait"
        PROVE  Helped(s)'
    <3>1. d # c
      BY <1>1, <1>2, <2>2
    <3>2. service'[d] = s
      BY <1>a, <1>1, <2>2, <3>1
    <3>3. pc'[Connecting(d)] = pc[Connecting(d)] /\ pc'[Watchdog(d)] = pc[Watchdog(d)]
      BY <1>1, <3>1, ThreadFacts, ThreadsDiffer DEF Moves
    <3> QED
      BY <1>1, <2>2, <3>2, <3>3 DEF Helped
  <2> QED
    BY <1>5, <2>1, <2>2 DEF Helped
<1>6. HelpInv'
  BY <1>1, <1>5 DEF BaseInv, HelpInv
<1> QED
  BY <1>1, <1>3, <1>4, <1>6 DEF BaseInv

(* The interface is published: the attempt itself will look at it.         *)
LEMMA StoreKeeps ==
    ASSUME BaseInv, Record, NEW c \in Attempts, Store(c)
    PROVE  BaseInv'
<1> DEFINE t == Connecting(c)
<1>a. TypeOK /\ service[c] \in Services /\ t \in Threads
  BY ThreadFacts DEF BaseInv, TypeOK
<1>1. /\ pc[t] = "store" /\ Moves(t, "launch")
      /\ iface' = [iface EXCEPT ![service[c]] = c]
      /\ UNCHANGED <<core, monitor, open, alive, current, destroying, service>>
      /\ crossed' \subseteq Services
  BY <1>a, GotoMoves DEF Store, Record, TypeOK, processes, lifecycle, Control
<1>2. TypeOK'
  BY <1>a, <1>1 DEF TypeOK, Moves
<1>3. OrderInv'
  <2>1. ASSUME NEW d \in Attempts
        PROVE  /\ pc'[Watchdog(d)] = pc[Watchdog(d)] /\ pc'[Health(d)] = pc[Health(d)]
               /\ d # c => pc'[Connecting(d)] = pc[Connecting(d)]
    BY <1>1, ThreadFacts, ThreadsDiffer DEF Moves
  <2> QED
    BY <1>1, <2>1 DEF BaseInv, OrderInv
<1>4. ASSUME NEW s \in Services, iface'[s] # NoOne PROVE Helped(s)'
  <2>1. CASE s = service[c]
    BY <1>1, <2>1 DEF Helped, Moves
  <2>2. CASE s # service[c]
    <3>1. Helped(s)
      BY <1>a, <1>1, <1>4, <2>2 DEF BaseInv, HelpInv, TypeOK
    <3>2. Hands(t, pc[t], "launch")
      BY <1>1 DEF Hands, Teardown
    <3> QED
      BY <1>a, <1>1, <3>1, <3>2, HelpStays
  <2> QED
    BY <2>1, <2>2
<1> QED
  BY <1>1, <1>2, <1>3, <1>4 DEF BaseInv, HelpInv

(* The core is published, and its watchdog takes over; or the health       *)
(* monitor starts, which nobody relies on.                                 *)
LEMMA ObserversKeep ==
    ASSUME BaseInv, Record, NEW c \in Attempts, Register(c) \/ StartHealthMonitor(c)
    PROVE  BaseInv'
<1>a. /\ TypeOK /\ service[c] \in Services /\ Connecting(c) \in Threads
      /\ Watchdog(c) \in Threads /\ Health(c) \in Threads
  BY ThreadFacts DEF BaseInv, TypeOK
<1>b. \A u \in Threads : UNCHANGED <<current, service>> => This(u)' = This(u)
  BY OwnersKnown, ThreadFacts DEF Owners
<1>1. CASE Register(c)
  <2>1. /\ pc[Connecting(c)] = "register"
        /\ pc' = [pc EXCEPT ![Connecting(c)] = "observe", ![Watchdog(c)] = "wait"]
        /\ core' = [core EXCEPT ![service[c]] = c]
        /\ UNCHANGED <<iface, monitor, open, alive, current, destroying, service>>
        /\ crossed' \subseteq Services
    BY <1>a, <1>1 DEF Register, Record, TypeOK, processes, lifecycle
  <2>2. pc[Watchdog(c)] = "off" /\ pc[Health(c)] = "off"
    BY <2>1 DEF BaseInv, OrderInv
  <2>3. /\ pc' \in [Threads -> Control]
        /\ pc'[Connecting(c)] = "observe" /\ pc'[Watchdog(c)] = "wait"
        /\ \A u \in Threads \ {Connecting(c), Watchdog(c)} : pc'[u] = pc[u]
    BY <1>a, <2>1, ThreadsDiffer DEF TypeOK, Control
  <2>4. TypeOK'
    BY <1>a, <2>1, <2>3 DEF TypeOK
  <2>5. OrderInv'
    <3>1. ASSUME NEW d \in Attempts
          PROVE  /\ d # c => pc'[Watchdog(d)] = pc[Watchdog(d)]
                 /\ pc'[Health(d)] = pc[Health(d)]
                 /\ d # c => pc'[Connecting(d)] = pc[Connecting(d)]
      BY <2>3, ThreadFacts, ThreadsDiffer
    <3> QED
      BY <2>2, <2>3, <3>1 DEF BaseInv, OrderInv
  <2>6. ASSUME NEW s \in Services, Helped(s) PROVE Helped(s)'
    <3>1. CASE s = service[c]
      <4>1. core'[s] = c
        BY <1>a, <2>1, <3>1 DEF TypeOK
      <4> QED
        BY <2>1, <2>3, <3>1, <4>1 DEF Helped
    <3>2. CASE s # service[c]
      <4>1. ASSUME NEW u \in Threads, This(u) = s, pc[u] \in Teardown PROVE Helped(s)'
        <5>1. u \notin {Connecting(c), Watchdog(c)}
          BY <2>1, <2>2, <4>1 DEF Teardown
        <5> QED
          BY <1>b, <2>1, <2>3, <4>1, <5>1 DEF Helped
      <4>2. ASSUME NEW d \in Attempts, service[d] = s,
                   \/ pc[Connecting(d)] \in {"launch", "register"}
                   \/ core[s] = d /\ pc[Watchdog(d)] = "wait"
            PROVE  Helped(s)'
        <5>1. d # c /\ core'[s] = core[s]
          BY <1>a, <2>1, <3>2, <4>2 DEF TypeOK
        <5>2. pc'[Connecting(d)] = pc[Connecting(d)] /\ pc'[Watchdog(d)] = pc[Watchdog(d)]
          BY <2>3, <5>1, ThreadFacts, ThreadsDiffer
        <5> QED
          BY <2>1, <4>2, <5>1, <5>2 DEF Helped
      <4> QED
        BY <2>6, <4>1, <4>2 DEF Helped
    <3> QED
      BY <3>1, <3>2
  <2> QED
    BY <2>1, <2>4, <2>5, <2>6 DEF BaseInv, HelpInv
<1>2. CASE StartHealthMonitor(c)
  <2>1. /\ pc[Connecting(c)] = "observe"
        /\ pc' = [pc EXCEPT ![Connecting(c)] = "end", ![Health(c)] = "loop"]
        /\ monitor' = [monitor EXCEPT ![service[c]] = TRUE]
        /\ UNCHANGED <<iface, core, open, alive, current, destroying, service>>
        /\ crossed' \subseteq Services
    BY <1>a, <1>2 DEF StartHealthMonitor, Record, TypeOK, processes, lifecycle
  <2>2. pc[Health(c)] = "off"
    BY <2>1 DEF BaseInv, OrderInv
  <2>3. /\ pc' \in [Threads -> Control]
        /\ pc'[Connecting(c)] = "end" /\ pc'[Health(c)] = "loop"
        /\ \A u \in Threads \ {Connecting(c), Health(c)} : pc'[u] = pc[u]
    BY <1>a, <2>1, ThreadsDiffer DEF TypeOK, Control
  <2>4. TypeOK'
    BY <1>a, <2>1, <2>3 DEF TypeOK
  <2>5. \A d \in Attempts :
          /\ pc'[Watchdog(d)] = pc[Watchdog(d)]
          /\ d # c => pc'[Health(d)] = pc[Health(d)]
          /\ d # c => pc'[Connecting(d)] = pc[Connecting(d)]
    BY <2>3, ThreadFacts, ThreadsDiffer
  <2>6. OrderInv'
    BY <2>3, <2>5 DEF BaseInv, OrderInv
  <2>7. ASSUME NEW s \in Services, Helped(s) PROVE Helped(s)'
    <3>1. ASSUME NEW u \in Threads, This(u) = s, pc[u] \in Teardown PROVE Helped(s)'
      <4>1. u \notin {Connecting(c), Health(c)}
        BY <2>1, <2>2, <3>1 DEF Teardown
      <4> QED
        BY <1>b, <2>1, <2>3, <3>1, <4>1 DEF Helped
    <3>2. ASSUME NEW d \in Attempts, service[d] = s,
                 \/ pc[Connecting(d)] \in {"launch", "register"}
                 \/ core[s] = d /\ pc[Watchdog(d)] = "wait"
          PROVE  Helped(s)'
      BY <2>1, <2>5, <3>2 DEF Helped
    <3> QED
      BY <2>7, <3>1, <3>2 DEF Helped
  <2> QED
    BY <2>1, <2>4, <2>6, <2>7 DEF BaseInv, HelpInv
<1> QED
  BY <1>1, <1>2

(* The end of a teardown drops the interface of its object; other objects  *)
(* keep their helpers, also when the main thread leaves its object.        *)
LEMMA DropKeeps ==
    ASSUME BaseInv, Record, NEW t \in Threads, Drop(t)
    PROVE  BaseInv'
<1> DEFINE to == IF t = Main THEN "idle" ELSE "end"
           s0 == This(t)
<1>a. TypeOK /\ s0 \in Services /\ current \in Services /\ MaxServices \in Nat
  <2>1. TypeOK
    BY DEF BaseInv
  <2>2. current \in Services /\ \A c \in Attempts : service[c] \in Services
    BY <2>1 DEF TypeOK
  <2> QED
    BY <2>1, <2>2, OwnersKnown, ThreadFacts, VpnAssumption DEF Owners
<1>1. /\ pc[t] = "null" /\ Moves(t, to)
      /\ iface' = [iface EXCEPT ![s0] = NoOne]
      /\ destroying' = (destroying /\ t # Main)
      /\ current' = IF destroying /\ t = Main THEN current + 1 ELSE current
      /\ UNCHANGED <<core, monitor, open, alive, service>>
      /\ crossed' \subseteq Services
  BY <1>a, GotoMoves DEF Drop, Record, TypeOK, processes, Control
<1>2. to \notin {"off", "check", "establish", "store", "launch", "register", "observe", "wait"}
  OBVIOUS
<1> HIDE DEF to
<1>3. current' \in Services
  BY <1>a, <1>1 DEF BaseInv, Services
<1>4. destroying' \in BOOLEAN /\ (destroying' => current' < MaxServices)
  BY <1>1 DEF BaseInv
<1>5. TypeOK'
  BY <1>a, <1>1, <1>3, <1>4 DEF TypeOK, Moves
<1>6. OrderInv'
  BY <1>1, <1>2, ThreadFacts, ThreadsDiffer DEF BaseInv, OrderInv, Moves
<1>7. ASSUME NEW s \in Services, iface'[s] # NoOne PROVE Helped(s)'
  <2>1. s # s0 /\ iface[s] # NoOne
    BY <1>a, <1>1, <1>7 DEF TypeOK
  <2>2. Helped(s)
    BY <2>1 DEF BaseInv, HelpInv
  <2>3. ASSUME NEW u \in Threads, This(u) = s, pc[u] \in Teardown PROVE Helped(s)'
    <3>1. u # t
      BY <2>1, <2>3
    <3>2. This(u)' = This(u)
      BY <1>1, <3>1, OwnersKnown, ThreadFacts DEF Owners
    <3> QED
      BY <1>1, <2>3, <3>1, <3>2 DEF Helped, Moves
  <2>4. ASSUME NEW d \in Attempts, service[d] = s,
               \/ pc[Connecting(d)] \in {"launch", "register"}
               \/ core[s] = d /\ pc[Watchdog(d)] = "wait"
        PROVE  Helped(s)'
    <3>1. /\ pc[Connecting(d)] \in {"launch", "register"} => pc'[Connecting(d)] = pc[Connecting(d)]
          /\ pc[Watchdog(d)] = "wait" => pc'[Watchdog(d)] = "wait"
      BY <1>1, ThreadFacts DEF Moves
    <3> QED
      BY <1>1, <2>4, <3>1 DEF Helped
  <2> QED
    BY <2>2, <2>3, <2>4 DEF Helped
<1> QED
  BY <1>4, <1>5, <1>6, <1>7 DEF BaseInv, HelpInv

(* Every step keeps the helpers.                                           *)
LEMMA BaseKeeps ==
    ASSUME BaseInv, Step, Record
    PROVE  BaseInv'
<1>1. ASSUME NEW c \in Attempts,
             Connect(c) \/ ConnectStep(c) \/ WatchdogWakes(c) \/ HealthStep(c)
      PROVE  BaseInv'
  BY <1>1, ConnectKeeps, StoreKeeps, ObserversKeep, PlainSteps DEF ConnectStep
<1>2. ASSUME NEW t \in Threads, TeardownStep(t) PROVE BaseInv'
  BY <1>2, PlainSteps, DropKeeps DEF TeardownStep
<1>3. CASE Disconnect \/ Destroy
  BY <1>3, PlainSteps
<1>4. CASE \E c \in Attempts : CoreExits(c)
  <2>1. /\ UNCHANGED <<iface, core, monitor, open, current, destroying, service, pc>>
        /\ alive' \subseteq alive /\ crossed' \subseteq Services
    BY <1>4 DEF CoreExits, Record, BaseInv, TypeOK, fields, lifecycle
  <2>2. TypeOK'
    BY <2>1 DEF BaseInv, TypeOK
  <2>3. OrderInv' /\ (destroying => current < MaxServices)'
    BY <2>1 DEF BaseInv, OrderInv
  <2>4. \A t \in Threads : This(t)' = This(t)
    BY <2>1, OwnersKnown, ThreadFacts DEF Owners
  <2>5. \A s \in Services : Helped(s) => Helped(s)'
    BY <2>1, <2>4 DEF Helped
  <2> QED
    BY <2>1, <2>2, <2>3, <2>5 DEF BaseInv, HelpInv
<1> QED
  BY <1>1, <1>2, <1>3, <1>4 DEF Step

-----------------------------------------------------------------------------
(* What crosses is recorded, for good.                                     *)
LEMMA CrossKeeps ==
    ASSUME Record
    PROVE  CrossInv' /\ crossed \subseteq crossed'
  BY DEF Record, CrossInv

(* On an object on which no threads have crossed, an attempt between its   *)
(* check and its store is alone.                                           *)
LEMMA Alone ==
    ASSUME IInv, NEW c \in Attempts, service[c] \notin crossed,
           pc[Connecting(c)] \in {"establish", "store"}
    PROVE  /\ \A d \in Attempts \ {c} : service[d] = service[c] =>
                pc[Connecting(d)] \notin {"establish", "store"}
           /\ \A t \in Threads : This(t) = service[c] => pc[t] \notin Teardown
<1>1. service[c] \in Services
  BY DEF IInv, BaseInv, TypeOK
<1>2. ~Crossing(service[c])
  BY <1>1 DEF IInv, CrossInv
<1>3. ASSUME NEW t \in Threads, This(t) = service[c], t # Connecting(c)
      PROVE  pc[t] \notin {"establish", "store"} \union Teardown
  BY <1>2, <1>3 DEF Crossing
<1>4. \A d \in Attempts \ {c} :
        Connecting(d) \in Threads /\ Connecting(d) # Connecting(c)
        /\ This(Connecting(d)) = service[d]
  BY ThreadFacts, ThreadsDiffer, OwnersKnown DEF Owners
<1> QED
  BY <1>3, <1>4 DEF Teardown

(* A thread goes on without entering or leaving what the invariant is      *)
(* about; or it has just found the field empty.                            *)
Quiet(t) ==
    \/ pc'[t] = pc[t]
    \/ /\ pc[t] # "store"
       /\ pc'[t] \notin {"off", "check", "establish", "store", "null"}
    \/ \E c \in Attempts :
         /\ t = Connecting(c) /\ pc[t] = "check" /\ pc'[t] = "establish"
         /\ iface[service[c]] = NoOne

(* Nothing but control points change.                                      *)
LEMMA QuietKeeps ==
    ASSUME IInv, Record, UNCHANGED <<iface, open, current, service>>,
           \A t \in Threads : Quiet(t)
    PROVE  FieldInv' /\ OpenInv'
<1>1. crossed \subseteq crossed'
  BY CrossKeeps
<1>2. \A t \in Threads : This(t)' = This(t)
  BY OwnersKnown, ThreadFacts DEF Owners
<1>3. ASSUME NEW c \in Attempts
      PROVE  \/ pc'[Connecting(c)] = pc[Connecting(c)]
             \/ /\ pc[Connecting(c)] # "store"
                /\ pc'[Connecting(c)] \notin {"off", "check", "establish", "store", "null"}
             \/ /\ pc[Connecting(c)] = "check" /\ pc'[Connecting(c)] = "establish"
                /\ iface[service[c]] = NoOne
  BY ThreadFacts, ThreadsDiffer DEF Quiet
<1>4. \A t \in Threads : pc'[t] = "null" => pc[t] = "null"
  BY DEF Quiet
<1>5. FieldInv'
  BY <1>3 DEF IInv, FieldInv
<1>6. ASSUME NEW c \in open
      PROVE  /\ pc'[Connecting(c)] \notin {"off", "check", "establish"}
             /\ service[c] \notin crossed' =>
                  iface[service[c]] = c \/ pc'[Connecting(c)] = "store"
  <2>1. c \in Attempts
    BY DEF IInv, BaseInv, TypeOK
  <2> QED
    BY <1>1, <1>3, <2>1 DEF IInv, OpenInv
<1>7. ASSUME NEW c \in Attempts, service[c] \notin crossed',
             pc'[Connecting(c)] \in {"establish", "store"}
      PROVE  iface[service[c]] = NoOne
  BY <1>1, <1>3, <1>7 DEF IInv, OpenInv
<1>8. ASSUME NEW t \in Threads, This(t) \notin crossed', pc'[t] = "null"
      PROVE  iface[This(t)] \notin open
  BY <1>1, <1>4, <1>8 DEF IInv, OpenInv
<1> QED
  BY <1>2, <1>5, <1>6, <1>7, <1>8 DEF OpenInv

(* The steps that open, publish, close and drop nothing.                   *)
LEMMA QuietSteps ==
    ASSUME IInv, Record,
           \/ Disconnect \/ Destroy
           \/ \E c \in Attempts :
                ConnectCheck(c) \/ CoreFails(c) \/ CoreStarts(c) \/ Register(c)
                \/ StartHealthMonitor(c) \/ CoreExits(c)
                \/ WatchdogWakes(c) \/ HealthStep(c)
           \/ \E t \in Threads : Stop(t) \/ Forget(t)
    PROVE  FieldInv' /\ OpenInv'
<1>a. pc \in [Threads -> Control]
  BY DEF IInv, BaseInv, TypeOK
<1>1. UNCHANGED <<iface, open, current, service>>
  BY DEF Disconnect, Destroy, ConnectCheck, CoreFails, CoreStarts, Register, StartHealthMonitor,
         CoreExits, WatchdogWakes, HealthStep, HealthLoop, HealthProbe, Stop, Forget,
         fields, processes, lifecycle
<1>2. CASE Disconnect \/ Destroy
  BY <1>a, <1>1, <1>2, QuietKeeps DEF Disconnect, Destroy, Goto, Quiet
<1>3. ASSUME NEW c \in Attempts, ConnectCheck(c) PROVE FieldInv' /\ OpenInv'
  BY <1>a, <1>1, <1>3, QuietKeeps DEF ConnectCheck, Goto, Quiet
<1>4. ASSUME NEW c \in Attempts, CoreFails(c) \/ CoreStarts(c) PROVE FieldInv' /\ OpenInv'
  BY <1>a, <1>1, <1>4, QuietKeeps DEF CoreFails, CoreStarts, Goto, Quiet
<1>5. ASSUME NEW c \in Attempts, Register(c) PROVE FieldInv' /\ OpenInv'
  <2>1. pc[Watchdog(c)] = "off"
    BY <1>5 DEF Register, IInv, BaseInv, OrderInv
  <2>2. \A t \in Threads : Quiet(t)
    BY <1>a, <1>5, <2>1 DEF Register, Quiet
  <2> QED
    BY <1>1, <2>2, QuietKeeps
<1>6. ASSUME NEW c \in Attempts, StartHealthMonitor(c) PROVE FieldInv' /\ OpenInv'
  <2>1. pc[Health(c)] = "off"
    BY <1>6 DEF StartHealthMonitor, IInv, BaseInv, OrderInv
  <2>2. \A t \in Threads : Quiet(t)
    BY <1>a, <1>6, <2>1 DEF StartHealthMonitor, Quiet
  <2> QED
    BY <1>1, <2>2, QuietKeeps
<1>7. ASSUME NEW c \in Attempts, CoreExits(c) PROVE FieldInv' /\ OpenInv'
  BY <1>1, <1>7, QuietKeeps DEF CoreExits, Quiet
<1>8. ASSUME NEW c \in Attempts, WatchdogWakes(c) PROVE FieldInv' /\ OpenInv'
  BY <1>a, <1>1, <1>8, QuietKeeps DEF WatchdogWakes, Goto, Quiet
<1>9. ASSUME NEW c \in Attempts, HealthStep(c) PROVE FieldInv' /\ OpenInv'
  BY <1>a, <1>1, <1>9, QuietKeeps DEF HealthStep, HealthLoop, HealthProbe, Goto, Quiet
<1>10. ASSUME NEW t \in Threads, Stop(t) \/ Forget(t) PROVE FieldInv' /\ OpenInv'
  BY <1>a, <1>1, <1>10, QuietKeeps DEF Stop, Forget, Goto, Quiet
<1> QED
  BY <1>2, <1>3, <1>4, <1>5, <1>6, <1>7, <1>8, <1>9, <1>10

(* A connect intent names an attempt with nothing open and nothing stored. *)
LEMMA ConnectOpens ==
    ASSUME IInv, Record, NEW c \in Attempts, Connect(c)
    PROVE  FieldInv' /\ OpenInv'
<1>a. TypeOK /\ current \in Services /\ service \in [Attempts -> Services] /\ open \subseteq Attempts
  BY DEF IInv, BaseInv, TypeOK
<1>b. crossed \subseteq crossed'
  BY CrossKeeps
<1>1. /\ pc[Connecting(c)] = "off" /\ Moves(Connecting(c), "check")
      /\ service' = [service EXCEPT ![c] = current]
      /\ UNCHANGED <<iface, open, current>>
  BY <1>a, GotoMoves, ThreadFacts DEF Connect, fields, processes, Control
<1>2. /\ pc[Watchdog(c)] = "off" /\ pc[Health(c)] = "off"
      /\ c \notin open /\ \A s \in Services : iface[s] # c
  BY <1>1 DEF IInv, BaseInv, OrderInv, FieldInv, OpenInv
<1>3. \A d \in Attempts \ {c} :
        service'[d] = service[d] /\ pc'[Connecting(d)] = pc[Connecting(d)]
  BY <1>a, <1>1, ThreadFacts, ThreadsDiffer DEF Moves
<1>4. FieldInv'
  BY <1>1, <1>2, <1>3 DEF IInv, FieldInv
<1>5. ASSUME NEW t \in Threads, pc'[t] = "null"
      PROVE  pc[t] = "null" /\ This(t)' = This(t)
  <2>1. pc[t] = "null" /\ t \notin {Connecting(c), Watchdog(c), Health(c)}
    BY <1>1, <1>2, <1>5 DEF Moves
  <2> QED
    BY <1>1, <1>3, <2>1, OwnersKnown, ThreadFacts DEF Owners
<1>6. \A d \in open :
        /\ pc'[Connecting(d)] \notin {"off", "check", "establish"}
        /\ service'[d] \notin crossed' =>
             iface[service'[d]] = d \/ pc'[Connecting(d)] = "store"
  BY <1>a, <1>b, <1>2, <1>3 DEF IInv, OpenInv
<1>7. ASSUME NEW d \in Attempts, service'[d] \notin crossed',
             pc'[Connecting(d)] \in {"establish", "store"}
      PROVE  iface[service'[d]] = NoOne
  <2>1. d # c
    BY <1>1, <1>7 DEF Moves
  <2> QED
    BY <1>b, <1>3, <1>7, <2>1 DEF IInv, OpenInv
<1>8. ASSUME NEW t \in Threads, This(t)' \notin crossed', pc'[t] = "null"
      PROVE  iface[This(t)'] \notin open
  BY <1>b, <1>5, <1>8 DEF IInv, OpenInv
<1> QED
  BY <1>1, <1>4, <1>6, <1>7, <1>8 DEF OpenInv

(* What establish() opens is about to be stored, or there is nothing.      *)
LEMMA EstablishOpens ==
    ASSUME IInv, Record, NEW c \in Attempts, Establish(c)
    PROVE  FieldInv' /\ OpenInv'
<1> DEFINE t == Connecting(c)
<1>a. TypeOK /\ service[c] \in Services /\ t \in Threads
  BY ThreadFacts DEF IInv, BaseInv, TypeOK
<1>b. crossed \subseteq crossed' /\ \A u \in Threads : UNCHANGED <<current, service>> => This(u)' = This(u)
  BY CrossKeeps, OwnersKnown, ThreadFacts DEF Owners
<1>1. pc[t] = "establish" /\ UNCHANGED <<iface, current, service>>
  BY DEF Establish, Goto, fields, lifecycle
<1>2. CASE Goto(t, "establish", "end") /\ open' = open
  <2>1. Moves(t, "end")
    BY <1>a, <1>2, GotoMoves DEF Control
  <2>2. \A u \in Threads : Quiet(u)
    BY <1>1, <2>1 DEF Moves, Quiet
  <2> QED
    BY <1>1, <1>2, <2>2, QuietKeeps
<1>3. CASE Goto(t, "establish", "store") /\ open' = open \union {c}
  <2>1. Moves(t, "store")
    BY <1>a, <1>3, GotoMoves DEF Control
  <2>2. \A s \in Services : iface[s] # c
    BY <1>1 DEF IInv, FieldInv
  <2>3. \A d \in Attempts \ {c} : pc'[Connecting(d)] = pc[Connecting(d)]
    BY <2>1, ThreadFacts, ThreadsDiffer DEF Moves
  <2>4. pc'[t] = "store"
    BY <2>1 DEF Moves
  <2>5. FieldInv'
    BY <1>1, <2>2, <2>3 DEF IInv, FieldInv
  <2>6. \A d \in open' :
          /\ pc'[Connecting(d)] \notin {"off", "check", "establish"}
          /\ service[d] \notin crossed' =>
               iface[service[d]] = d \/ pc'[Connecting(d)] = "store"
    BY <1>a, <1>b, <1>3, <2>3, <2>4 DEF IInv, OpenInv, TypeOK
  <2>7. \A d \in Attempts :
          service[d] \notin crossed' /\ pc'[Connecting(d)] \in {"establish", "store"} =>
              iface[service[d]] = NoOne
    BY <1>b, <1>1, <2>3 DEF IInv, OpenInv
  <2>8. ASSUME NEW u \in Threads, This(u) \notin crossed', pc'[u] = "null"
        PROVE  iface[This(u)] \notin open'
    <3>1. pc[u] = "null"
      BY <2>1, <2>8 DEF Moves
    <3>2. This(u) \in Services
      BY <1>a, OwnersKnown, ThreadFacts DEF Owners, TypeOK
    <3> QED
      BY <1>b, <1>3, <2>2, <2>8, <3>1, <3>2 DEF IInv, OpenInv
  <2> QED
    BY <1>b, <1>1, <2>5, <2>6, <2>7, <2>8 DEF OpenInv
<1> QED
  BY <1>2, <1>3 DEF Establish

(* Until threads cross, a store overwrites nothing.                        *)
LEMMA StoreOpens ==
    ASSUME IInv, Record, NEW c \in Attempts, Store(c)
    PROVE  FieldInv' /\ OpenInv'
<1> DEFINE t == Connecting(c)
<1>a. TypeOK /\ service[c] \in Services /\ t \in Threads /\ iface \in [Services -> Attempts \union {NoOne}]
  BY ThreadFacts DEF IInv, BaseInv, TypeOK
<1>b. crossed \subseteq crossed'
  BY CrossKeeps
<1>1. /\ pc[t] = "store" /\ Moves(t, "launch")
      /\ iface' = [iface EXCEPT ![service[c]] = c]
      /\ UNCHANGED <<open, current, service>>
  BY <1>a, GotoMoves DEF Store, processes, lifecycle, Control
<1>2. /\ \A d \in Attempts \ {c} : pc'[Connecting(d)] = pc[Connecting(d)]
      /\ pc'[t] = "launch"
      /\ \A u \in Threads : pc'[u] = "null" => pc[u] = "null"
  BY <1>1, ThreadFacts, ThreadsDiffer DEF Moves
<1>3. \A u \in Threads : This(u)' = This(u)
  BY <1>1, OwnersKnown, ThreadFacts DEF Owners
<1>4. \A s \in Services \ {service[c]} : iface'[s] = iface[s]
  BY <1>a, <1>1
<1>5. iface'[service[c]] = c
  BY <1>a, <1>1
<1>6. FieldInv'
  <2>1. ASSUME NEW s \in Services, NEW d \in Attempts, iface'[s] = d
        PROVE  service[d] = s /\ pc'[Connecting(d)] \notin {"off", "check", "establish", "store"}
    <3>1. CASE s = service[c]
      BY <1>2, <1>5, <2>1, <3>1
    <3>2. CASE s # service[c]
      BY <1>2, <1>4, <2>1, <3>2 DEF IInv, FieldInv
    <3> QED
      BY <3>1, <3>2
  <2> QED
    BY <1>1, <2>1 DEF FieldInv
<1>7. ASSUME NEW d \in open
      PROVE  /\ pc'[Connecting(d)] \notin {"off", "check", "establish"}
             /\ service[d] \notin crossed' =>
                  iface'[service[d]] = d \/ pc'[Connecting(d)] = "store"
  <2>1. d \in Attempts /\ service[d] \in Services
    BY <1>a DEF TypeOK
  <2>2. pc'[Connecting(d)] \notin {"off", "check", "establish"}
    BY <1>2, <2>1 DEF IInv, OpenInv
  <2>3. ASSUME service[d] \notin crossed', d # c, pc[Connecting(d)] # "store"
        PROVE  iface'[service[d]] = d
    <3>1. iface[service[d]] = d
      BY <1>b, <2>1, <2>3 DEF IInv, OpenInv
    <3>2. service[d] # service[c]
      <4>1. SUFFICES ASSUME service[d] = service[c] PROVE FALSE
        OBVIOUS
      <4>2. iface[service[c]] = NoOne
        BY <1>b, <1>1, <2>3, <4>1 DEF IInv, OpenInv
      <4> QED
        BY <2>1, <3>1, <4>1, <4>2, VpnAssumption
    <3> QED
      BY <1>4, <2>1, <3>1, <3>2
  <2> QED
    BY <1>2, <1>5, <2>1, <2>2, <2>3
<1>8. ASSUME NEW d \in Attempts, service[d] \notin crossed',
             pc'[Connecting(d)] \in {"establish", "store"}
      PROVE  iface'[service[d]] = NoOne
  <2>1. d # c /\ pc[Connecting(d)] \in {"establish", "store"} /\ service[d] \in Services
    BY <1>a, <1>2, <1>8 DEF TypeOK
  <2>2. iface[service[d]] = NoOne
    BY <1>b, <1>8, <2>1 DEF IInv, OpenInv
  <2>3. service[d] # service[c]
    BY <1>b, <1>1, <1>8, <2>1, Alone
  <2> QED
    BY <1>4, <2>1, <2>2, <2>3
<1>9. ASSUME NEW u \in Threads, This(u) \notin crossed', pc'[u] = "null"
      PROVE  iface'[This(u)] \notin open
  <2>1. pc[u] = "null" /\ This(u) \in Services
    BY <1>a, <1>2, <1>9, OwnersKnown, ThreadFacts DEF Owners, TypeOK
  <2>2. This(u) # service[c]
    BY <1>b, <1>1, <1>9, <2>1, Alone DEF Teardown
  <2> QED
    BY <1>b, <1>4, <1>9, <2>1, <2>2 DEF IInv, OpenInv
<1> QED
  BY <1>1, <1>3, <1>6, <1>7, <1>8, <1>9 DEF OpenInv

(* What is closed is no longer open, wherever it is held.                  *)
LEMMA CloseOpens ==
    ASSUME IInv, Record, NEW t \in Threads, Close(t)
    PROVE  FieldInv' /\ OpenInv'
<1>a. TypeOK /\ open \subseteq Attempts /\ crossed \subseteq crossed'
  BY CrossKeeps DEF IInv, BaseInv, TypeOK
<1>1. /\ pc[t] = "close" /\ Moves(t, "null")
      /\ open' = open \ {iface[This(t)]}
      /\ UNCHANGED <<iface, current, service>>
  BY <1>a, GotoMoves DEF Close, fields, lifecycle, Control, Teardown
<1>2. \A u \in Threads : This(u)' = This(u)
  BY <1>1, OwnersKnown, ThreadFacts DEF Owners
<1>3. ASSUME NEW d \in Attempts
      PROVE  \/ pc'[Connecting(d)] = pc[Connecting(d)]
             \/ pc[Connecting(d)] = "close" /\ pc'[Connecting(d)] = "null"
  BY <1>1, ThreadFacts DEF Moves
<1>4. FieldInv'
  BY <1>1, <1>3 DEF IInv, FieldInv
<1>5. \A d \in open' :
        /\ pc'[Connecting(d)] \notin {"off", "check", "establish"}
        /\ service[d] \notin crossed' =>
             iface[service[d]] = d \/ pc'[Connecting(d)] = "store"
  BY <1>a, <1>1, <1>3 DEF IInv, OpenInv
<1>6. \A d \in Attempts :
        service[d] \notin crossed' /\ pc'[Connecting(d)] \in {"establish", "store"} =>
            iface[service[d]] = NoOne
  BY <1>a, <1>3 DEF IInv, OpenInv
<1>7. ASSUME NEW u \in Threads, This(u) \notin crossed', pc'[u] = "null"
      PROVE  iface[This(u)] \notin open'
  BY <1>a, <1>1, <1>7 DEF IInv, OpenInv, Moves
<1> QED
  BY <1>1, <1>2, <1>4, <1>5, <1>6, <1>7 DEF OpenInv

(* Until threads cross, what is dropped has been closed.                   *)
LEMMA DropOpens ==
    ASSUME IInv, Record, NEW t \in Threads, Drop(t)
    PROVE  FieldInv' /\ OpenInv'
<1> DEFINE to == IF t = Main THEN "idle" ELSE "end"
           s0 == This(t)
<1>a. TypeOK /\ s0 \in Services /\ open \subseteq Attempts /\ crossed \subseteq crossed'
      /\ iface \in [Services -> Attempts \union {NoOne}] /\ service \in [Attempts -> Services]
  <2>1. /\ TypeOK /\ open \subseteq Attempts /\ iface \in [Services -> Attempts \union {NoOne}]
        /\ service \in [Attempts -> Services] /\ current \in Services
    BY DEF IInv, BaseInv, TypeOK
  <2> QED
    BY <2>1, CrossKeeps, OwnersKnown, ThreadFacts DEF Owners
<1>1. /\ pc[t] = "null" /\ Moves(t, to)
      /\ iface' = [iface EXCEPT ![s0] = NoOne]
      /\ UNCHANGED <<open, service>>
      /\ t # Main => current' = current
  BY <1>a, GotoMoves DEF Drop, processes, Control
<1>2. /\ to \notin {"off", "check", "establish", "store", "null"}
      /\ \A s \in Services : iface'[s] = IF s = s0 THEN NoOne ELSE iface[s]
  BY <1>a, <1>1
<1> HIDE DEF to
<1>3. ASSUME NEW d \in Attempts
      PROVE  \/ pc'[Connecting(d)] = pc[Connecting(d)]
             \/ pc[Connecting(d)] = "null" /\ pc'[Connecting(d)] = to
  BY <1>1, ThreadFacts DEF Moves
<1>4. FieldInv'
  BY <1>1, <1>2, <1>3, VpnAssumption DEF IInv, FieldInv
<1>5. ASSUME NEW d \in open
      PROVE  /\ pc'[Connecting(d)] \notin {"off", "check", "establish"}
             /\ service[d] \notin crossed' =>
                  iface'[service[d]] = d \/ pc'[Connecting(d)] = "store"
  <2>1. d \in Attempts /\ service[d] \in Services
    BY <1>a
  <2>2. pc'[Connecting(d)] \notin {"off", "check", "establish"}
    BY <1>2, <1>3, <2>1 DEF IInv, OpenInv
  <2>3. ASSUME service[d] \notin crossed', pc[Connecting(d)] # "store"
        PROVE  iface'[service[d]] = d
    <3>1. iface[service[d]] = d
      BY <1>a, <2>3 DEF IInv, OpenInv
    <3>2. service[d] # s0
      BY <1>a, <1>1, <2>3, <3>1 DEF IInv, OpenInv
    <3> QED
      BY <1>2, <2>1, <3>1, <3>2
  <2> QED
    BY <1>3, <2>1, <2>2, <2>3
<1>6. ASSUME NEW d \in Attempts, service[d] \notin crossed',
             pc'[Connecting(d)] \in {"establish", "store"}
      PROVE  iface'[service[d]] = NoOne
  <2>1. iface[service[d]] = NoOne /\ service[d] \in Services
    BY <1>a, <1>2, <1>3, <1>6 DEF IInv, OpenInv
  <2> QED
    BY <1>2, <2>1
<1>7. ASSUME NEW u \in Threads, This(u)' \notin crossed', pc'[u] = "null"
      PROVE  iface'[This(u)'] \notin open
  <2>1. u # t /\ pc[u] = "null"
    BY <1>1, <1>2, <1>7 DEF Moves
  <2>2. This(u)' = This(u) /\ This(u) \in Services
    <3>1. CASE t = Main
      BY <1>a, <1>1, <2>1, <3>1, OwnersKnown, ThreadFacts DEF Owners
    <3>2. CASE t # Main
      BY <1>a, <1>1, <3>2, OwnersKnown, ThreadFacts DEF Owners, TypeOK
    <3> QED
      BY <3>1, <3>2
  <2>3. iface[This(u)] \notin open
    BY <1>a, <1>7, <2>1, <2>2 DEF IInv, OpenInv
  <2> QED
    BY <1>a, <1>2, <2>2, <2>3, VpnAssumption
<1> QED
  BY <1>1, <1>4, <1>5, <1>6, <1>7 DEF OpenInv

-----------------------------------------------------------------------------
(* Nothing runs yet, and nothing is open.                                  *)
LEMMA Start == Init => IInv
<1> SUFFICES ASSUME Init PROVE IInv
  OBVIOUS
<1>1. 1 \in Services
  BY VpnAssumption DEF Services
<1>2. /\ \A t \in Threads : pc[t] \in {"idle", "off"}
      /\ \A t \in Threads : t # Main => pc[t] = "off"
      /\ pc \in [Threads -> Control]
  BY DEF Init, Control
<1>3. TypeOK
  BY <1>1, <1>2 DEF Init, TypeOK
<1>4. OrderInv
  BY <1>2, ThreadFacts, ThreadsDiffer DEF OrderInv
<1>5. HelpInv /\ (destroying => current < MaxServices)
  BY DEF Init, HelpInv
<1>6. FieldInv
  BY VpnAssumption DEF Init, FieldInv
<1>7. OpenInv
  BY <1>2, ThreadFacts, ThreadsDiffer DEF Init, OpenInv
<1>8. CrossInv
  BY <1>2, ThreadFacts, ThreadsDiffer DEF CrossInv, Crossing
<1> QED
  BY <1>3, <1>4, <1>5, <1>6, <1>7, <1>8 DEF IInv, BaseInv

(* Every step keeps the invariant.                                         *)
LEMMA StepsKeep == IInv /\ [Next]_vars => IInv'
<1>1. ASSUME IInv, Next PROVE IInv'
  <2>1. Step /\ Record /\ BaseInv
    BY <1>1 DEF Next, IInv
  <2>2. ASSUME NEW c \in Attempts,
               \/ Connect(c) \/ ConnectStep(c) \/ CoreExits(c)
               \/ WatchdogWakes(c) \/ HealthStep(c)
        PROVE  FieldInv' /\ OpenInv'
    BY <1>1, <2>1, <2>2, QuietSteps, ConnectOpens, EstablishOpens, StoreOpens DEF ConnectStep
  <2>3. ASSUME NEW t \in Threads, TeardownStep(t) PROVE FieldInv' /\ OpenInv'
    BY <1>1, <2>1, <2>3, QuietSteps, CloseOpens, DropOpens DEF TeardownStep
  <2>4. Disconnect \/ Destroy => FieldInv' /\ OpenInv'
    BY <1>1, <2>1, QuietSteps
  <2>5. FieldInv' /\ OpenInv'
    BY <2>1, <2>2, <2>3, <2>4 DEF Step
  <2> QED
    BY <2>1, <2>5, BaseKeeps, CrossKeeps DEF IInv
<1>2. ASSUME IInv, UNCHANGED vars PROVE IInv'
  <2>1. \A t \in Threads : This(t)' = This(t)
    BY <1>2, OwnersKnown, ThreadFacts DEF Owners, vars
  <2>2. BaseInv'
    <3>1. \A s \in Services : Helped(s) => Helped(s)'
      BY <1>2, <2>1 DEF Helped, vars
    <3> QED
      BY <1>2, <3>1 DEF IInv, BaseInv, TypeOK, OrderInv, HelpInv, vars
  <2>3. FieldInv'
    BY <1>2 DEF IInv, FieldInv, vars
  <2>4. OpenInv'
    BY <1>2, <2>1 DEF IInv, OpenInv, vars
  <2>5. CrossInv'
    BY <1>2, <2>1 DEF IInv, CrossInv, Crossing, vars
  <2> QED
    BY <2>2, <2>3, <2>4, <2>5 DEF IInv
<1> QED
  BY <1>1, <1>2

-----------------------------------------------------------------------------
(* The inductive invariant: every interface that is held has a helper, and *)
(* until threads cross on an object every one that is open is held.        *)
THEOREM Invariance == Spec => []IInv
  BY Start, StepsKeep, PTL DEF Spec

(* Every field keeps its type.                                             *)
THEOREM TypeCorrect == Spec => []TypeOK
<1>1. IInv => TypeOK
  BY DEF IInv, BaseInv
<1> QED
  BY <1>1, Invariance, PTL

(* A settled service object has no threads that could still help: what its *)
(* field holds has a watchdog on a core that runs, and unless threads have *)
(* crossed nothing else is open.                                           *)
THEOREM NoDeadTunnel == Spec => []NoTunnelWithoutCore
<1>1. ASSUME IInv, NEW s \in Services, Settled(s), iface[s] # NoOne
      PROVE  core[s] \in alive
  <2>1. Helped(s)
    BY <1>1 DEF IInv, BaseInv, HelpInv
  <2>2. ASSUME NEW t \in Threads, This(t) = s, pc[t] \in Teardown PROVE FALSE
    BY <1>1, <2>2, OwnersKnown, ThreadFacts DEF Owners, Settled, Teardown
  <2>3. ASSUME NEW c \in Attempts, service[c] = s, pc[Connecting(c)] \in {"launch", "register"}
        PROVE  FALSE
    BY <1>1, <2>3 DEF Settled
  <2>4. ASSUME NEW c \in Attempts, service[c] = s, core[s] = c, pc[Watchdog(c)] = "wait"
        PROVE  core[s] \in alive
    BY <1>1, <2>4 DEF Settled
  <2> QED
    BY <2>1, <2>2, <2>3, <2>4 DEF Helped
<1>2. ASSUME IInv, NEW s \in Services, Settled(s), s \notin crossed,
             NEW c \in open, service[c] = s
      PROVE  iface[s] = c
  <2>1. c \in Attempts
    BY <1>2 DEF IInv, BaseInv, TypeOK
  <2> QED
    BY <1>2, <2>1 DEF IInv, OpenInv, Settled
<1>3. IInv => NoTunnelWithoutCore
  BY <1>1, <1>2 DEF NoTunnelWithoutCore
<1> QED
  BY <1>3, Invariance, PTL
=============================================================================
