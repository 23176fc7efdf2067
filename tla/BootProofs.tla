----------------------------- MODULE BootProofs -----------------------------
(***************************************************************************)
(* Proof that start-up keeps to its types and limits, and that no task of  *)
(* app_main uses a queue, a semaphore or the driver before it has been     *)
(* created, in whatever order the tasks run, and through every restart.    *)
(***************************************************************************)
EXTENDS Boot, TLAPS

(* obtain_time polls only while it has retries left.                       *)
RetryInv == main = "poll" => retry < RetryCount

(* app_main creates the tasks, and starts the client of MQTT, after what   *)
(* they use of what it creates itself.                                     *)
MainInv == /\ main # "objects" => {"semaphores", "rxCanQueue", "txCanQueue"} \subseteq exists
           /\ main \in {"tasks", "ready"} => "driver" \in exists
           /\ mqtt_task # "off" => main # "objects"

Runs(t) == task[t] \notin {"absent", "created"}

(* Every semaphore is given, directly or through other tasks, by the one   *)
(* that creates controlEvents first.                                       *)
TaskInv == /\ \A t \in ToSet(Tasks) : task[t] # "absent" => main \in {"tasks", "ready"}
           /\ given # {} => "controlEvents" \in exists
           /\ \A t \in ToSet(Tasks) : Runs(t) => "controlEvents" \in exists

IInv == TypeOK /\ RetryInv /\ MainInv /\ TaskInv
-----------------------------------------------------------------------------
LEMMA TaskNames == ToSet(Tasks) = {"NET_tx", "OBD", "CAN_tx", "CAN_rx", "control"}
<1>1. DOMAIN Tasks = 1 .. 5
  BY DEF Tasks
<1>2. ToSet(Tasks) = {Tasks[i] : i \in 1 .. 5}
  BY <1>1 DEF ToSet
<1> QED BY <1>2 DEF Tasks

LEMMA UpdatedTask ==
    ASSUME NEW S, NEW f \in [S -> Places], NEW n, NEW v \in Places
    PROVE  [f EXCEPT ![n] = v] \in [S -> Places]
OBVIOUS

LEMMA AbsentType == Absent \in [ToSet(Tasks) -> Places]
BY DEF Absent, Places

LEMMA MoveType ==
    ASSUME TypeOK, NEW t, NEW from, NEW to \in Places, Moves(t, from, to)
    PROVE  task' \in [ToSet(Tasks) -> Places]
BY UpdatedTask DEF TypeOK, Moves

Semaphores == {"can_rx", "can_tx", "net_tx", "obd_tx_wait"}

LEMMA TakeType ==
    ASSUME TypeOK, NEW t, NEW semaphore, TakeFirst(t, semaphore)
    PROVE  task' \in [ToSet(Tasks) -> Places] /\ given' \subseteq given
<1>1. Moves(t, "created", "running") /\ given' = given \ {semaphore}
  BY DEF TakeFirst
<1>2. "running" \in Places
  BY DEF Places
<1> QED BY <1>1, <1>2, MoveType

LEMMA RestartType == ASSUME TypeOK, Restart PROVE (TypeOK /\ RetryInv)'
<1>1. /\ main' = "objects" /\ retry' = 0 /\ exists' = {} /\ station' = "off"
      /\ given' = {} /\ mqtt_task' = "off" /\ clock' = clock
      /\ ~CONNECTED_BIT' /\ ~client' /\ ~answered'
  BY DEF Restart
<1>2. CONNECTED_BIT' \in BOOLEAN /\ client' \in BOOLEAN /\ answered' \in BOOLEAN
  BY DEF Restart
<1>3. task' \in [ToSet(Tasks) -> Places]
  BY AbsentType DEF Restart
<1> QED BY <1>1, <1>2, <1>3, RetryAssumption DEF TypeOK, RetryInv, Steps

(* obtain_time counts its retries and leaves at the limit.                 *)
LEMMA MainType == ASSUME TypeOK, RetryInv, app_main PROVE (TypeOK /\ RetryInv)'
<1>1. (retry \in 0 .. RetryCount /\ main \in Steps /\ RetryInv)'
  <2> USE RetryAssumption DEF TypeOK, RetryInv, Steps
  <2>1. CASE PollTime
    <3>1. main' \in Steps /\ retry' \in Nat /\ retry' <= RetryCount
      BY <2>1 DEF PollTime
    <3>2. main' = "poll" => retry' < RetryCount
      BY <2>1 DEF PollTime
    <3> QED BY <3>1, <3>2
  <2>2. CASE initialize_sntp
    BY <2>2 DEF initialize_sntp
  <2>3. CASE UNCHANGED retry /\ main' \in Steps \ {"poll"}
    BY <2>3
  <2>4. \/ PollTime \/ initialize_sntp
        \/ UNCHANGED retry /\ main' \in Steps \ {"poll"}
    BY DEF app_main, CreateObjects, wifi_initialise, wifi_wait_connected, set_time,
         MqttInitM, canInit, xTaskCreatePinnedToCore
  <2> QED BY <2>1, <2>2, <2>3, <2>4
<1>2. /\ UNCHANGED <<CONNECTED_BIT, client, answered, clock, given>>
      /\ station' \in {station, "joining"} /\ mqtt_task' \in {mqtt_task, "connecting"}
  BY DEF app_main, CreateObjects, wifi_initialise, wifi_wait_connected, set_time,
       initialize_sntp, PollTime, MqttInitM, canInit, xTaskCreatePinnedToCore, wifi, mqtt
<1>3. exists' \subseteq Objects
  BY DEF app_main, CreateObjects, wifi_initialise, wifi_wait_connected, set_time,
       initialize_sntp, PollTime, MqttInitM, canInit, xTaskCreatePinnedToCore, TypeOK, Objects
<1>4. task' \in [ToSet(Tasks) -> Places]
  <2>1. CASE xTaskCreatePinnedToCore
    <3>1. PICK n : task' = [task EXCEPT ![n] = "created"]
      BY <2>1 DEF xTaskCreatePinnedToCore
    <3>2. "created" \in Places
      BY DEF Places
    <3> QED BY <3>1, <3>2, UpdatedTask DEF TypeOK
  <2>2. CASE ~xTaskCreatePinnedToCore
    <3>1. UNCHANGED task
      BY <2>2 DEF app_main, CreateObjects, wifi_initialise, wifi_wait_connected, set_time,
           initialize_sntp, PollTime, MqttInitM, canInit
    <3> QED BY <3>1 DEF TypeOK
  <2> QED BY <2>1, <2>2
<1> QED BY <1>1, <1>2, <1>3, <1>4 DEF TypeOK

LEMMA MqttType == ASSUME TypeOK, RetryInv, MqttTask PROVE (TypeOK /\ RetryInv)'
<1>1. CASE PostThroughNull
  BY <1>1, RestartType DEF PostThroughNull
<1>2. CASE ~PostThroughNull
  <2>1. /\ UNCHANGED <<boot, exists, wifi, clock, task, given>>
        /\ mqtt_task' \in {"connecting", "connected", "posting", "waiting"}
    BY <1>2 DEF MqttTask, MqttConnected, MqttDisconnected, MqttReconnects, MqttEvent, MqttData,
         PostReceived
  <2>2. client' \in BOOLEAN /\ answered' \in BOOLEAN
    BY <1>2 DEF MqttTask, MqttConnected, MqttDisconnected, MqttReconnects, MqttEvent, MqttData,
         PostReceived, TypeOK
  <2> QED BY <2>1, <2>2 DEF TypeOK, RetryInv, boot, wifi
<1> QED BY <1>1, <1>2

LEMMA TaskType == ASSUME TypeOK, RetryInv, AppTask \/ CanReceive PROVE (TypeOK /\ RetryInv)'
<1>1. CASE PublishThroughNull
  BY <1>1, RestartType DEF PublishThroughNull
<1>2. CASE (AppTask \/ CanReceive) /\ ~PublishThroughNull
  <2>1. UNCHANGED <<boot, wifi, clock, mqtt_task, client>>
    BY <1>2 DEF AppTask, Control, NetTx, control_task, controlStartState, StartCanRx,
         CanReceive, controlCANRequestState, StartNetTx, StartObd, Publish, IgnoreAnswer,
         controlNetResponseWaitState, StartCanTx, TakeFirst, mqtt
  <2>2. answered' \in BOOLEAN
    BY <1>2 DEF AppTask, Control, NetTx, control_task, controlStartState, StartCanRx,
         CanReceive, controlCANRequestState, StartNetTx, StartObd, Publish, IgnoreAnswer,
         controlNetResponseWaitState, StartCanTx, TakeFirst, mqtt, TypeOK
  <2>3. exists' \subseteq Objects
    BY <1>2 DEF AppTask, Control, NetTx, control_task, controlStartState, StartCanRx,
         CanReceive, controlCANRequestState, StartNetTx, StartObd, Publish, IgnoreAnswer,
         controlNetResponseWaitState, StartCanTx, TakeFirst, TypeOK, Objects
  <2>4. task' \in [ToSet(Tasks) -> Places] /\ given' \subseteq given \cup Semaphores
    <3>1. CASE StartCanRx \/ StartNetTx \/ StartObd \/ StartCanTx
      BY <3>1, TakeType DEF StartCanRx, StartNetTx, StartObd, StartCanTx
    <3>2. CASE IgnoreAnswer
      BY <3>2 DEF IgnoreAnswer, TypeOK
    <3>3. CASE \/ control_task \/ controlStartState \/ controlCANRequestState
               \/ controlNetResponseWaitState \/ Publish \/ CanReceive
      <4>1. given' \subseteq given \cup Semaphores
        BY <3>3 DEF control_task, controlStartState, CanReceive, controlCANRequestState,
             Publish, controlNetResponseWaitState, Semaphores
      <4>2. \E t, from : \E to \in Places : Moves(t, from, to)
        BY <3>3 DEF control_task, controlStartState, CanReceive, controlCANRequestState,
             Publish, controlNetResponseWaitState, Places
      <4> QED BY <4>1, <4>2, MoveType
    <3> QED BY <1>2, <3>1, <3>2, <3>3 DEF AppTask, Control, NetTx
  <2> QED BY <2>1, <2>2, <2>3, <2>4 DEF TypeOK, RetryInv, Semaphores, boot, wifi
<1> QED BY <1>1, <1>2

(* The retries of obtain_time stay within their limit.                     *)
LEMMA TypeStep == TypeOK /\ RetryInv /\ [Next]_vars => (TypeOK /\ RetryInv)'
<1> SUFFICES ASSUME TypeOK, RetryInv, [Next]_vars PROVE (TypeOK /\ RetryInv)'
  OBVIOUS
<1>1. CASE GotIp \/ Disconnected \/ TimeServerAnswers
  <2>1. /\ UNCHANGED <<boot, exists, task, given, mqtt>>
        /\ station' \in {station, "online", "joining"}
    BY <1>1 DEF GotIp, Disconnected, TimeServerAnswers, wifi
  <2>2. CONNECTED_BIT' \in BOOLEAN /\ clock' \in BOOLEAN
    BY <1>1 DEF GotIp, Disconnected, TimeServerAnswers, wifi, TypeOK
  <2> QED BY <2>1, <2>2 DEF TypeOK, RetryInv, boot, mqtt
<1>2. CASE UNCHANGED vars
  BY <1>2 DEF vars, boot, wifi, mqtt, TypeOK, RetryInv
<1> QED BY <1>1, <1>2, MainType, MqttType, TaskType DEF Next
-----------------------------------------------------------------------------
LEMMA RestartStep == Restart => (TaskInv /\ MainInv)'
<1> SUFFICES ASSUME Restart PROVE (TaskInv /\ MainInv)'
  OBVIOUS
<1>1. /\ main' = "objects" /\ given' = {} /\ mqtt_task' = "off"
      /\ task' = [u \in ToSet(Tasks) |-> "absent"]
  BY DEF Restart, Absent
<1>2. \A u \in ToSet(Tasks) : task'[u] = "absent"
  BY <1>1
<1> QED BY <1>1, <1>2 DEF TaskInv, MainInv, Runs

(* A task that moves, and what it may give or create, leave what everybody *)
(* uses in existence.                                                      *)
LEMMA MoveStep ==
    ASSUME TypeOK, TaskInv, MainInv, NEW t \in ToSet(Tasks), NEW from, NEW to \in Places,
           Moves(t, from, to), from # "absent", exists \subseteq exists',
           UNCHANGED <<main, mqtt_task>>, "controlEvents" \in exists'
    PROVE  (TaskInv /\ MainInv)'
<1>1. \A u \in ToSet(Tasks) : u # t => task'[u] = task[u]
  <2> HIDE DEF Tasks
  <2> QED BY DEF TypeOK, Moves
<1>2. main \in {"tasks", "ready"}
  BY DEF TaskInv, Moves
<1> QED BY <1>1, <1>2 DEF TaskInv, MainInv, Runs

LEMMA TaskStep == TypeOK /\ TaskInv /\ MainInv /\ [Next]_vars => (TaskInv /\ MainInv)'
<1> SUFFICES ASSUME TypeOK, TaskInv, MainInv, [Next]_vars PROVE (TaskInv /\ MainInv)'
  OBVIOUS
<1>1. CASE app_main
  <2>1. CASE xTaskCreatePinnedToCore
    <3>1. PICK n : /\ task' = [task EXCEPT ![n] = "created"]
                   /\ main = "tasks" /\ main' \in {"tasks", "ready"}
                   /\ UNCHANGED <<exists, given, mqtt_task>>
      BY <2>1 DEF xTaskCreatePinnedToCore, mqtt
    <3>2. \A u \in ToSet(Tasks) : task'[u] \in {task[u], "created"}
      BY <3>1 DEF TypeOK
    <3> QED BY <3>1, <3>2 DEF TaskInv, MainInv, Runs
  <2>2. CASE ~xTaskCreatePinnedToCore
    <3>1. /\ UNCHANGED <<task, given>> /\ exists \subseteq exists'
          /\ main \notin {"tasks", "ready"}
      BY <1>1, <2>2 DEF app_main, CreateObjects, wifi_initialise, wifi_wait_connected, set_time,
           initialize_sntp, PollTime, MqttInitM, canInit, wifi, mqtt
    <3>2. MainInv'
      BY <1>1, <2>2, <3>1 DEF MainInv, app_main, CreateObjects, wifi_initialise,
           wifi_wait_connected, set_time, initialize_sntp, PollTime, MqttInitM, canInit, mqtt
    <3> QED BY <3>1, <3>2 DEF TaskInv, Runs
  <2> QED BY <2>1, <2>2
<1>2. CASE GotIp \/ Disconnected \/ TimeServerAnswers \/ IgnoreAnswer \/ UNCHANGED vars
  <2>1. UNCHANGED <<main, exists, task, given, mqtt_task>>
    BY <1>2 DEF GotIp, Disconnected, TimeServerAnswers, IgnoreAnswer, boot, mqtt, vars
  <2> QED BY <2>1 DEF TaskInv, MainInv, Runs
<1>3. CASE MqttTask /\ ~PostThroughNull
  <2>1. UNCHANGED <<main, exists, task, given>> /\ mqtt_task # "off"
    BY <1>3 DEF MqttTask, MqttConnected, MqttDisconnected, MqttReconnects, MqttEvent, MqttData,
         PostReceived, boot
  <2> QED BY <2>1 DEF TaskInv, MainInv, Runs
<1>4. CASE PublishThroughNull \/ PostThroughNull
  BY <1>4, RestartStep DEF PublishThroughNull, PostThroughNull
<1>5. CASE /\ AppTask \/ CanReceive
           /\ ~PublishThroughNull /\ ~IgnoreAnswer
  <2>1. exists \subseteq exists' /\ UNCHANGED <<main, mqtt_task>>
    BY <1>5 DEF AppTask, Control, NetTx, control_task, controlStartState, StartCanRx,
         CanReceive, controlCANRequestState, StartNetTx, StartObd, Publish,
         controlNetResponseWaitState, StartCanTx, TakeFirst, boot, mqtt
  <2>2. \E t \in ToSet(Tasks), from \in Places, to \in Places :
            from # "absent" /\ Moves(t, from, to)
    <3>1. \/ Moves("control", "created", "running")
          \/ Moves("control", "running", "waiting for a frame")
          \/ Moves("CAN_rx", "created", "running") \/ Moves("CAN_rx", "running", "received")
          \/ Moves("control", "waiting for a frame", "sending")
          \/ Moves("NET_tx", "created", "running") \/ Moves("OBD", "created", "running")
          \/ Moves("NET_tx", "running", "sent") \/ Moves("control", "sending", "answered")
          \/ Moves("CAN_tx", "created", "running")
      BY <1>5 DEF AppTask, Control, NetTx, control_task, controlStartState, StartCanRx,
         CanReceive, controlCANRequestState, StartNetTx, StartObd, Publish,
         controlNetResponseWaitState, StartCanTx, TakeFirst
    <3>2. {"NET_tx", "OBD", "CAN_tx", "CAN_rx", "control"} \subseteq ToSet(Tasks)
      BY TaskNames
    <3> QED BY <3>1, <3>2 DEF Places
  <2>3. "controlEvents" \in exists'
    <3>1. CASE control_task
      BY <3>1 DEF control_task
    <3>2. CASE StartCanRx \/ StartNetTx \/ StartObd \/ StartCanTx
      BY <2>1, <3>2 DEF StartCanRx, StartNetTx, StartObd, StartCanTx, TakeFirst, TaskInv
    <3>3. CASE controlStartState \/ CanReceive \/ controlCANRequestState \/ Publish
               \/ controlNetResponseWaitState
      BY <2>1, <3>3, TaskNames DEF controlStartState, CanReceive, controlCANRequestState,
           Publish, controlNetResponseWaitState, Moves, TaskInv, Runs
    <3> QED BY <1>5, <3>1, <3>2, <3>3 DEF AppTask, Control, NetTx
  <2>4. PICK t \in ToSet(Tasks), from \in Places, to \in Places :
            from # "absent" /\ Moves(t, from, to)
    BY <2>2
  <2> QED BY <2>1, <2>3, <2>4, MoveStep
<1> QED BY <1>1, <1>2, <1>3, <1>4, <1>5 DEF Next, AppTask, Control, NetTx
-----------------------------------------------------------------------------
LEMMA BootInit == Init => IInv
<1> SUFFICES ASSUME Init PROVE IInv
  OBVIOUS
<1>1. TypeOK
  <2>1. /\ main = "objects" /\ retry = 0 /\ exists = {} /\ given = {} /\ station = "off"
        /\ mqtt_task = "off" /\ clock \in BOOLEAN
    BY DEF Init
  <2>2. CONNECTED_BIT \in BOOLEAN /\ client \in BOOLEAN /\ answered \in BOOLEAN
    BY DEF Init
  <2>3. task \in [ToSet(Tasks) -> Places]
    BY AbsentType DEF Init
  <2> QED BY <2>1, <2>2, <2>3, RetryAssumption DEF TypeOK, Steps
<1>2. RetryInv /\ MainInv
  BY DEF Init, RetryInv, MainInv
<1>3. TaskInv
  <2>1. \A u \in ToSet(Tasks) : task[u] = "absent"
    BY DEF Init, Absent
  <2>2. given = {}
    BY DEF Init
  <2> QED BY <2>1, <2>2 DEF TaskInv, Runs
<1> QED BY <1>1, <1>2, <1>3 DEF IInv

LEMMA BootStep == IInv /\ [Next]_vars => IInv'
BY TypeStep, TaskStep DEF IInv

(* Program counters, objects and flags keep to their types, and the        *)
(* retries of obtain_time stay within its limit.                           *)
THEOREM TypeCorrect == Spec => []TypeOK
<1>1. IInv => TypeOK
  BY DEF IInv
<1> QED BY <1>1, BootInit, BootStep, PTL DEF Spec

(* A task that runs finds what it uses.                                    *)
LEMMA InvImpliesUsed == IInv => UsedAfterCreation
<1> SUFFICES ASSUME IInv PROVE UsedAfterCreation
  OBVIOUS
<1>1. DOMAIN task = ToSet(Tasks)
  BY DEF IInv, TypeOK
<1>2. \A t \in ToSet(Tasks) : Uses[t] \subseteq
          {"controlEvents", "rxCanQueue", "txCanQueue", "driver", "semaphores"}
  BY TaskNames DEF Uses
<1>3. \A t \in ToSet(Tasks) : task[t] # "absent" =>
          {"rxCanQueue", "txCanQueue", "driver", "semaphores"} \subseteq exists
  BY DEF IInv, TaskInv, MainInv
<1>4. \A t \in ToSet(Tasks) : Runs(t) => "controlEvents" \in exists
  BY DEF IInv, TaskInv
<1>5. mqtt_task # "off" => "txCanQueue" \in exists
  BY DEF IInv, MainInv
<1> QED BY <1>1, <1>2, <1>3, <1>4, <1>5 DEF UsedAfterCreation, Runs

(* No task of app_main uses a queue, a semaphore or the driver before it   *)
(* exists, and the task of the MQTT client finds txCanQueue.               *)
THEOREM NothingUsedEarly == Spec => []UsedAfterCreation
BY BootInit, BootStep, InvImpliesUsed, PTL DEF Spec
=============================================================================
