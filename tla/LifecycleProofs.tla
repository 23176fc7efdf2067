--------------------------- MODULE LifecycleProofs ---------------------------
(***************************************************************************)
(* Proofs about Lifecycle, for any number of starts and any configuration. *)
(***************************************************************************)
EXTENDS Lifecycle, FiniteSetTheorems, TLAPS

(* Where a task can be.                                                    *)
Places == {"none", "begin", "lookup", "reset", "clear", "loop", "connect", "tcp_connect",
           "server_cert", "client_cert", "ssl_setup", "handshake", "exit", "upgrade",
           "connected", "receive", "close", "stopped", "ended"}

TaskType == task \in [Tasks -> Places]

Runs(t) == task[t] \notin {"none", "ended"}

(* One task at a time.  In its first steps nobody waits for its end; the   *)
(* state is UNKNOWN in those steps only, so that a second start has to be  *)
(* a hasty one; and STOPPED_BIT, in whose stead an earlier task's may      *)
(* stand, is cleared before the loop is entered.                           *)
OneInv ==
    ~hasty =>
        /\ \A t, u \in Tasks : Runs(t) /\ Runs(u) => t = u
        /\ \A t \in Tasks : Runs(t) =>
              /\ client = "live"
              /\ app \in {"idle", "stop", "destroy"}
              /\ task[t] \in BeforeLoop => app = "idle"
              /\ task[t] \notin BeforeLoop => ~STOPPED_BIT
              /\ task[t] \notin BeforeLoop \ {"clear"} => state # "UNKNOWN"
        /\ client = "freed" => app = "done"

(* The places at which a task may hold a socket or a TLS context.          *)
Holds(t) == \/ task[t] \in {"tcp_connect", "server_cert", "client_cert", "ssl_setup", "handshake",
                            "exit", "upgrade", "connected", "receive", "close"}
            \/ task[t] = "loop" /\ state = "CONNECTED"

Clean == ~sock /\ ~client_fd /\ contexts = {} /\ ssl = FlagsDown

(* The flags say which contexts hold something.                            *)
HandleInv == /\ ~lost
             /\ contexts = IF ssl.ssl_initialized THEN Owned ELSE {}
             /\ ~ssl.ssl_initialized => ssl = FlagsDown /\ ~client_fd
             /\ transport \notin OverTcp => ~sock
             /\ transport \notin OverSsl => ~ssl.ssl_initialized

(* The steps of transport_connect find free what they are about to take,   *)
(* and what has been returned so far to the task that connects is true.    *)
PlaceInv(t) ==
    /\ task[t] = "server_cert" => ~ssl.verify_server
    /\ task[t] \in {"server_cert", "client_cert"} => ~ssl.mutual_authentication
    /\ task[t] \in {"server_cert", "client_cert", "ssl_setup"} => ~client_fd
    /\ task[t] = "receive" => state = "CONNECTED"
    /\ task[t] = "tcp_connect" => transport \in OverTcp
    /\ task[t] \in {"server_cert", "client_cert", "ssl_setup", "handshake", "exit"}
          => transport \in OverSsl /\ ssl.ssl_initialized
    /\ task[t] = "handshake" => client_fd
    /\ task[t] = "exit" /\ config.client # "half" => ret[t] = -1
    /\ task[t] = "connected" /\ ret[t] = 0 /\ config.client # "half" => Open

(* What is held belongs to the one task that runs.                         *)
HoldInv == ~hasty => /\ HandleInv
                     /\ (\A t \in Tasks : ~Holds(t)) => Clean
                     /\ \A t \in Tasks : PlaceInv(t)
-----------------------------------------------------------------------------
SslFlags == [ssl_initialized : BOOLEAN, verify_server : BOOLEAN, mutual_authentication : BOOLEAN]

LEMMA Flags ==
    /\ FlagsDown \in SslFlags
    /\ ~FlagsDown.ssl_initialized /\ ~FlagsDown.verify_server /\ ~FlagsDown.mutual_authentication
BY DEF FlagsDown, SslFlags

(* The handles are of the type they were made of.                          *)
ConnectionType ==
    /\ sock \in BOOLEAN /\ client_fd \in BOOLEAN /\ lost \in BOOLEAN
    /\ ssl \in SslFlags
    /\ contexts \subseteq BaseContexts \cup ServerContexts \cup ClientContexts

LEMMA CloseType == ConnectionType /\ transport_close => ConnectionType'
<1> SUFFICES ASSUME ConnectionType, transport_close PROVE ConnectionType'
  OBVIOUS
<1>1. CASE tcp_close
  BY <1>1 DEF tcp_close, sslVars, ConnectionType
<1>2. CASE ssl_close
  BY <1>2, Flags DEF ssl_close, ssl_cleanup, sslVars, ConnectionType
<1>3. CASE UNCHANGED <<tcpVars, sslVars, lost>>
  BY <1>3 DEF tcpVars, sslVars, ConnectionType
<1> QED BY <1>1, <1>2, <1>3 DEF transport_close

LEMMA TaskConnectionType ==
    ASSUME ConnectionType, NEW t \in Tasks, esp_mqtt_task(t)
    PROVE  ConnectionType'
<1> USE DEF ConnectionType
<1>1. CASE UNCHANGED connection
  BY <1>1 DEF connection, tcpVars, sslVars
<1>2. CASE transport_close
  BY <1>2, CloseType
<1>3. CASE UNCHANGED sslVars /\ sock' \in BOOLEAN /\ lost' \in BOOLEAN
  BY <1>3 DEF sslVars
<1>4. CASE UNCHANGED tcpVars /\ (SslBegin(t) \/ SslServerCert(t) \/ SslClientCert(t) \/ SslConnect(t) \/ SslExit(t))
  <2>1. sock' \in BOOLEAN
    BY <1>4 DEF tcpVars
  <2>2. CASE SslBegin(t)
    BY <2>1, <2>2, Flags DEF SslFlags, SslBegin, ssl_init, Hold
  <2>3. CASE SslServerCert(t)
    BY <2>1, <2>3, Flags DEF SslFlags, SslServerCert, ssl_server_cert, Hold, sslVars
  <2>4. CASE SslClientCert(t)
    BY <2>1, <2>4, Flags DEF SslFlags, SslClientCert, ssl_client_cert, Hold, sslVars
  <2>5. CASE SslConnect(t)
    BY <2>1, <2>5 DEF SslConnect, ssl_net_connect, sslVars
  <2>6. CASE SslExit(t)
    BY <2>1, <2>6, Flags DEF SslExit, ssl_close, ssl_cleanup, sslVars
  <2> QED BY <1>4, <2>2, <2>3, <2>4, <2>5, <2>6
<1>5. CASE TcpSocket(t) \/ TcpConnect(t)
  BY <1>5 DEF TcpSocket, TcpConnect, resolve_fails, socket, connect, sslVars
<1>6. CASE Begin(t) \/ Lookup(t) \/ Reset(t) \/ Clear(t) \/ Turn(t) \/ SslHandshake(t)
           \/ WsUpgrade(t) \/ SetStopped(t)
  BY <1>1, <1>6 DEF Begin, Lookup, Reset, Clear, Turn, SslHandshake, WsUpgrade, SetStopped
<1>7. CASE ConnectNothing(t) \/ MqttConnect(t) \/ Receive(t) \/ Close(t)
  BY <1>1, <1>2, <1>7 DEF ConnectNothing, MqttConnect, Receive, Close, Abort
<1> QED
  BY <1>3, <1>4, <1>5, <1>6, <1>7 DEF esp_mqtt_task, transport_connect, SslExit,
     SslBegin, SslServerCert, SslClientCert, SslConnect, ssl_close, tcpVars
-----------------------------------------------------------------------------
(* What every step of a task does to the place it is at, and to what the   *)
(* application sees of it.                                                 *)
Moves(t) ==
    /\ task' \in [Tasks -> Places] /\ ret' \in [Tasks -> {-1, 0}]
    /\ \A u \in Tasks \ {t} : task'[u] = task[u] /\ ret'[u] = ret[u]
    /\ run' \in BOOLEAN /\ STOPPED_BIT' \in BOOLEAN
    /\ state' \in {"UNKNOWN", "INIT", "CONNECTED", "WAIT_TIMEOUT"}
    /\ Runs(t)
    /\ task'[t] \in BeforeLoop => task[t] \in BeforeLoop
    /\ \/ task'[t] \in BeforeLoop \cup {"none", "ended"}
       \/ ~STOPPED_BIT'
       \/ task[t] \notin BeforeLoop /\ UNCHANGED STOPPED_BIT
    /\ \/ task'[t] \in BeforeLoop \ {"clear"}
       \/ state' # "UNKNOWN"
       \/ task[t] \notin BeforeLoop \ {"clear"} /\ UNCHANGED state

LEMMA TaskMoves ==
    ASSUME TypeOK, TaskType, NEW t \in Tasks, esp_mqtt_task(t)
    PROVE  Moves(t)
<1> USE DEF TypeOK, TaskType, Moves, Runs, BeforeLoop, Goto, Return
<1>0. UNCHANGED ret => ret' \in [Tasks -> {-1, 0}] /\ \A u \in Tasks \ {t} : ret'[u] = ret[u]
  OBVIOUS
<1>1. CASE Begin(t) \/ Lookup(t) \/ Reset(t) \/ Clear(t)
  BY <1>1 DEF Begin, Lookup, Reset, Clear, Places
<1>2. CASE Turn(t)
  BY <1>2 DEF Turn, Places
<1>3. CASE ConnectNothing(t) \/ MqttConnect(t) \/ Receive(t) \/ Close(t) \/ SetStopped(t)
  BY <1>3 DEF ConnectNothing, MqttConnect, Receive, Close, SetStopped, Abort, Places
<1>4. CASE TcpSocket(t) \/ TcpConnect(t) \/ WsUpgrade(t)
  BY <1>4 DEF TcpSocket, TcpConnect, WsUpgrade, Connected, Places
<1>5. CASE SslBegin(t) \/ SslServerCert(t) \/ SslClientCert(t)
  BY <1>5 DEF SslBegin, SslServerCert, SslClientCert, Onward, Places
<1>6. CASE SslConnect(t) \/ SslHandshake(t) \/ SslExit(t)
  BY <1>6 DEF SslConnect, SslHandshake, SslExit, Onward, Connected, Places
<1> QED
  BY <1>1, <1>2, <1>3, <1>4, <1>5, <1>6 DEF esp_mqtt_task, transport_connect

LEMMA InitType == Init => TypeOK /\ TaskType
BY Flags DEF Init, TransportInit, TypeOK, TaskType, Places, SslFlags

LEMMA TypeStep == TypeOK /\ TaskType /\ [Next]_vars => TypeOK' /\ TaskType'
<1> SUFFICES ASSUME TypeOK, TaskType, [Next]_vars PROVE TypeOK' /\ TaskType'
  OBVIOUS
<1>1. CASE Application
  <2> USE DEF TypeOK, TaskType, SslFlags, firmware, clientVars, connection, tcpVars, sslVars
  <2>1. CASE esp_mqtt_client_init \/ InitFails \/ esp_mqtt_client_start
    BY <2>1 DEF esp_mqtt_client_init, InitFails, esp_mqtt_client_start, Goto, Places
  <2>2. CASE StopRunning \/ StopReturn
    BY <2>2 DEF StopRunning, StopReturn
  <2>3. CASE esp_mqtt_client_destroy
    BY <2>3, Flags DEF esp_mqtt_client_destroy, transport_list_destroy, ssl_cleanup
  <2> QED BY <1>1, <2>1, <2>2, <2>3 DEF Application
<1>2. ASSUME NEW t \in Tasks, esp_mqtt_task(t) PROVE TypeOK' /\ TaskType'
  <2>1. ConnectionType'
    BY <1>2, TaskConnectionType DEF TypeOK, ConnectionType, SslFlags
  <2>2. UNCHANGED <<config, client, app, hasty>>
    BY <1>2 DEF esp_mqtt_task
  <2> QED BY <1>2, <2>1, <2>2, TaskMoves DEF TypeOK, TaskType, ConnectionType, SslFlags, Moves
<1>3. CASE UNCHANGED vars
  BY <1>3 DEF vars, transportVars, clientVars, tcpVars, sslVars, TypeOK, TaskType
<1> QED BY <1>1, <1>2, <1>3 DEF Next

(* The handles, the flags and what transport_connect returns are what the  *)
(* code takes them for, and every task is at one of its places.            *)
THEOREM TypeCorrect == Spec => [](TypeOK /\ TaskType)
BY InitType, TypeStep, PTL DEF Spec
-----------------------------------------------------------------------------
LEMMA OneStep == TypeOK /\ TaskType /\ OneInv /\ [Next]_vars => OneInv'
<1> SUFFICES ASSUME TypeOK, TaskType, OneInv, [Next]_vars, ~hasty' PROVE OneInv'
  BY DEF OneInv
<1>1. ~hasty
  BY DEF Next, Application, esp_mqtt_client_init, InitFails, esp_mqtt_client_start, StopRunning,
     StopReturn, esp_mqtt_client_destroy, esp_mqtt_task, vars
<1> USE DEF OneInv, Runs
<1>2. CASE esp_mqtt_client_init \/ InitFails
  BY <1>1, <1>2 DEF esp_mqtt_client_init, InitFails, clientVars
<1>3. CASE esp_mqtt_client_start
  <2>1. PICK t \in Tasks : task[t] = "none" /\ task' = [task EXCEPT ![t] = "begin"]
    BY <1>3 DEF esp_mqtt_client_start, Goto
  <2>2. \A u \in Tasks : ~Runs(u)
    BY <1>1, <1>3 DEF esp_mqtt_client_start, Settled, BeforeLoop
  <2>3. \A u \in Tasks : Runs(u)' => u = t
    BY <2>1, <2>2 DEF TaskType
  <2> QED BY <1>1, <1>3, <2>1, <2>3 DEF esp_mqtt_client_start, clientVars, BeforeLoop, TaskType
<1>4. CASE StopRunning
  BY <1>1, <1>4 DEF StopRunning, Settled
<1>5. CASE StopReturn
  <2>1. \A u \in Tasks : ~Runs(u)
    BY <1>1, <1>5 DEF StopReturn
  <2> QED BY <1>1, <1>5, <2>1 DEF StopReturn
<1>6. CASE esp_mqtt_client_destroy
  BY <1>1, <1>6 DEF esp_mqtt_client_destroy
<1>7. ASSUME NEW t \in Tasks, esp_mqtt_task(t) PROVE OneInv'
  <2>1. Moves(t) /\ UNCHANGED <<client, app>>
    BY <1>7, TaskMoves DEF esp_mqtt_task
  <2>2. \A u \in Tasks : Runs(u)' => u = t
    BY <1>1, <2>1 DEF Moves
  <2> QED BY <1>1, <2>1, <2>2 DEF Moves, BeforeLoop
<1>8. CASE UNCHANGED vars
  BY <1>8 DEF vars, clientVars
<1> QED BY <1>2, <1>3, <1>4, <1>5, <1>6, <1>7, <1>8 DEF Next, Application
-----------------------------------------------------------------------------
LEMMA Schemes == /\ OverTcp \cap OverSsl = {} /\ NULL \notin OverTcp \cup OverSsl
                 /\ transport \in OverTcp \cup OverSsl \cup {NULL}
BY DEF OverTcp, OverSsl, NULL, transport, transport_list_get_transport

LEMMA DownIsClean ==
    ASSUME HandleInv, ~ssl.ssl_initialized, ~sock
    PROVE  Clean
BY DEF HandleInv, Clean

(* The handles after a close, whatever was open.                           *)
LEMMA CleanupCleans ==
    ASSUME HandleInv, ssl_cleanup
    PROVE  ~client_fd' /\ contexts' = {} /\ ssl' = FlagsDown
BY DEF HandleInv, ssl_cleanup, sslVars

LEMMA CloseCleans ==
    ASSUME ConnectionType, HandleInv, transport_close
    PROVE  Clean' /\ ~lost'
<1>1. CASE transport \in OverTcp /\ tcp_close
  BY <1>1, Schemes DEF tcp_close, sslVars, HandleInv, Clean
<1>2. CASE transport \in OverSsl /\ ssl_close
  BY <1>2, Schemes, CleanupCleans DEF ssl_close, HandleInv, Clean
<1>3. CASE transport = NULL /\ UNCHANGED <<tcpVars, sslVars, lost>>
  BY <1>3, Schemes DEF tcpVars, sslVars, HandleInv, Clean
<1> QED BY <1>1, <1>2, <1>3 DEF transport_close

(* What a step of a task leaves behind, if it found the handles as they    *)
(* should be.                                                              *)
Kept(t) == /\ HandleInv' /\ PlaceInv(t)'
           /\ ~Holds(t)' => Clean'

LEMMA OnwardStep ==
    ASSUME TypeOK, TaskType, NEW t \in Tasks, NEW ok, NEW step, Onward(t, ok, step)
    PROVE  \/ task'[t] = step /\ ret'[t] = 0 /\ ok
           \/ task'[t] = "exit" /\ ret'[t] = -1
BY DEF TypeOK, TaskType, Onward, Return, Goto

LEMMA ConnectedStep ==
    ASSUME TypeOK, TaskType, NEW t \in Tasks, NEW value, Connected(t, value)
    PROVE  task'[t] \in {"upgrade", "connected"} /\ ret'[t] = value
BY DEF TypeOK, TaskType, Connected, Return, Goto

LEMMA HoldTask ==
    ASSUME TypeOK, TaskType, NEW t \in Tasks, esp_mqtt_task(t),
           HandleInv, PlaceInv(t), ~Holds(t) => Clean
    PROVE  Kept(t)
<1>1. UNCHANGED config /\ transport' = transport
  BY DEF esp_mqtt_task, transport, transport_list_get_transport
<1>2. ConnectionType
  BY DEF TypeOK, ConnectionType, SslFlags
<1>3. Abort(t) \/ Close(t) => Kept(t)
  <2>1. transport_close => Clean' /\ HandleInv'
    BY <1>2, CloseCleans, Flags DEF HandleInv, Clean
  <2>2. task'[t] \in {"loop", "stopped"} => PlaceInv(t)'
    BY DEF PlaceInv
  <2> QED BY <2>1, <2>2 DEF Abort, Close, Goto, Kept, TaskType
<1>4. CASE Begin(t) \/ Lookup(t) \/ Reset(t) \/ Clear(t) \/ SetStopped(t)
  BY <1>1, <1>4 DEF Begin, Lookup, Reset, Clear, SetStopped, Goto, TaskType, connection, tcpVars, sslVars,
     Kept, HandleInv, PlaceInv, Holds, Clean, Owned
<1>5. CASE Turn(t)
  BY <1>1, <1>5 DEF Turn, Goto, TaskType, connection, tcpVars, sslVars,
     Kept, HandleInv, PlaceInv, Holds, Clean, Owned
<1>6. CASE ConnectNothing(t) \/ MqttConnect(t) \/ Receive(t) \/ Close(t)
  BY <1>1, <1>3, <1>6 DEF ConnectNothing, MqttConnect, Receive, Goto, TaskType, connection, tcpVars, sslVars,
     Kept, HandleInv, PlaceInv, Holds, Clean, Owned
<1>7. CASE TcpSocket(t) \/ TcpConnect(t)
  <2>1. transport \in OverTcp /\ transport \notin OverSsl /\ ~ssl.ssl_initialized
    BY <1>7, Schemes DEF TcpSocket, TcpConnect, PlaceInv, HandleInv
  <2>2. UNCHANGED <<ssl, client_fd, contexts>>
    BY <1>7 DEF TcpSocket, TcpConnect, sslVars
  <2>3. ~lost'
    <3>1. ~lost
      BY DEF HandleInv
    <3>2. CASE TcpSocket(t)
      <4>1. ~sock
        BY <3>2 DEF TcpSocket, Holds, Clean
      <4> QED BY <3>1, <3>2, <4>1 DEF TcpSocket, resolve_fails, socket
    <3>3. CASE TcpConnect(t)
      BY <3>1, <3>3 DEF TcpConnect, connect
    <3> QED BY <1>7, <3>2, <3>3
  <2>5. \/ task'[t] = "tcp_connect"
        \/ task'[t] \in {"upgrade", "connected"} /\ (ret'[t] = 0 => sock')
    <3>1. Goto(t, "tcp_connect") => task'[t] = "tcp_connect"
      BY DEF Goto, TaskType
    <3>2. Connected(t, -1) => task'[t] \in {"upgrade", "connected"} /\ ret'[t] # 0
      BY ConnectedStep
    <3>3. Connected(t, 0) => task'[t] \in {"upgrade", "connected"}
      BY ConnectedStep
    <3>4. CASE TcpSocket(t)
      BY <3>1, <3>2, <3>4 DEF TcpSocket
    <3>5. CASE TcpConnect(t)
      BY <3>2, <3>3, <3>5 DEF TcpConnect, connect
    <3> QED BY <1>7, <3>4, <3>5
  <2>4. HandleInv'
    BY <1>1, <2>1, <2>2, <2>3 DEF HandleInv, Owned
  <2> QED BY <1>1, <2>1, <2>4, <2>5 DEF Kept, PlaceInv, Holds, Open
<1>8. CASE WsUpgrade(t)
  <2>1. UNCHANGED <<sock, ssl, client_fd, contexts, lost>>
    BY <1>8 DEF WsUpgrade, connection, tcpVars, sslVars
  <2>2. task'[t] = "connected" /\ (ret'[t] = 0 => Open)
    BY <1>8 DEF WsUpgrade, Return, Goto, TypeOK, TaskType
  <2> QED BY <1>1, <2>1, <2>2 DEF Kept, HandleInv, PlaceInv, Holds, Owned, Open
<1>9. CASE SslBegin(t)
  <2>1. /\ transport \in OverSsl /\ Clean /\ UNCHANGED <<sock, client_fd>>
        /\ contexts' = BaseContexts /\ ~lost'
        /\ ssl' = [ssl EXCEPT !.ssl_initialized = TRUE]
    BY <1>9 DEF SslBegin, ssl_init, Hold, tcpVars, HandleInv, Holds, Clean
  <2>4. task'[t] = "server_cert" \/ (task'[t] = "exit" /\ ret'[t] = -1)
    BY <1>9, OnwardStep DEF SslBegin
  <2>2. /\ ssl'.ssl_initialized /\ ~ssl'.verify_server /\ ~ssl'.mutual_authentication
    BY <2>1, Flags DEF Clean, SslFlags
  <2>3. HandleInv'
    BY <1>1, <2>1, <2>2, Schemes DEF Clean, HandleInv, Owned
  <2> QED BY <1>1, <2>1, <2>2, <2>3, <2>4 DEF Kept, PlaceInv, Clean, Holds
<1>10. CASE SslServerCert(t)
  <2>1. /\ transport \in OverSsl /\ ~ssl.verify_server /\ ~ssl.mutual_authentication /\ ~client_fd
        /\ UNCHANGED sock /\ ssl.ssl_initialized
    BY <1>10 DEF SslServerCert, tcpVars, PlaceInv
  <2>4. task'[t] = "client_cert" \/ (task'[t] = "exit" /\ ret'[t] = -1)
    BY <1>10, OnwardStep DEF SslServerCert
  <2>2. CASE UNCHANGED <<sslVars, lost>>
    BY <1>1, <2>1, <2>2, <2>4 DEF sslVars, Kept, HandleInv, PlaceInv, Owned, Holds
  <2>3. CASE /\ Hold(ServerContexts) /\ UNCHANGED client_fd
             /\ ssl' = [ssl EXCEPT !.verify_server = TRUE]
    <3>1. ssl'.ssl_initialized /\ ssl'.verify_server /\ ~ssl'.mutual_authentication
      BY <2>1, <2>3 DEF TypeOK
    <3>2. /\ contexts = BaseContexts /\ contexts' = BaseContexts \cup ServerContexts
          /\ ~lost'
      BY <2>1, <2>3 DEF HandleInv, Hold, Owned,
         BaseContexts, ServerContexts, ClientContexts
    <3>3. HandleInv'
      BY <1>1, <2>1, <2>3, <3>1, <3>2, Schemes DEF HandleInv, Owned
    <3> QED BY <1>1, <2>1, <2>3, <2>4, <3>1, <3>3 DEF Kept, PlaceInv, Holds
  <2> QED BY <1>10, <2>2, <2>3 DEF SslServerCert, ssl_server_cert
<1>11. CASE SslClientCert(t)
  <2>1. /\ transport \in OverSsl /\ ~ssl.mutual_authentication /\ ~client_fd /\ ssl.ssl_initialized
        /\ UNCHANGED sock
    BY <1>11 DEF SslClientCert, tcpVars, PlaceInv
  <2>4. \/ task'[t] = "ssl_setup"
        \/ task'[t] = "exit" /\ (config.client # "half" => ret'[t] = -1)
    <3>1. config.client = "half" /\ Return(t, "exit", 0) => task'[t] = "exit"
      BY DEF Return, Goto, TaskType
    <3> QED BY <1>11, <3>1, OnwardStep DEF SslClientCert
  <2>2. CASE UNCHANGED <<sslVars, lost>>
    BY <1>1, <2>1, <2>2, <2>4 DEF sslVars, Kept, HandleInv, PlaceInv, Owned, Holds
  <2>3. CASE /\ Hold(ClientContexts) /\ UNCHANGED client_fd
             /\ ssl' = [ssl EXCEPT !.mutual_authentication = TRUE]
    <3>1. /\ ssl'.ssl_initialized /\ ssl'.mutual_authentication
          /\ ssl'.verify_server = ssl.verify_server
      BY <2>1, <2>3 DEF TypeOK
    <3>2. contexts' = contexts \cup ClientContexts /\ ~lost'
      BY <2>1, <2>3 DEF HandleInv, Hold, Owned,
         BaseContexts, ServerContexts, ClientContexts
    <3>3. HandleInv'
      BY <1>1, <2>1, <2>3, <3>1, <3>2, Schemes DEF HandleInv, Owned
    <3> QED BY <1>1, <2>1, <2>3, <2>4, <3>1, <3>3 DEF Kept, PlaceInv, Holds
  <2> QED BY <1>11, <2>2, <2>3 DEF SslClientCert, ssl_client_cert
<1>12. CASE SslConnect(t)
  <2>1. /\ transport \in OverSsl /\ ssl.ssl_initialized /\ UNCHANGED <<sock, ssl, contexts>> /\ ~lost'
    <3>1. transport \in OverSsl /\ ssl.ssl_initialized /\ ~client_fd /\ ~lost /\ UNCHANGED sock
      BY <1>12 DEF SslConnect, tcpVars, HandleInv, PlaceInv
    <3>2. CASE UNCHANGED <<sslVars, lost>>
      BY <3>1, <3>2 DEF sslVars
    <3>3. CASE \E accepted \in BOOLEAN : ssl_net_connect(accepted)
      BY <3>1, <3>3 DEF ssl_net_connect
    <3> QED BY <1>12, <3>1, <3>2, <3>3 DEF SslConnect
  <2>3. \/ task'[t] = "exit" /\ ret'[t] = -1
        \/ task'[t] = "handshake" /\ client_fd'
    BY <1>12, OnwardStep DEF SslConnect, ssl_net_connect
  <2>2. HandleInv'
    BY <1>1, <2>1, Schemes DEF HandleInv, Owned
  <2> QED BY <1>1, <2>1, <2>2, <2>3 DEF Kept, PlaceInv, Holds
<1>13. CASE SslHandshake(t)
  <2>1. /\ transport \in OverSsl /\ client_fd /\ ssl.ssl_initialized
        /\ UNCHANGED <<sock, ssl, contexts, client_fd, lost>>
    BY <1>13 DEF SslHandshake, connection, tcpVars, sslVars, PlaceInv
  <2>3. \/ task'[t] = "exit" /\ ret'[t] = -1
        \/ task'[t] \in {"upgrade", "connected"}
    BY <1>13, OnwardStep, ConnectedStep DEF SslHandshake
  <2>2. HandleInv'
    BY <1>1, <2>1, Schemes DEF HandleInv, Owned
  <2> QED BY <1>1, <2>1, <2>2, <2>3 DEF Kept, PlaceInv, Holds, Open
<1>14. CASE SslExit(t)
  <2>1. /\ ssl_cleanup /\ UNCHANGED <<sock, lost>> /\ transport \in OverSsl
        /\ ret[t] = 0 => config.client = "half"
    BY <1>14 DEF SslExit, ssl_close, PlaceInv
  <2>4. task'[t] \in {"upgrade", "connected"} /\ ret'[t] = ret[t]
    BY <1>14, ConnectedStep DEF SslExit
  <2>2. Clean'
    BY <2>1, CleanupCleans, Schemes DEF Clean, HandleInv
  <2>3. HandleInv'
    BY <2>1, <2>2, Flags DEF Clean, HandleInv
  <2> QED BY <1>1, <2>1, <2>2, <2>3, <2>4 DEF Kept, PlaceInv
<1> QED BY <1>4, <1>5, <1>6, <1>7, <1>8, <1>9, <1>10, <1>11, <1>12, <1>13, <1>14
        DEF esp_mqtt_task, transport_connect

LEMMA HoldStep == TypeOK /\ TaskType /\ OneInv /\ HoldInv /\ [Next]_vars => HoldInv'
<1> SUFFICES ASSUME TypeOK, TaskType, OneInv, HoldInv, [Next]_vars, ~hasty' PROVE HoldInv'
  BY DEF HoldInv
<1>1. ~hasty
  BY DEF Next, Application, esp_mqtt_client_init, InitFails, esp_mqtt_client_start, StopRunning,
     StopReturn, esp_mqtt_client_destroy, esp_mqtt_task, vars
<1>2. /\ HandleInv /\ \A t \in Tasks : PlaceInv(t)
      /\ (\A t \in Tasks : ~Holds(t)) => Clean
  BY <1>1 DEF HoldInv
<1>3. \A t \in Tasks : Holds(t) \/ task[t] = "receive" => Runs(t) /\ task[t] \notin BeforeLoop
  BY DEF Holds, Runs, BeforeLoop
<1>4. ASSUME UNCHANGED <<config, connection, ret>>,
             \A t \in Tasks : task'[t] = task[t] \/ (task[t] = "none" /\ task'[t] = "begin"),
             UNCHANGED state \/ \A t \in Tasks : Runs(t) => task[t] \in BeforeLoop
      PROVE  HoldInv'
  <2>1. UNCHANGED <<sock, ssl, client_fd, contexts, lost>> /\ transport' = transport
    BY <1>4 DEF connection, tcpVars, sslVars, transport, transport_list_get_transport
  <2>2. HandleInv' /\ (Clean => Clean')
    BY <1>2, <2>1 DEF HandleInv, Owned, Clean
  <2>3. \A t \in Tasks : PlaceInv(t)'
    <3> TAKE t \in Tasks
    <3>1. CASE task'[t] = task[t]
      BY <1>2, <1>3, <1>4, <2>1, <3>1 DEF PlaceInv, Open
    <3>2. CASE task'[t] = "begin"
      BY <3>2 DEF PlaceInv
    <3> QED BY <1>4, <3>1, <3>2
  <2>4. \A t \in Tasks : Holds(t) => Holds(t)'
    BY <1>3, <1>4 DEF Holds, BeforeLoop
  <2> QED BY <1>2, <2>2, <2>3, <2>4 DEF HoldInv
<1>5. CASE esp_mqtt_client_init \/ InitFails \/ StopRunning
  BY <1>4, <1>5 DEF esp_mqtt_client_init, InitFails, StopRunning, firmware, clientVars
<1>6. CASE esp_mqtt_client_start
  BY <1>4, <1>6 DEF esp_mqtt_client_start, Goto, TaskType, firmware, clientVars
<1>7. CASE StopReturn
  <2>1. \A t \in Tasks : Runs(t) => task[t] \in BeforeLoop
    BY <1>1, <1>7 DEF StopReturn, OneInv
  <2> QED BY <1>4, <1>7, <2>1 DEF StopReturn, firmware
<1>8. CASE esp_mqtt_client_destroy
  <2>1. UNCHANGED <<config, task>> /\ transport' = transport
    BY <1>8 DEF esp_mqtt_client_destroy, transport, transport_list_get_transport
  <2>2. \A t \in Tasks : ~Runs(t)
    BY <1>1, <1>8 DEF esp_mqtt_client_destroy, OneInv
  <2>3. Clean' /\ ~lost'
    BY <1>2, <1>8, CleanupCleans DEF esp_mqtt_client_destroy, transport_list_destroy, HandleInv, Clean
  <2>4. HandleInv'
    BY <2>3, Flags DEF Clean, HandleInv
  <2>5. \A t \in Tasks : PlaceInv(t)'
    BY <2>1, <2>2 DEF PlaceInv, Runs
  <2> QED BY <2>3, <2>4, <2>5 DEF HoldInv
<1>9. ASSUME NEW t \in Tasks, esp_mqtt_task(t) PROVE HoldInv'
  <2>1. Moves(t)
    BY <1>9, TaskMoves
  <2>2. \A u \in Tasks \ {t} : ~Runs(u) /\ ~Runs(u)'
    BY <1>1, <2>1 DEF Moves, OneInv, Runs
  <2>3. ~Holds(t) => Clean
    BY <1>2, <1>3, <2>2
  <2>4. Kept(t)
    BY <1>2, <1>9, <2>3, HoldTask
  <2>5. \A u \in Tasks \ {t} : PlaceInv(u)'
    BY <2>2 DEF PlaceInv, Runs
  <2> QED BY <2>4, <2>5 DEF Kept, HoldInv
<1>10. CASE UNCHANGED vars
  BY <1>4, <1>10 DEF vars, transportVars, clientVars, connection
<1> QED BY <1>5, <1>6, <1>7, <1>8, <1>9, <1>10 DEF Next, Application
-----------------------------------------------------------------------------
LEMMA InitInv == Init => OneInv /\ HoldInv
<1> SUFFICES ASSUME Init PROVE OneInv /\ HoldInv
  OBVIOUS
<1>1. \A t \in Tasks : task[t] = "none"
  BY DEF Init
<1>2. OneInv
  BY <1>1 DEF Init, OneInv, Runs
<1>3. HandleInv /\ Clean
  BY Flags DEF Init, TransportInit, HandleInv, Clean
<1>4. \A t \in Tasks : PlaceInv(t)
  BY <1>1 DEF PlaceInv
<1> QED BY <1>2, <1>3, <1>4 DEF HoldInv

THEOREM Invariant == Spec => [](TypeOK /\ TaskType /\ OneInv /\ HoldInv)
BY InitType, InitInv, TypeStep, OneStep, HoldStep, PTL DEF Spec

(* However often a client is started and stopped again, no two tasks use   *)
(* it at a time, and none uses it when it is freed.                        *)
THEOREM OneTaskAtATime == Spec => []OneTask
<1>1. ASSUME OneInv PROVE OneTask
  <2> SUFFICES ASSUME ~hasty PROVE Cardinality(Running) <= IF client = "freed" THEN 0 ELSE 1
    BY DEF OneTask
  <2>1. Running = {t \in Tasks : Runs(t)}
    BY DEF Running, Runs
  <2>2. CASE Running = {}
    BY <2>2, FS_EmptySet
  <2>3. ASSUME NEW t \in Running PROVE Cardinality(Running) = 1 /\ client # "freed"
    <3>1. Running = {t} /\ client = "live"
      BY <1>1, <2>1, <2>3 DEF OneInv
    <3> QED BY <3>1, FS_Singleton
  <2> QED BY <2>2, <2>3
<1> QED BY <1>1, Invariant, PTL

(* Wherever an attempt to connect fails, nothing is left for the next one  *)
(* to overwrite, and destroy leaves nothing.                               *)
THEOREM NoLeak == Spec => []NothingLeaks
<1>1. ASSUME OneInv, HoldInv PROVE NothingLeaks
  <2> SUFFICES ASSUME ~hasty PROVE ~lost /\ (client = "freed" => Clean)
    BY DEF NothingLeaks, Clean
  <2>1. client = "freed" => \A t \in Tasks : ~Holds(t)
    BY <1>1 DEF OneInv, Runs, Holds
  <2> QED BY <1>1, <2>1 DEF HoldInv, HandleInv
<1> QED BY <1>1, Invariant, PTL

(* A connect that has returned 0 has made a connection.                    *)
THEOREM ConnectedIsOpen == Spec => []SuccessIsConnection
<1>1. ASSUME HoldInv PROVE SuccessIsConnection
  BY <1>1 DEF HoldInv, PlaceInv, SuccessIsConnection
<1> QED BY <1>1, Invariant, PTL
=============================================================================
