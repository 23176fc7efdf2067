------------------------------ MODULE Lifecycle ------------------------------
(***************************************************************************)
(* mqtt_client.c: a client made, started, stopped, started again and       *)
(* destroyed by an application, and esp_mqtt_task, which runs beside it    *)
(* and connects, fails and connects again meanwhile.  They share the       *)
(* client's run flag and state and one event bit, STOPPED_BIT, without a   *)
(* lock.  What passes over a connection is left to MqttClient.             *)
(***************************************************************************)
EXTENDS Transports, FiniteSets

CONSTANTS Tasks,    \* one for each esp_mqtt_client_start: a bound
          Configs   \* what the client may be configured with

VARIABLES client,   \* "none", "live", "freed"
          run, state, STOPPED_BIT,
          app,      \* the call the application is in, if any
          task,     \* where each task is
          ret,      \* what its transport_connect is going to return
          hasty     \* a task was started or stopped before the one created
                    \* last had reached its loop, or there was none to stop

clientVars == <<client, run, state, STOPPED_BIT>>
vars == <<transportVars, clientVars, app, task, ret, hasty>>

connection == <<tcpVars, sslVars, lost>>

Init == /\ config \in Configs /\ TransportInit
        /\ client = "none" /\ run = FALSE /\ state = "UNKNOWN" /\ STOPPED_BIT = FALSE
        /\ app = "idle"
        /\ task = [t \in Tasks |-> "none"] /\ ret = [t \in Tasks |-> 0]
        /\ hasty = FALSE

Goto(t, step) == task' = [task EXCEPT ![t] = step]

Return(t, step, value) == Goto(t, step) /\ ret' = [ret EXCEPT ![t] = value]
-----------------------------------------------------------------------------
(* esp_mqtt_task, up to its loop.                                          *)
Begin(t) == /\ task[t] = "begin"
            /\ run' = TRUE
            /\ Goto(t, "lookup")
            /\ UNCHANGED <<connection, state, STOPPED_BIT, ret>>

(* Mutant of Lookup: a task without a transport ends at once.              *)
LookupOrEnd(t) == /\ task[t] = "lookup"
                  /\ run' = (run /\ transport # NULL)
                  /\ Goto(t, IF transport = NULL THEN "ended" ELSE "reset")
                  /\ UNCHANGED <<connection, state, STOPPED_BIT, ret>>

Lookup(t) == /\ task[t] = "lookup"
             /\ run' = (run /\ transport # NULL)
             /\ Goto(t, "reset")
             /\ UNCHANGED <<connection, state, STOPPED_BIT, ret>>

Reset(t) == /\ task[t] = "reset"
            /\ state' = "INIT"
            /\ Goto(t, "clear")
            /\ UNCHANGED <<connection, run, STOPPED_BIT, ret>>

(* Mutant of Clear: the bit of an earlier stop stays.                      *)
ClearNothing(t) == /\ task[t] = "clear"
                   /\ Goto(t, "loop")
                   /\ UNCHANGED <<connection, run, state, STOPPED_BIT, ret>>

Clear(t) == /\ task[t] = "clear"
            /\ STOPPED_BIT' = FALSE
            /\ Goto(t, "loop")
            /\ UNCHANGED <<connection, run, state, ret>>

(* One turn: while (run), switch (state).  In MQTT_STATE_UNKNOWN it spins. *)
Turn(t) ==
    /\ task[t] = "loop"
    /\ \/ ~run /\ Goto(t, "close") /\ UNCHANGED <<run, state>>
       \/ run /\ state = "INIT" /\ Goto(t, "connect") /\ UNCHANGED <<run, state>>
       \/ run /\ state = "CONNECTED" /\ Goto(t, "receive") /\ UNCHANGED <<run, state>>
       \/ /\ run /\ state = "WAIT_TIMEOUT" /\ config.auto_reconnect
          /\ state' = "INIT"
          /\ UNCHANGED <<run, task>>
       \/ /\ run /\ state = "WAIT_TIMEOUT" /\ ~config.auto_reconnect
          /\ run' = FALSE
          /\ UNCHANGED <<state, task>>
    /\ UNCHANGED <<connection, STOPPED_BIT, ret>>

(* Mutant of Abort: the state that mqtt_client_state_t has for errors.     *)
AbortInError(t) == /\ transport_close
                   /\ state' = "ERROR"
                   /\ Goto(t, "loop")

(* esp_mqtt_abort_connection; the application hears MQTT_EVENT_DISCONNECTED*)
Abort(t) == /\ transport_close
            /\ state' = "WAIT_TIMEOUT"
            /\ Goto(t, "loop")
-----------------------------------------------------------------------------
(* transport_connect.                                                      *)

(* What follows the connect of tcp or ssl: the upgrade of a web socket,    *)
(* whatever was returned to it, or esp_mqtt_task.                          *)
Connected(t, value) ==
    Return(t, IF transport \in WebSockets THEN "upgrade" ELSE "connected", value)

ConnectNothing(t) == /\ task[t] = "connect" /\ transport = NULL
                     /\ run' = FALSE
                     /\ Abort(t)
                     /\ UNCHANGED <<STOPPED_BIT, ret>>

TcpSocket(t) == /\ task[t] = "connect" /\ transport \in OverTcp
                /\ \/ resolve_fails /\ Connected(t, -1)
                   \/ socket(FALSE) /\ Connected(t, -1)
                   \/ socket(TRUE) /\ Goto(t, "tcp_connect") /\ UNCHANGED ret
                /\ UNCHANGED <<run, state, STOPPED_BIT, sslVars>>

TcpConnect(t) == /\ task[t] = "tcp_connect"
                 /\ \/ connect(TRUE) /\ Connected(t, 0)
                    \/ connect(FALSE) /\ Connected(t, -1)
                 /\ UNCHANGED <<run, state, STOPPED_BIT, sslVars>>

(* A step of ssl_connect that goes on or jumps to exit with an error.      *)
Onward(t, ok, step) == IF ok THEN Return(t, step, 0) ELSE Return(t, "exit", -1)

SslBegin(t) == /\ task[t] = "connect" /\ transport \in OverSsl
               /\ ssl_init
               /\ \E seeded \in BOOLEAN : Onward(t, seeded, "server_cert")
               /\ UNCHANGED <<run, state, STOPPED_BIT, tcpVars>>

SslServerCert(t) == /\ task[t] = "server_cert"
                    /\ \E parsed \in BOOLEAN :
                         /\ ssl_server_cert(parsed)
                         /\ Onward(t, parsed \/ ~config.cert, "client_cert")
                    /\ UNCHANGED <<run, state, STOPPED_BIT, tcpVars>>

(* A certificate without its key, or the other way round, is an error, and *)
(* the jump to exit takes along the 0 that the call before has returned.   *)
SslClientCert(t) == /\ task[t] = "client_cert"
                    /\ ssl_client_cert
                    /\ \/ config.client = "none" /\ Onward(t, TRUE, "ssl_setup")
                       \/ config.client = "half" /\ Return(t, "exit", 0)
                       \/ /\ config.client = "both"
                          /\ \E parsed \in BOOLEAN : Onward(t, parsed, "ssl_setup")
                    /\ UNCHANGED <<run, state, STOPPED_BIT, tcpVars>>

SslConnect(t) == /\ task[t] = "ssl_setup"
                 /\ \/ UNCHANGED <<sslVars, lost>> /\ Onward(t, FALSE, "handshake")
                    \/ \E accepted \in BOOLEAN : /\ ssl_net_connect(accepted)
                                                 /\ Onward(t, accepted, "handshake")
                 /\ UNCHANGED <<run, state, STOPPED_BIT, tcpVars>>

(* Mutant of SslHandshake: a handshake that fails is not an error.         *)
SslHandshakeIgnored(t) == /\ task[t] = "handshake"
                          /\ \/ Connected(t, 0)
                             \/ Return(t, "exit", 0)
                          /\ UNCHANGED <<run, state, STOPPED_BIT, connection>>

(* The descriptor had no time-out set when there was one to set it for: a  *)
(* server that stays silent holds the task here.  A certificate that does  *)
(* not verify fails the handshake where it is required to; the jump to     *)
(* exit behind it, with the 0 of the handshake, is then never taken.       *)
SslHandshake(t) == /\ task[t] = "handshake"
                   /\ \/ Connected(t, 0)
                      \/ Onward(t, FALSE, "exit")
                   /\ UNCHANGED <<run, state, STOPPED_BIT, connection>>

SslExit(t) == /\ task[t] = "exit"
              /\ ssl_close
              /\ Connected(t, ret[t])
              /\ UNCHANGED <<run, state, STOPPED_BIT>>

(* ws_connect does not return when its parent could not connect; its first *)
(* write fails then.  A refused upgrade leaves the parent open.            *)
WsUpgrade(t) == /\ task[t] = "upgrade"
                /\ \/ Open /\ Return(t, "connected", 0)
                   \/ Return(t, "connected", -1)
                /\ UNCHANGED <<run, state, STOPPED_BIT, connection>>

transport_connect(t) == \/ ConnectNothing(t) \/ TcpSocket(t) \/ TcpConnect(t)
                        \/ SslBegin(t) \/ SslServerCert(t) \/ SslClientCert(t)
                        \/ SslConnect(t) \/ SslHandshake(t) \/ SslExit(t) \/ WsUpgrade(t)
-----------------------------------------------------------------------------
(* The rest of the loop, and the end.                                      *)
MqttConnect(t) == /\ task[t] = "connected"
                  /\ \/ /\ ret[t] = 0 /\ Open
                        /\ state' = "CONNECTED"
                        /\ Goto(t, "loop")
                        /\ UNCHANGED connection
                     \/ Abort(t)
                  /\ UNCHANGED <<run, STOPPED_BIT, ret>>

Receive(t) == /\ task[t] = "receive"
              /\ \/ Open /\ Goto(t, "loop") /\ UNCHANGED <<connection, state>>
                 \/ Abort(t)
              /\ UNCHANGED <<run, STOPPED_BIT, ret>>

Close(t) == /\ task[t] = "close"
            /\ transport_close
            /\ Goto(t, "stopped")
            /\ UNCHANGED <<run, state, STOPPED_BIT, ret>>

SetStopped(t) == /\ task[t] = "stopped"
                 /\ STOPPED_BIT' = TRUE
                 /\ Goto(t, "ended")
                 /\ UNCHANGED <<run, state, connection, ret>>

esp_mqtt_task(t) == /\ client = "live"
                    /\ \/ Begin(t) \/ Lookup(t) \/ Reset(t) \/ Clear(t)
                       \/ Turn(t) \/ transport_connect(t) \/ MqttConnect(t) \/ Receive(t)
                       \/ Close(t) \/ SetStopped(t)
                    /\ UNCHANGED <<config, client, app, hasty>>
-----------------------------------------------------------------------------
(* The application.                                                        *)
firmware == <<config, connection, ret>>

BeforeLoop == {"begin", "lookup", "reset", "clear"}

Settled == \A t \in Tasks : task[t] \notin BeforeLoop

esp_mqtt_client_init == /\ client = "none" /\ app = "idle"
                        /\ client' = "live"
                        /\ UNCHANGED <<firmware, run, state, STOPPED_BIT, app, task, hasty>>

(* A URI that does not parse: the client is destroyed before it has its    *)
(* event group, and stop waits on a null handle.                           *)
InitFails == /\ client = "none" /\ app = "idle"
             /\ app' = "panic"
             /\ UNCHANGED <<firmware, clientVars, task, hasty>>

esp_mqtt_client_start == /\ client = "live" /\ app = "idle"
                         /\ state = "UNKNOWN"
                         /\ \E t \in Tasks : task[t] = "none" /\ Goto(t, "begin")
                         /\ hasty' = (hasty \/ ~Settled)
                         /\ UNCHANGED <<firmware, clientVars, app>>

(* esp_mqtt_client_stop, alone or as the first call of destroy.            *)
StopRunning == /\ client = "live" /\ app = "idle"
               /\ app' \in {"stop", "destroy"}
               /\ run' = FALSE
               /\ hasty' = (hasty \/ ~Settled \/ \A t \in Tasks : task[t] = "none")
               /\ UNCHANGED <<firmware, client, state, STOPPED_BIT, task>>

StopReturn == /\ app \in {"stop", "destroy"} /\ STOPPED_BIT
              /\ state' = "UNKNOWN"
              /\ app' = IF app = "stop" THEN "idle" ELSE "free"
              /\ UNCHANGED <<firmware, client, run, STOPPED_BIT, task, hasty>>

esp_mqtt_client_destroy == /\ app = "free"
                           /\ transport_list_destroy
                           /\ client' = "freed"
                           /\ app' = "done"
                           /\ UNCHANGED <<config, run, state, STOPPED_BIT, task, ret, hasty>>

Application == \/ esp_mqtt_client_init \/ InitFails \/ esp_mqtt_client_start
               \/ StopRunning \/ StopReturn \/ esp_mqtt_client_destroy

Next == Application \/ \E t \in Tasks : esp_mqtt_task(t)

Spec == Init /\ [][Next]_vars
-----------------------------------------------------------------------------
(* mbedtls_ssl_read and the handshake have no time-out.  Over TLS a peer   *)
(* that says nothing, or stops in the middle of a record, holds the task   *)
(* wherever it reads: in the handshake, for the answer to the upgrade of a *)
(* web socket, for CONNACK, or in its loop.  Without a connection these    *)
(* calls fail at once.                                                     *)
Silent(t) == /\ transport \in OverSsl
             /\ \/ task[t] = "handshake"
                \/ task[t] \in {"upgrade", "connected"} /\ ret[t] = 0 /\ Open
                \/ task[t] = "receive" /\ Open

Fairness == /\ \A t \in Tasks : WF_vars(esp_mqtt_task(t) /\ ~Silent(t))
            /\ WF_vars(StopReturn)

FairSpec == Spec /\ Fairness
-----------------------------------------------------------------------------
(* The types.                                                              *)
TypeOK == /\ config \in Configs
          /\ sock \in BOOLEAN /\ client_fd \in BOOLEAN /\ lost \in BOOLEAN
          /\ ssl \in [ssl_initialized : BOOLEAN, verify_server : BOOLEAN,
                     mutual_authentication : BOOLEAN]
          /\ contexts \subseteq BaseContexts \cup ServerContexts \cup ClientContexts
          /\ client \in {"none", "live", "freed"} /\ run \in BOOLEAN /\ STOPPED_BIT \in BOOLEAN
          /\ state \in {"UNKNOWN", "INIT", "CONNECTED", "WAIT_TIMEOUT"}
          /\ app \in {"idle", "stop", "destroy", "free", "done", "panic"}
          /\ ret \in [Tasks -> {-1, 0}] /\ hasty \in BOOLEAN

Running == {t \in Tasks : task[t] \notin {"none", "ended"}}

(* STOPPED_BIT means what stop and destroy take it for: a client has one   *)
(* task at most, and none that still uses it when it is freed, unless the  *)
(* application starts or stops it before its task is in its loop.          *)
OneTask == ~hasty => Cardinality(Running) <= IF client = "freed" THEN 0 ELSE 1

(* However far an attempt to connect has come when it fails, the next one  *)
(* finds nothing that it would overwrite, and a client that is destroyed   *)
(* leaves no socket and no TLS context.                                    *)
NothingLeaks == ~hasty => /\ ~lost
                          /\ client = "freed" => ~sock /\ ~client_fd /\ contexts = {}

(* transport.h:126: transport_connect returns -1 if there are any errors,  *)
(* so that success means a connection.  Not with a client certificate that *)
(* has no key: see SslClientCert.                                          *)
SuccessIsConnection ==
    \A t \in Tasks : /\ task[t] = "connected" /\ ret[t] = 0
                     /\ config.client # "half" /\ ~hasty
                     => Open

(* stop and destroy come back, in whatever state they meet the task: only  *)
(* a peer that stays silent for ever over TLS holds them for ever.         *)
StopReturns == (app \in {"stop", "destroy"} /\ ~hasty)
                   ~> (app \notin {"stop", "destroy"} \/ \E t \in Tasks : []Silent(t))
=============================================================================
