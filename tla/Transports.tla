----------------------------- MODULE Transports ------------------------------
(***************************************************************************)
(* transport.c, transport_tcp.c, transport_ssl.c and transport_ws.c: what  *)
(* a connection is made of, how it is set up step by step and taken down   *)
(* again.  The handles live as long as the client; what they stand for,    *)
(* sockets and TLS contexts, is external: a handle that is overwritten     *)
(* while it holds something loses it.                                      *)
(***************************************************************************)
EXTENDS Integers

VARIABLES
    config,     \* of the client: scheme, cert, client ("none", "both" or
                \* "half" of certificate and key), auto_reconnect
    sock,       \* transport_tcp_t has a socket
    ssl,        \* the flags of transport_ssl_t
    client_fd,  \* transport_ssl_t has a socket
    contexts,   \* the contexts of transport_ssl_t that hold something
    lost        \* a socket or a context has been overwritten

tcpVars == <<sock>>
sslVars == <<ssl, client_fd, contexts>>
transportVars == <<config, tcpVars, sslVars, lost>>

NULL == "NULL"

OverTcp == {"mqtt", "ws"}
OverSsl == {"mqtts", "wss"}
WebSockets == {"ws", "wss"}

(* The handles that esp_mqtt_client_init puts into the list.               *)
transport_list_get_transport(scheme) ==
    IF scheme \in OverTcp \cup OverSsl THEN scheme ELSE NULL

transport == transport_list_get_transport(config.scheme)

FlagsDown == [ssl_initialized |-> FALSE, verify_server |-> FALSE, mutual_authentication |-> FALSE]

TransportInit == /\ sock = FALSE /\ client_fd = FALSE
                 /\ ssl = FlagsDown /\ contexts = {}
                 /\ lost = FALSE

(* There is something to write to.                                         *)
Open == \/ transport \in OverTcp /\ sock
        \/ transport \in OverSsl /\ client_fd
-----------------------------------------------------------------------------
(* tcp_connect.  The name is resolved and a socket made, or not: without a *)
(* name the old socket stays where it is, without a socket it is lost too. *)
resolve_fails == UNCHANGED <<sock, lost>>

socket(got) == /\ sock' = got
               /\ lost' = (lost \/ sock)

(* connect(): a socket that is refused is closed.                          *)
connect(accepted) == /\ sock' = accepted
                     /\ UNCHANGED lost

tcp_close == /\ sock' = FALSE
             /\ UNCHANGED <<sslVars, lost>>
-----------------------------------------------------------------------------
(* ssl_connect: the contexts are initialised in groups, and a flag says    *)
(* which of them ssl_close has to free.                                    *)
BaseContexts   == {"ctx", "ctr_drbg", "conf", "entropy"}
ServerContexts == {"cacert"}
ClientContexts == {"client_cert", "client_key"}

Hold(group) == /\ contexts' = contexts \cup group
               /\ lost' = (lost \/ contexts \cap group # {})

ssl_init == /\ Hold(BaseContexts)
            /\ ssl' = [ssl EXCEPT !.ssl_initialized = TRUE]
            /\ UNCHANGED client_fd

(* Mutant of ssl_server_cert: the flag is raised after the certificate has *)
(* been parsed, and not at all when it cannot be parsed.                   *)
ssl_server_cert_late(parsed) ==
    IF config.cert
    THEN /\ Hold(ServerContexts)
         /\ ssl' = [ssl EXCEPT !.verify_server = parsed]
         /\ UNCHANGED client_fd
    ELSE UNCHANGED <<sslVars, lost>>

ssl_server_cert(parsed) ==
    IF config.cert
    THEN /\ Hold(ServerContexts)
         /\ ssl' = [ssl EXCEPT !.verify_server = TRUE]
         /\ UNCHANGED client_fd
    ELSE UNCHANGED <<sslVars, lost>>

ssl_client_cert ==
    IF config.client = "both"
    THEN /\ Hold(ClientContexts)
         /\ ssl' = [ssl EXCEPT !.mutual_authentication = TRUE]
         /\ UNCHANGED client_fd
    ELSE UNCHANGED <<sslVars, lost>>

(* mbedtls_net_init clears the descriptor, mbedtls_net_connect sets it.    *)
ssl_net_connect(accepted) == /\ client_fd' = accepted
                             /\ lost' = (lost \/ client_fd)
                             /\ UNCHANGED <<ssl, contexts>>

(* What the flags say there is to free.                                    *)
Owned == BaseContexts \cup (IF ssl.verify_server THEN ServerContexts ELSE {})
                      \cup (IF ssl.mutual_authentication THEN ClientContexts ELSE {})

ssl_cleanup == IF ssl.ssl_initialized
               THEN /\ contexts' = contexts \ Owned
                    /\ client_fd' = FALSE
                    /\ ssl' = FlagsDown
               ELSE UNCHANGED sslVars

ssl_close == ssl_cleanup /\ UNCHANGED <<sock, lost>>
-----------------------------------------------------------------------------
(* ws_close closes the parent; no transport, nothing to close.             *)
transport_close == \/ transport \in OverTcp /\ tcp_close
                   \/ transport \in OverSsl /\ ssl_close
                   \/ transport = NULL /\ UNCHANGED <<tcpVars, sslVars, lost>>

(* transport_list_destroy: tcp and ssl close themselves, ws and wss leave  *)
(* their parents, which are in the list before them, alone.                *)
transport_list_destroy == sock' = FALSE /\ ssl_cleanup /\ UNCHANGED lost
=============================================================================
