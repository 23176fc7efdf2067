----------------------------- MODULE MCLifecycle -----------------------------
(* Lifecycle with every scheme, and the certificates where they are used.  *)
EXTENDS Lifecycle

Configurations ==
    {c \in [scheme : {"mqtt", "ws", "mqtts", "wss", "http"}, cert : BOOLEAN,
            client : {"none", "both", "half"}, auto_reconnect : BOOLEAN] :
        c.scheme \notin OverSsl => ~c.cert /\ c.client = "none"}
=============================================================================
