----------------------- MODULE MCPersistentConnection -----------------------
(* One task of each kind on a client that may reconnect once.               *)
EXTENDS PersistentConnection, TLC

CONSTANTS t1, t2, t3

OpOf == t1 :> "call" @@ t2 :> "add" @@ t3 :> "remove"
=============================================================================
