----------------------------- MODULE MCSession ------------------------------
(***************************************************************************)
(* Small instances of Session and of Registry, which share no state: a     *)
(* behaviour is one of one of them, and the other stays as it starts.      *)
(***************************************************************************)
EXTENDS Session, Registry, TLC

CONSTANTS e1, e2

VARIABLE part

(* Two views of one space, which may have one hub, and one view each of two  *)
(* others; callers of two sockets, of which one may be open.                 *)
MCCallerOf == 1 :> "ann" @@ 2 :> "bob" @@ 3 :> "cyd" @@ 4 :> "bob" @@ 5 :> "ann"
MCViewOf == 1 :> "v" @@ 2 :> "w" @@ 3 :> "w" @@ 4 :> "x" @@ 5 :> "y"
MCSpaceOf == "v" :> "s" @@ "w" :> "s" @@ "x" :> "t" @@ "y" :> "r"

Symmetric == Permutations(Entities)

SocketsInit == Init /\ RegistryInit /\ part \in {"session", "registry"}

SocketsNext ==
    /\ UNCHANGED part
    /\ \/ part = "session" /\ Next /\ UNCHANGED registryVars
       \/ part = "registry" /\ RegistryNext /\ UNCHANGED vars

SocketsSpec == SocketsInit /\ [][SocketsNext]_<<part, vars, registryVars>>

=============================================================================
