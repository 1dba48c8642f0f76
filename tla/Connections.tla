---------------------------- MODULE Connections ----------------------------
(***************************************************************************)
(* What the reactor promises for every client connection, free of epoll,   *)
(* queues and threads: a connection is served by at most one task at a     *)
(* time, a reply is written before the next request is read, and a         *)
(* connection is only closed while no task works on it.  WebServer         *)
(* implements this specification.                                          *)
(***************************************************************************)
EXTENDS Naturals, FiniteSets

CONSTANTS Fds,          \* descriptors a connection may have
          MaxClients    \* MAX_CLIENTS

VARIABLES phase,        \* phase[fd]: what the connection with this fd is doing
          down          \* the process has died

connVars == <<phase, down>>

Phase == {"free", "idle", "reading", "pending", "writing"}

ConnInit ==
    /\ phase = [fd \in Fds |-> "free"]
    /\ down = FALSE

Move(fd, from, to) ==
    /\ phase[fd] \in from
    /\ phase' = [phase EXCEPT ![fd] = to]

Active == {fd \in Fds : phase[fd] # "free"}

Open(fd) == Cardinality(Active) < MaxClients /\ Move(fd, {"free"}, "idle")
BeginRead(fd) == Move(fd, {"idle"}, "reading")
NoRequest(fd) == Move(fd, {"reading"}, "idle")
HaveReply(fd) == Move(fd, {"reading"}, "pending")
BeginWrite(fd) == Move(fd, {"pending"}, "writing")
Replied(fd) == Move(fd, {"writing"}, "idle")
HangUp(fd) == Move(fd, {"idle", "pending"}, "free")

\* Only a task can end the process.
Die ==
    /\ \E fd \in Fds : phase[fd] \in {"reading", "writing"}
    /\ down' = TRUE
    /\ UNCHANGED phase

ConnNext ==
    \/ /\ ~down /\ UNCHANGED down
       /\ \E fd \in Fds :
            \/ Open(fd) \/ BeginRead(fd) \/ NoRequest(fd) \/ HaveReply(fd)
            \/ BeginWrite(fd) \/ Replied(fd) \/ HangUp(fd)
    \/ ~down /\ Die

ConnSpec == ConnInit /\ [][ConnNext]_connVars
=============================================================================
