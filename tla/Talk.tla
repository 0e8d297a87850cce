--------------------------------- MODULE Talk ---------------------------------
(***************************************************************************)
(* What the talk servers of ch15 share: the clients, their connections and  *)
(* the table of clients.                                                    *)
(*                                                                          *)
(* The clients are ch15/talk_client1.c: they wait for the prompt, send a    *)
(* name, then lines, and may be closed by their user at any moment.  A      *)
(* client whose connection the server has closed is out, and may come back. *)
(*                                                                          *)
(* TCP.  up[c] holds what client c sent and the server has not read; one    *)
(* read returns one or more whole messages.  A line ends in a NUL byte, so  *)
(* of several lines read together only the first is seen; a login name has  *)
(* no NUL, so a line read together with it becomes part of the name         *)
(* (Joined).  A write to a connection its client has closed is answered     *)
(* with a reset, and a write to a reset connection may raise SIGPIPE, which *)
(* no server handles.                                                       *)
(***************************************************************************)
EXTENDS Integers, Sequences, FiniteSets
LOCAL INSTANCE Functions

CONSTANTS Clients,      \* client processes
          Names,        \* what users type, as login name or as a line
          MAX_CONNECT,  \* slots of the client table, and length of the backlog (10)
          MaxFd,        \* highest descriptor the process may have
          MaxInFlight,  \* bound of the model: unread messages, all clients together
          NoName,       \* the empty string
          Joined,       \* a login name with lines run into it
          Free          \* "no connection"

ServerFd == 3  \* server_sock_id: 0, 1 and 2 are open already

Fds == ServerFd + 1 .. MaxFd

Slots == 0 .. MAX_CONNECT - 1

NoFd == -1

ASSUME TalkAssumption ==
    /\ IsFiniteSet(Clients)
    /\ MAX_CONNECT \in Nat \ {0} /\ MaxInFlight \in Nat
    /\ MaxFd \in Nat /\ MaxFd >= ServerFd
    /\ NoName \notin Names /\ Joined \notin Names /\ NoName # Joined
    /\ Free \notin Clients

VARIABLES
  (* the clients and the network *)
  st,       \* st[c]: out, prompt, name, talk; closed, written, reset
  up,       \* up[c]: messages from c not yet read
  backlog,  \* connections not yet accepted
  owner,    \* owner[fd]: the client at the other end of fd, or Free
  (* the table *)
  clients_sock_fds, clients_name, clients_sock_map

network == <<st, up, backlog, owner>>
table == <<clients_sock_fds, clients_name, clients_sock_map>>

InitTalk ==
    /\ st = [c \in Clients |-> "out"]
    /\ up = [c \in Clients |-> << >>]
    /\ backlog = << >>
    /\ owner = [fd \in Fds |-> Free]
    /\ clients_sock_fds = [i \in Slots |-> NoFd]
    /\ clients_name = [i \in Slots |-> NoName]
    /\ clients_sock_map = [i \in Slots |-> NoFd]

TalkTypeOK ==
    /\ st \in [Clients -> {"out", "prompt", "name", "talk", "closed", "written", "reset"}]
    /\ up \in [Clients -> Seq(Names)]
    /\ backlog \in Seq(Clients) /\ Len(backlog) <= MAX_CONNECT
    /\ owner \in [Fds -> Clients \cup {Free}]
    /\ clients_sock_fds \in [Slots -> Fds \cup {NoFd}]
    /\ clients_name \in [Slots -> Names \cup {NoName, Joined}]
    /\ clients_sock_map \in [Slots -> Fds \cup {NoFd}]

-----------------------------------------------------------------------------
(* The clients.                                                             *)

InFlight == FoldFunction(LAMBDA sent, n : Len(sent) + n, 0, up)

Connect(c) ==
    /\ st[c] = "out"
    /\ Len(backlog) < MAX_CONNECT
    /\ st' = [st EXCEPT ![c] = "prompt"]
    /\ backlog' = Append(backlog, c)
    /\ UNCHANGED up

Send(c, from) ==
    /\ st[c] = from
    /\ InFlight < MaxInFlight
    /\ \E text \in Names : up' = [up EXCEPT ![c] = Append(@, text)]
    /\ st' = [st EXCEPT ![c] = "talk"]
    /\ UNCHANGED backlog

(* The name is sent when the prompt has come, a line at any time after.     *)
SendName(c) == Send(c, "name")

SendLine(c) == Send(c, "talk")

(* The process ends; if something the server wrote was not read yet, the    *)
(* connection is reset instead of closed.                                   *)
Close(c) ==
    /\ \/ st[c] \in {"prompt", "name", "talk"} /\ st' = [st EXCEPT ![c] = "closed"]
       \/ st[c] \in {"name", "talk"} /\ st' = [st EXCEPT ![c] = "reset"]
    /\ UNCHANGED <<up, backlog>>

(* The answer to a write on a closed connection arrives.                    *)
ResetArrives(c) ==
    /\ st[c] = "written"
    /\ st' = [st EXCEPT ![c] = "reset"]
    /\ UNCHANGED <<up, backlog>>

Client(c) == Connect(c) \/ SendName(c) \/ SendLine(c) \/ Close(c) \/ ResetArrives(c)

Hung(c) == st[c] \in {"closed", "written", "reset"}

-----------------------------------------------------------------------------
(* The servers' helpers.  Each searches the table from slot 0 on for the    *)
(* first of these slots.                                                    *)

IsFirst(i, S) == i \in S /\ \A j \in S : i <= j

findPeople(name) == {i \in Slots : clients_name[i] # NoName /\ clients_name[i] = name}

findClient(fd) == {i \in Slots : clients_sock_fds[i] # NoFd /\ clients_sock_fds[i] = fd}

(* A slip in findAvailable: a slot without a name is taken for free.        *)
AvailableByName == {i \in Slots : clients_name[i] = NoName}

findAvailable == {i \in Slots : clients_sock_fds[i] = NoFd}

(* accept: the oldest connection, on the lowest free descriptor.            *)
accept(c, fd) ==
    /\ backlog # << >> /\ c = Head(backlog)
    /\ IsFirst(fd, {f \in Fds : owner[f] = Free})
    /\ backlog' = Tail(backlog)

(* read(fd, buf, 512): n of the waiting messages, at least one.             *)
read(c, n) ==
    /\ n \in 1 .. Len(up[c])
    /\ up' = [up EXCEPT ![c] = SubSeq(@, n + 1, Len(@))]

(* write(fd): what it does to the connections s, given who owns fd, and     *)
(* whether it may kill the server.  On a bad descriptor it does nothing.    *)
(* The first thing a client reads, whatever it is, is the prompt to it.     *)
Written(s, who, fd) ==
    IF fd \in Fds /\ who[fd] # Free
    THEN [s EXCEPT ![who[fd]] =
             CASE @ = "prompt" -> "name" [] @ = "closed" -> "written" [] OTHER -> @]
    ELSE s

MayKill(s, who, fd) == fd \in Fds /\ who[fd] # Free /\ s[who[fd]] = "reset"

(* The read of the login name, and what the name becomes: nothing at end of *)
(* file; after a reset read returns -1 and buf keeps what it held before.   *)
LoginName(c, name) ==
    \/ /\ read(c, 1)
       /\ name = Head(up[c])
    \/ /\ \E n \in 2 .. Len(up[c]) : read(c, n)
       /\ name = Joined
    \/ /\ up[c] = << >> /\ Hung(c)
       /\ st[c] # "reset" => name = NoName
       /\ UNCHANGED up
=============================================================================
