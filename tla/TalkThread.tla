------------------------------ MODULE TalkThread ------------------------------
(***************************************************************************)
(* ch15/talk_server_manage_thread.c: main accepts, and client_func runs in  *)
(* a thread of its own for every client.  The threads share the table with  *)
(* main and with each other, and no lock guards it, so each access to the   *)
(* table is a step of its own, in the loops that search it too; locals are  *)
(* forgotten after their last use.                                          *)
(* A thread is named by its connection: close, its last step, is what lets  *)
(* accept use the descriptor again.                                         *)
(*                                                                          *)
(* Not modelled: client_num, which nobody reads; the store one int before   *)
(* clients_sock_map when findClient has failed (107), which lands outside   *)
(* the data modelled here; a name or an entry read while half copied.       *)
(***************************************************************************)
EXTENDS Talk

VARIABLES
  alive,     \* no SIGPIPE yet
  pc,        \* pc[t]: where client_func of connection t is
  fd_index,  \* fd_index[t]
  to,        \* to[t]: talk_to_fd
  to_index,  \* to_index[t]: where the search for a partner is, then what it found
  buf,       \* buf[t]: the line read last
  named,     \* history: named[t], the name t stored
  client_sockfd, \* main: the connection it looks for a slot for
  scan       \* findAvailable's i

locals == <<fd_index, to, to_index, buf>>
searching == <<client_sockfd, scan>>
vars == <<network, table, alive, pc, locals, named, searching>>

NoSlot == -1

Places == {"none", "prompt", "login", "read", "send", "find", "link", "back",
           "partner", "unlink", "vacate", "unmap", "unname", "close"}

Init ==
    /\ InitTalk
    /\ alive = TRUE
    /\ pc = [t \in Fds |-> "none"]
    /\ fd_index = [t \in Fds |-> NoSlot]
    /\ to = [t \in Fds |-> NoFd]
    /\ to_index = [t \in Fds |-> NoSlot]
    /\ buf = [t \in Fds |-> NoName]
    /\ named = [t \in Fds |-> NoName]
    /\ client_sockfd = NoFd /\ scan = 0

TypeOK ==
    /\ TalkTypeOK
    /\ alive \in BOOLEAN
    /\ pc \in [Fds -> Places]
    /\ fd_index \in [Fds -> Slots \cup {NoSlot}]
    /\ to \in [Fds -> Fds \cup {NoFd}]
    /\ to_index \in [Fds -> Slots \cup {NoSlot}]
    /\ buf \in [Fds -> Names \cup {NoName}]
    /\ named \in [Fds -> Names \cup {NoName, Joined}]
    /\ client_sockfd \in Fds \cup {NoFd} /\ scan \in Slots

-----------------------------------------------------------------------------
(* main                                                                     *)

(* Line 208.                                                                *)
Accept(c, fd) ==
    /\ client_sockfd = NoFd
    /\ accept(c, fd)
    /\ owner' = [owner EXCEPT ![fd] = c]
    /\ client_sockfd' = fd /\ scan' = 0
    /\ UNCHANGED <<st, up, table, pc>>

SlotTaken == client_sockfd # NoFd /\ scan \notin findAvailable

SlotIsFree == client_sockfd # NoFd /\ scan \in findAvailable

(* Lines 63-67: a slot behind may be given up meanwhile.                    *)
LookOn ==
    /\ SlotTaken /\ scan + 1 \in Slots
    /\ scan' = scan + 1
    /\ UNCHANGED <<network, table, pc, client_sockfd>>

AcceptNext == client_sockfd' = NoFd /\ scan' = 0

(* A slip in Reject: "continue" without close, as the select server does.   *)
RejectOpen ==
    /\ SlotTaken /\ scan + 1 \notin Slots
    /\ AcceptNext
    /\ UNCHANGED <<network, table, pc>>

(* Lines 69, 220-224: no slot, the connection is closed at once.            *)
Reject ==
    /\ SlotTaken /\ scan + 1 \notin Slots
    /\ st' = [st EXCEPT ![owner[client_sockfd]] = "out"]
    /\ up' = [up EXCEPT ![owner[client_sockfd]] = << >>]
    /\ owner' = [owner EXCEPT ![client_sockfd] = Free]
    /\ AcceptNext
    /\ UNCHANGED <<backlog, table, pc>>

(* Lines 66, 226-232: the slot is taken before the thread starts.           *)
Serve ==
    /\ SlotIsFree
    /\ clients_sock_fds' = [clients_sock_fds EXCEPT ![scan] = client_sockfd]
    /\ pc' = [pc EXCEPT ![client_sockfd] = "prompt"]
    /\ AcceptNext
    /\ UNCHANGED <<network, clients_name, clients_sock_map>>

main ==
    /\ alive /\ UNCHANGED <<alive, locals, named>>
    /\ (\E c \in Clients, fd \in Fds : Accept(c, fd)) \/ LookOn \/ Reject \/ Serve

-----------------------------------------------------------------------------
(* client_func                                                              *)

Goto(t, from, place) ==
    /\ alive /\ pc[t] = from
    /\ pc' = [pc EXCEPT ![t] = place]
    /\ UNCHANGED searching

(* write(fd) by a thread: the connection may be reset, and the server gone. *)
Write(fd) ==
    /\ st' = Written(st, owner, fd)
    /\ alive' \in {TRUE, ~MayKill(st, owner, fd)}

(* Lines 75-83.  The search for the thread's own slot is one step: no other *)
(* slot holds its descriptor (SlotsAreOwn), and nobody else changes this.   *)
Prompt(t) ==
    /\ Goto(t, "prompt", "login")
    /\ \E i \in Slots : IsFirst(i, findClient(t)) /\ fd_index' = [fd_index EXCEPT ![t] = i]
    /\ Write(t)
    /\ UNCHANGED <<up, backlog, owner, table, to, to_index, buf, named>>

(* Lines 84-88.                                                             *)
Login(t, name) ==
    /\ Goto(t, "login", "read")
    /\ LoginName(owner[t], name)
    /\ clients_name' = [clients_name EXCEPT ![fd_index[t]] = name]
    /\ named' = [named EXCEPT ![t] = name]
    /\ Write(t)
    /\ UNCHANGED <<backlog, owner, clients_sock_fds, clients_sock_map, locals>>

(* A search begins at slot 0.                                               *)
LookFrom(t, searches) == to_index' = IF searches THEN [to_index EXCEPT ![t] = 0] ELSE to_index

(* A slip in Read: a lock on the table is held across the read of a line.   *)
ReadLocked(t) ==
    /\ \A u \in Fds : u < t => pc[u] # "read"
    /\ Goto(t, "read", IF clients_sock_map[fd_index[t]] # NoFd THEN "send" ELSE "find")
    /\ \E n \in 1 .. Len(up[owner[t]]) : read(owner[t], n)
    /\ buf' = [buf EXCEPT ![t] = Head(up[owner[t]])]
    /\ LookFrom(t, clients_sock_map[fd_index[t]] = NoFd)
    /\ UNCHANGED <<st, backlog, owner, table, alive, fd_index, to, named>>

(* Lines 97-125: a line, which is forwarded or names a partner.             *)
Read(t) ==
    /\ Goto(t, "read", IF clients_sock_map[fd_index[t]] # NoFd THEN "send" ELSE "find")
    /\ \E n \in 1 .. Len(up[owner[t]]) : read(owner[t], n)
    /\ buf' = [buf EXCEPT ![t] = Head(up[owner[t]])]
    /\ LookFrom(t, clients_sock_map[fd_index[t]] = NoFd)
    /\ UNCHANGED <<st, backlog, owner, table, alive, fd_index, to, named>>

(* Lines 97-104: the connection has ended.                                  *)
ReadEnd(t) ==
    /\ Goto(t, "read", IF clients_sock_map[fd_index[t]] # NoFd THEN "partner" ELSE "vacate")
    /\ up[owner[t]] = << >> /\ Hung(owner[t])
    /\ to' = [to EXCEPT ![t] = clients_sock_map[fd_index[t]]]
    /\ LookFrom(t, clients_sock_map[fd_index[t]] # NoFd)
    /\ UNCHANGED <<network, table, alive, fd_index, buf, named>>

(* Lines 127-132: the map is read again, and may be -1 by now.              *)
Forward(t) ==
    /\ Goto(t, "send", "read")
    /\ Write(clients_sock_map[fd_index[t]])
    /\ buf' = [buf EXCEPT ![t] = NoName]
    /\ UNCHANGED <<up, backlog, owner, table, fd_index, to, to_index, named>>

(* Lines 31-38: the next slot; one that was passed may get the name now.    *)
FindNext(t) ==
    /\ Goto(t, "find", "find")
    /\ to_index[t] \notin findPeople(buf[t]) /\ to_index[t] + 1 \in Slots
    /\ to_index' = [to_index EXCEPT ![t] = @ + 1]
    /\ UNCHANGED <<network, table, alive, fd_index, to, buf, named>>

(* Lines 42, 140-147.                                                       *)
FindNobody(t) ==
    /\ Goto(t, "find", "read")
    /\ to_index[t] \notin findPeople(buf[t]) /\ to_index[t] + 1 \notin Slots
    /\ to_index' = [to_index EXCEPT ![t] = NoSlot]
    /\ buf' = [buf EXCEPT ![t] = NoName]
    /\ Write(t)
    /\ UNCHANGED <<up, backlog, owner, table, fd_index, to, named>>

(* Line 39.                                                                 *)
FindPartner(t) ==
    /\ Goto(t, "find", "link")
    /\ to_index[t] \in findPeople(buf[t])
    /\ buf' = [buf EXCEPT ![t] = NoName]
    /\ UNCHANGED <<network, table, alive, fd_index, to, to_index, named>>

(* A slip in Link: the slot for the connection.                             *)
LinkIndex(t) ==
    /\ Goto(t, "link", "back")
    /\ clients_sock_map' = [clients_sock_map EXCEPT ![fd_index[t]] = to_index[t]]
    /\ UNCHANGED <<network, clients_sock_fds, clients_name, alive, locals, named>>

(* Line 150: the partner's slot may have been given up since.               *)
Link(t) ==
    /\ Goto(t, "link", "back")
    /\ clients_sock_map' =
           [clients_sock_map EXCEPT ![fd_index[t]] = clients_sock_fds[to_index[t]]]
    /\ UNCHANGED <<network, clients_sock_fds, clients_name, alive, locals, named>>

(* Lines 151-154.                                                           *)
LinkBack(t) ==
    /\ Goto(t, "back", "read")
    /\ clients_sock_map' = [clients_sock_map EXCEPT ![to_index[t]] = t]
    /\ to_index' = [to_index EXCEPT ![t] = NoSlot]
    /\ Write(t)
    /\ UNCHANGED <<up, backlog, owner, clients_sock_fds, clients_name, fd_index, to, buf, named>>

(* Lines 48-58, 106: the partner left.                                      *)
LeftNext(t) ==
    /\ Goto(t, "partner", "partner")
    /\ to_index[t] \notin findClient(to[t]) /\ to_index[t] + 1 \in Slots
    /\ to_index' = [to_index EXCEPT ![t] = @ + 1]
    /\ UNCHANGED <<network, table, alive, fd_index, to, buf, named>>

FindLeft(t) ==
    /\ Goto(t, "partner", "unlink")
    /\ \/ to_index[t] \in findClient(to[t]) /\ UNCHANGED to_index
       \/ /\ to_index[t] \notin findClient(to[t]) /\ to_index[t] + 1 \notin Slots
          /\ to_index' = [to_index EXCEPT ![t] = NoSlot]
    /\ UNCHANGED <<network, table, alive, fd_index, to, buf, named>>

(* Lines 107-110.                                                           *)
Unlink(t) ==
    /\ Goto(t, "unlink", "vacate")
    /\ clients_sock_map' = [i \in Slots |-> IF i = to_index[t] THEN NoFd ELSE clients_sock_map[i]]
    /\ Write(to[t])
    /\ to' = [to EXCEPT ![t] = NoFd]
    /\ to_index' = [to_index EXCEPT ![t] = NoSlot]
    /\ UNCHANGED <<up, backlog, owner, clients_sock_fds, clients_name, fd_index, buf, named>>

(* Line 112: from here on main may give the slot away.                      *)
Vacate(t) ==
    /\ Goto(t, "vacate", "unmap")
    /\ clients_sock_fds' = [clients_sock_fds EXCEPT ![fd_index[t]] = NoFd]
    /\ UNCHANGED <<network, clients_name, clients_sock_map, alive, locals, named>>

(* Line 113.                                                                *)
Unmap(t) ==
    /\ Goto(t, "unmap", "unname")
    /\ clients_sock_map' = [clients_sock_map EXCEPT ![fd_index[t]] = NoFd]
    /\ UNCHANGED <<network, clients_sock_fds, clients_name, alive, locals, named>>

(* Line 114.                                                                *)
Unname(t) ==
    /\ Goto(t, "unname", "close")
    /\ clients_name' = [clients_name EXCEPT ![fd_index[t]] = NoName]
    /\ UNCHANGED <<network, clients_sock_fds, clients_sock_map, alive, locals, named>>

(* Lines 116-120.                                                           *)
CloseFd(t) ==
    /\ Goto(t, "close", "none")
    /\ st' = [st EXCEPT ![owner[t]] = "out"]
    /\ owner' = [owner EXCEPT ![t] = Free]
    /\ fd_index' = [fd_index EXCEPT ![t] = NoSlot]
    /\ named' = [named EXCEPT ![t] = NoName]
    /\ UNCHANGED <<up, backlog, table, alive, to, to_index, buf>>

client_func(t) ==
    \/ Prompt(t) \/ (\E name \in Names \cup {NoName, Joined} : Login(t, name))
    \/ Read(t) \/ ReadEnd(t) \/ Forward(t)
    \/ FindNext(t) \/ FindNobody(t) \/ FindPartner(t) \/ Link(t) \/ LinkBack(t)
    \/ LeftNext(t) \/ FindLeft(t) \/ Unlink(t)
    \/ Vacate(t) \/ Unmap(t) \/ Unname(t) \/ CloseFd(t)

ClientStep(c) ==
    /\ alive /\ Client(c)
    /\ UNCHANGED <<owner, table, alive, pc, locals, named, searching>>

Next == main \/ (\E t \in Fds : client_func(t)) \/ (\E c \in Clients : ClientStep(c))

Spec == Init /\ [][Next]_vars

(* main and every thread go on when they can; users need not type anything. *)
FairSpec == Spec /\ WF_vars(main) /\ \A t \in Fds : WF_vars(client_func(t))

-----------------------------------------------------------------------------
(* Properties.                                                              *)

Serving(t) == pc[t] \notin {"none", "unmap", "unname", "close"}

(* The clients' slots (comment at line 17).  Until it gives it up, the slot *)
(* a thread works on is its own: no other thread works on it, findClient    *)
(* finds it under the thread's descriptor, and a slot that names no thread  *)
(* is free for main.                                                        *)
SlotsAreOwn ==
    /\ \A t \in Fds : Serving(t) => \E i \in Slots :
           /\ findClient(t) = {i}
           /\ pc[t] # "prompt" => fd_index[t] = i
    /\ \A i \in Slots : clients_sock_fds[i] # NoFd => Serving(clients_sock_fds[i])

(* Line 17 says that calling findAvailable without a lock is no problem     *)
(* because only main does: a client that has logged in keeps its name in    *)
(* the table, where the others look for it, until its thread removes it.    *)
NamesStand ==
    \A t \in Fds : Serving(t) /\ pc[t] \notin {"prompt", "login"}
                       => clients_name[fd_index[t]] = named[t]

IsServed(c) == alive /\ \E t \in Fds : owner[t] = c /\ pc[t] \notin {"prompt", "login"}

(* A client that is silent holds nobody up: the others' lines are read ...  *)
LinesAreRead ==
    \A c \in Clients :
        <>[](IsServed(c) /\ up[c] # << >>) => []<><<Len(up'[c]) < Len(up[c])>>_vars

(* ... one that has hung up, which it cannot take back, is let go ...       *)
LeaversAreRemoved ==
    \A c \in Clients : []<>~(IsServed(c) /\ Hung(c))

(* (both of these together)                                                 *)
NobodyIsForgotten == LinesAreRead /\ LeaversAreRemoved

(* ... and a client that connects is answered: with a prompt, or by being   *)
(* turned away when the table is full.                                      *)
NewcomersAreAnswered ==
    \A c \in Clients : (st[c] = "prompt") ~> (st[c] # "prompt" \/ ~alive)
=============================================================================
