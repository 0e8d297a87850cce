------------------------------ MODULE TalkSelect ------------------------------
(***************************************************************************)
(* ch15/talk_server_manage_select.c: one thread serves all clients of a     *)
(* talk program with select.  A client logs in with a name, then names the  *)
(* client it wants to talk to, and from then on its lines are forwarded.    *)
(*                                                                          *)
(* The server runs alone between two blocking calls, so one action is one   *)
(* pass through a branch of the scan.  It blocks in select and, unlike the  *)
(* comment at lines 116-117 suggests, in the read of the login name (177).  *)
(* When SIGPIPE has ended it pc is "dead".                                  *)
(***************************************************************************)
EXTENDS Talk

VARIABLES
  client_num, client_fds_set, tmp_fds_set, maxfd,
  available_index,  \* the slot being filled in
  pc,               \* select, scan, login, dead
  linked            \* history: <<i, fd>>, slot i was connected to the client now on fd

loop == <<client_fds_set, tmp_fds_set, maxfd, available_index, pc>>
vars == <<network, table, client_num, loop, linked>>

Init ==
    /\ InitTalk
    /\ client_num = 0
    /\ client_fds_set = {ServerFd}
    /\ tmp_fds_set = {}
    /\ maxfd = ServerFd
    /\ available_index = 0
    /\ pc = "select"
    /\ linked = {}

-----------------------------------------------------------------------------
(* On with the scan, or back to select when this was the last descriptor.   *)
ScanPast(fd, mayDie) ==
    /\ tmp_fds_set' = tmp_fds_set \ {fd}
    /\ \/ pc' = IF tmp_fds_set = {fd} THEN "select" ELSE "scan"
       \/ mayDie /\ pc' = "dead"

Readable(fd) ==
    IF fd = ServerFd THEN backlog # << >>
    ELSE up[owner[fd]] # << >> \/ Hung(owner[fd])

(* A slip in Select: scan client_fds_set itself, without the copy at 125.   *)
SelectAll ==
    /\ pc = "select"
    /\ \E fd \in client_fds_set : Readable(fd)
    /\ tmp_fds_set' = client_fds_set
    /\ pc' = "scan"
    /\ UNCHANGED <<network, table, client_num, client_fds_set, maxfd, available_index, linked>>

(* Lines 125-138.                                                           *)
Select ==
    /\ pc = "select"
    /\ tmp_fds_set' = {fd \in client_fds_set : fd <= maxfd /\ Readable(fd)}
    /\ tmp_fds_set' # {}
    /\ pc' = "scan"
    /\ UNCHANGED <<network, table, client_num, client_fds_set, maxfd, available_index, linked>>

Scanned(fd) == pc = "scan" /\ IsFirst(fd, tmp_fds_set)

(* Lines 149-155: accept fails, as when the process or the whole system has *)
(* no file left.  The client stays queued.                                  *)
AcceptFails ==
    /\ Scanned(ServerFd)
    /\ ScanPast(ServerFd, FALSE)
    /\ UNCHANGED <<network, table, client_num, client_fds_set, maxfd, available_index, linked>>

(* Line 149.                                                                *)
Accept(c, fd) ==
    /\ Scanned(ServerFd)
    /\ accept(c, fd)
    /\ owner' = [owner EXCEPT ![fd] = c]

(* Lines 162-168: no slot.  The connection is neither served nor closed.    *)
AcceptFull(c, fd) ==
    /\ Accept(c, fd)
    /\ findAvailable = {}
    /\ ScanPast(ServerFd, FALSE)
    /\ UNCHANGED <<st, up, table, client_num, client_fds_set, maxfd, available_index, linked>>

(* Lines 173-176: take the slot and ask for a name.                         *)
AcceptSlot(c, fd, i) ==
    /\ Accept(c, fd)
    /\ IsFirst(i, findAvailable)
    /\ clients_sock_fds' = [clients_sock_fds EXCEPT ![i] = fd]
    /\ st' = Written(st, owner', fd)
    /\ available_index' = i
    /\ pc' = "login"
    /\ tmp_fds_set' = tmp_fds_set \ {ServerFd}
    /\ UNCHANGED <<up, clients_name, clients_sock_map, client_num, client_fds_set, maxfd, linked>>

(* A slip in Login: line 185 is forgotten.                                  *)
LoginKeepsMaxfd(name) ==
    LET fd == clients_sock_fds[available_index]
        c == owner[fd]
    IN  /\ pc = "login"
        /\ LoginName(c, name)
        /\ clients_name' = [clients_name EXCEPT ![available_index] = name]
        /\ st' = Written(st, owner, fd)
        /\ client_num' = client_num + 1
        /\ client_fds_set' = client_fds_set \cup {fd}
        /\ \/ pc' = IF tmp_fds_set = {} THEN "select" ELSE "scan"
           \/ MayKill(st, owner, fd) /\ pc' = "dead"
        /\ UNCHANGED <<backlog, owner, clients_sock_fds, clients_sock_map,
                       tmp_fds_set, available_index, linked, maxfd>>

(* Lines 177-185.                                                           *)
Login(name) ==
    LET fd == clients_sock_fds[available_index]
        c == owner[fd]
    IN  /\ pc = "login"
        /\ LoginName(c, name)
        /\ clients_name' = [clients_name EXCEPT ![available_index] = name]
        /\ st' = Written(st, owner, fd)
        /\ client_num' = client_num + 1
        /\ client_fds_set' = client_fds_set \cup {fd}
        /\ maxfd' = IF maxfd > fd THEN maxfd ELSE fd
        /\ \/ pc' = IF tmp_fds_set = {} THEN "select" ELSE "scan"
           \/ MayKill(st, owner, fd) /\ pc' = "dead"
        /\ UNCHANGED <<backlog, owner, clients_sock_fds, clients_sock_map,
                       tmp_fds_set, available_index, linked>>

(* A slip in Leave: the name stays in the table.                            *)
LeaveKeepsName(fd, i) ==
    LET to == clients_sock_map[i]
    IN  /\ Scanned(fd) /\ fd # ServerFd
        /\ IsFirst(i, findClient(fd))
        /\ up[owner[fd]] = << >>
        /\ clients_sock_map' = [j \in Slots |->
               IF j = i \/ IsFirst(j, findClient(to)) THEN NoFd ELSE clients_sock_map[j]]
        /\ clients_sock_fds' = [clients_sock_fds EXCEPT ![i] = NoFd]
        /\ owner' = [owner EXCEPT ![fd] = Free]
        /\ client_fds_set' = client_fds_set \ {fd}
        /\ client_num' = client_num - 1
        /\ st' = Written([st EXCEPT ![owner[fd]] = "out"], owner', to)
        /\ linked' = {l \in linked : l[1] # i /\ l[2] # fd}
        /\ ScanPast(fd, MayKill(st, owner', to))
        /\ UNCHANGED <<up, backlog, clients_name, maxfd, available_index>>

(* Lines 196-217: nothing to read, so the client is gone.  Its partner, if  *)
(* it is in the table, is unlinked; the notice is written after the close.  *)
Leave(fd, i) ==
    LET to == clients_sock_map[i]
    IN  /\ Scanned(fd) /\ fd # ServerFd
        /\ IsFirst(i, findClient(fd))
        /\ up[owner[fd]] = << >>
        /\ clients_sock_map' = [j \in Slots |->
               IF j = i \/ IsFirst(j, findClient(to)) THEN NoFd ELSE clients_sock_map[j]]
        /\ clients_sock_fds' = [clients_sock_fds EXCEPT ![i] = NoFd]
        /\ clients_name' = [clients_name EXCEPT ![i] = NoName]
        /\ owner' = [owner EXCEPT ![fd] = Free]
        /\ client_fds_set' = client_fds_set \ {fd}
        /\ client_num' = client_num - 1
        /\ st' = Written([st EXCEPT ![owner[fd]] = "out"], owner', to)
        /\ linked' = {l \in linked : l[1] # i /\ l[2] # fd}
        /\ ScanPast(fd, MayKill(st, owner', to))
        /\ UNCHANGED <<up, backlog, maxfd, available_index>>

(* Lines 222-231: forward to the client's partner.                          *)
Forward(fd, i) ==
    /\ Scanned(fd) /\ fd # ServerFd
    /\ IsFirst(i, findClient(fd))
    /\ clients_sock_map[i] # NoFd
    /\ \E n \in 1 .. Len(up[owner[fd]]) : read(owner[fd], n)
    /\ st' = Written(st, owner, clients_sock_map[i])
    /\ ScanPast(fd, MayKill(st, owner, clients_sock_map[i]))
    /\ UNCHANGED <<backlog, owner, table, client_num, client_fds_set, maxfd, available_index, linked>>

(* Lines 232-256: the line names a partner.                                 *)
Choose(fd, i) ==
    /\ Scanned(fd) /\ fd # ServerFd
    /\ IsFirst(i, findClient(fd))
    /\ clients_sock_map[i] = NoFd
    /\ \E n \in 1 .. Len(up[owner[fd]]) : read(owner[fd], n)
    /\ st' = Written(st, owner, fd)
    /\ ScanPast(fd, MayKill(st, owner, fd))
    /\ UNCHANGED <<backlog, owner, clients_sock_fds, clients_name, client_num,
                   client_fds_set, maxfd, available_index>>

(* ... which nobody bears.                                                  *)
ChooseNobody(fd, i) ==
    /\ Choose(fd, i)
    /\ findPeople(Head(up[owner[fd]])) = {}
    /\ UNCHANGED <<clients_sock_map, linked>>

(* ... or client k: the two are linked to each other.                       *)
ChoosePartner(fd, i, k) ==
    /\ Choose(fd, i)
    /\ IsFirst(k, findPeople(Head(up[owner[fd]])))
    /\ clients_sock_map' = [clients_sock_map EXCEPT ![i] = clients_sock_fds[k], ![k] = fd]
    /\ linked' = linked \cup {<<i, clients_sock_fds[k]>>, <<k, fd>>}

ServeFd(fd, i) ==
    \/ Leave(fd, i) \/ Forward(fd, i) \/ ChooseNobody(fd, i)
    \/ \E k \in Slots : ChoosePartner(fd, i, k)

Server ==
    \/ Select
    \/ AcceptFails
    \/ \E c \in Clients, fd \in Fds : AcceptFull(c, fd) \/ \E i \in Slots : AcceptSlot(c, fd, i)
    \/ \E name \in Names \cup {NoName, Joined} : Login(name)
    \/ \E fd \in Fds, i \in Slots : ServeFd(fd, i)

ClientStep(c) == pc # "dead" /\ Client(c) /\ UNCHANGED <<owner, table, client_num, loop, linked>>

Next == Server \/ \E c \in Clients : ClientStep(c)

Spec == Init /\ [][Next]_vars

(* The server goes on when it can; users need not type anything.            *)
FairSpec == Spec /\ WF_vars(Server)
-----------------------------------------------------------------------------
(* Properties.                                                              *)

TypeOK ==
    /\ TalkTypeOK
    /\ client_num \in 0 .. MAX_CONNECT
    /\ client_fds_set \subseteq Fds \cup {ServerFd}
    /\ tmp_fds_set \subseteq Fds \cup {ServerFd}
    /\ maxfd \in ServerFd .. MaxFd
    /\ available_index \in Slots
    /\ pc \in {"select", "scan", "login", "dead"}
    /\ linked \subseteq Slots \X Fds

Used == {i \in Slots : clients_sock_fds[i] # NoFd}

(* The slots whose clients take part: the name has been read.               *)
LoggedIn == IF pc = "login" THEN Used \ {available_index} ELSE Used

(* The four tables agree at every step.  A slot in use names an open        *)
(* connection and no two slots the same one, so findClient is right; an     *)
(* empty slot has neither a name for findPeople to find nor a partner;      *)
(* select watches exactly the clients that are logged in, all of them at or *)
(* below maxfd, and the scan looks at none besides.  Otherwise fd_index is  *)
(* -1 and lines 198-230 reach before the arrays.                            *)
TablesAgree ==
    /\ \A i \in Used : owner[clients_sock_fds[i]] # Free
    /\ \A i, j \in Used : clients_sock_fds[i] = clients_sock_fds[j] => i = j
    /\ \A i \in Slots \ Used : clients_name[i] = NoName /\ clients_sock_map[i] = NoFd
    /\ client_fds_set = {ServerFd} \cup {clients_sock_fds[i] : i \in LoggedIn}
    /\ tmp_fds_set \subseteq client_fds_set
    /\ client_num = Cardinality(LoggedIn)
    /\ \A fd \in client_fds_set : fd <= maxfd

(* The server closes a connection only when its client is gone and all it   *)
(* sent was read.  The code closes whenever FIONREAD says 0 (196), which is *)
(* right only as long as nobody else reads between select and the scan.     *)
OnlyTheGoneAreClosed ==
    [][\A fd \in Fds :
          owner[fd] # Free /\ owner'[fd] = Free
              => Hung(owner[fd]) /\ up[owner[fd]] = << >>]_vars

(* "A client that sends to the client it is connected to only" is what the  *)
(* readme calls a single chat (readme.txt:36): a client's lines go to a     *)
(* connection it was linked to, never to one that came later and was given  *)
(* the same descriptor.                                                     *)
SingleChat ==
    \A i \in LoggedIn : LET to == clients_sock_map[i]
                        IN  to # NoFd /\ owner[to] # Free => <<i, to>> \in linked

IsServed(c) == \E i \in LoggedIn : owner[clients_sock_fds[i]] = c

(* As long as the server comes back to select, which a client that never    *)
(* answers the login prompt can prevent (177), no logged-in client is       *)
(* passed over: its lines are read.                                         *)
LinesAreRead ==
    []<>(pc = "select") =>
        \A c \in Clients :
            <>[](IsServed(c) /\ up[c] # << >>) => []<><<Len(up'[c]) < Len(up[c])>>_vars

(* ... and one that has hung up, which it cannot take back, does not keep   *)
(* its slot and its descriptor for ever.                                    *)
LeaversAreRemoved ==
    []<>(pc = "select") =>
        \A c \in Clients : []<>~(IsServed(c) /\ Hung(c))

(* Both: nobody who logged in is forgotten, however descriptors come and go.*)
NobodyIsForgotten == LinesAreRead /\ LeaversAreRemoved
=============================================================================
