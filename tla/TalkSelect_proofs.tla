-------------------------- MODULE TalkSelect_proofs --------------------------
(***************************************************************************)
(* The select server, for any clients, slots and descriptors: its tables    *)
(* agree, and it closes the connections of the gone only.                   *)
(***************************************************************************)
EXTENDS TalkSelect, SequenceTheorems, FiniteSetTheorems, TLAPS

States == {"out", "prompt", "name", "talk", "closed", "written", "reset"}

(* The slot being filled in is taken already.                               *)
LoginSlot == pc = "login" => available_index \in Used

(* A client has one connection at most: in the backlog, or accepted.        *)
Connected ==
    /\ \A j \in 1 .. Len(backlog) : st[backlog[j]] # "out" /\ \A fd \in Fds : owner[fd] # backlog[j]
    /\ \A j, k \in 1 .. Len(backlog) : backlog[j] = backlog[k] => j = k
    /\ \A fd \in Fds : owner[fd] # Free => st[owner[fd]] # "out"
    /\ \A fd, g \in Fds : owner[fd] # Free /\ owner[fd] = owner[g] => fd = g

(* What select found readable stays so until the scan comes to it.          *)
StillReadable ==
    \A fd \in tmp_fds_set \ {ServerFd} : up[owner[fd]] # << >> \/ Hung(owner[fd])

IInv == TypeOK /\ TablesAgree /\ LoginSlot /\ Connected /\ StillReadable

(* -1 and the server's own descriptor belong to no client.                  *)
LEMMA Descriptors == NoFd \notin Fds /\ ServerFd \notin Fds /\ ServerFd # NoFd /\ ServerFd \in Int
  BY TalkAssumption DEF NoFd, Fds, ServerFd

LEMMA SlotsAreFinite == IsFiniteSet(Slots) /\ Cardinality(Slots) = MAX_CONNECT
  BY TalkAssumption, FS_Interval DEF Slots

LEMMA LoggedInCounts ==
    /\ IsFiniteSet(Used) /\ IsFiniteSet(LoggedIn)
    /\ Cardinality(LoggedIn) \in 0 .. MAX_CONNECT
<1>1. Used \subseteq Slots /\ LoggedIn \subseteq Slots
  BY DEF Used, LoggedIn
<1>2. IsFiniteSet(Used) /\ IsFiniteSet(LoggedIn) /\ Cardinality(LoggedIn) <= Cardinality(Slots)
  BY <1>1, SlotsAreFinite, FS_Subset
<1>3. Cardinality(LoggedIn) \in Nat
  BY <1>2, FS_CardinalityType
<1> QED BY <1>2, <1>3, SlotsAreFinite, TalkAssumption

LEMMA InitInv == ASSUME Init PROVE IInv
<1> USE DEF Init, InitTalk
<1>1. TypeOK
  BY TalkAssumption DEF TypeOK, TalkTypeOK, Slots, ServerFd, Fds
<1>2. Used = {} /\ LoggedIn = {}
  BY DEF Used, LoggedIn
<1>3. TablesAgree
  <2>1. Cardinality(LoggedIn) = 0
    BY <1>2, FS_EmptySet
  <2> QED BY <1>2, <2>1, Descriptors DEF TablesAgree
<1>4. LoginSlot /\ Connected /\ StillReadable
  BY DEF LoginSlot, Connected, StillReadable
<1> QED BY <1>1, <1>3, <1>4 DEF IInv

-----------------------------------------------------------------------------
(* What happens to connections.                                             *)

(* Connections change, but none comes or goes, and the ended stay ended.    *)
StMoves ==
    /\ st' \in [Clients -> States]
    /\ \A c \in Clients : (st'[c] = "out" <=> st[c] = "out") /\ (Hung(c) => Hung(c)')

LEMMA WriteMoves ==
    ASSUME TypeOK, NEW who, NEW fd, st' = Written(st, who, fd) PROVE StMoves
  BY DEF TypeOK, TalkTypeOK, StMoves, Written, Hung, States

LEMMA ReadType ==
    ASSUME TypeOK, NEW c \in Clients, NEW n, read(c, n)
    PROVE  /\ up' \in [Clients -> Seq(Names)]
           /\ \A d \in Clients \ {c} : up'[d] = up[d]
<1>1. up[c] \in Seq(Names) /\ n \in 1 .. Len(up[c])
  BY DEF TypeOK, TalkTypeOK, read
<1>2. SubSeq(up[c], n + 1, Len(up[c])) \in Seq(Names)
  BY <1>1, SubSeqProperties
<1> QED BY <1>2 DEF TypeOK, TalkTypeOK, read

LEMMA LoginReads ==
    ASSUME TypeOK, NEW c \in Clients, NEW name, LoginName(c, name)
    PROVE  /\ up' \in [Clients -> Seq(Names)]
           /\ \A d \in Clients \ {c} : up'[d] = up[d]
  BY ReadType DEF LoginName, TypeOK, TalkTypeOK

LEMMA StaysConnected ==
    ASSUME TypeOK, Connected, UNCHANGED <<backlog, owner>>, StMoves
    PROVE  Connected'
<1>1. \A j \in 1 .. Len(backlog) : backlog[j] \in Clients
  BY DEF TypeOK, TalkTypeOK
<1>2. \A fd \in Fds : owner[fd] # Free => owner[fd] \in Clients
  BY DEF TypeOK, TalkTypeOK
<1> QED BY <1>1, <1>2 DEF Connected, StMoves

(* accept takes the oldest connection out of the backlog.                   *)
LEMMA AcceptConnected ==
    ASSUME TypeOK, Connected, NEW c \in Clients, NEW fd \in Fds, accept(c, fd),
           owner' = [owner EXCEPT ![fd] = c], StMoves
    PROVE  /\ Connected' /\ owner[fd] = Free
           /\ backlog' \in Seq(Clients) /\ Len(backlog') <= MAX_CONNECT
<1>1. backlog # << >> /\ c = Head(backlog) /\ backlog' = Tail(backlog) /\ owner[fd] = Free
  BY DEF accept, IsFirst
<1>2. backlog \in Seq(Clients) /\ Len(backlog) \in Nat /\ Len(backlog) # 0
  BY <1>1, EmptySeq DEF TypeOK, TalkTypeOK
<1>3. /\ backlog' \in Seq(Clients) /\ Len(backlog') = Len(backlog) - 1
      /\ \A j \in 1 .. Len(backlog') : backlog'[j] = backlog[j + 1]
  BY <1>1, <1>2, HeadTailProperties
<1>4. c = backlog[1] /\ 1 \in 1 .. Len(backlog)
  BY <1>1, <1>2
<1>5. st'[c] # "out" /\ \A g \in Fds : owner[g] # c
  BY <1>4 DEF Connected, StMoves
<1>6. \A j \in 1 .. Len(backlog') :
         st'[backlog'[j]] # "out" /\ backlog'[j] # c /\ \A g \in Fds : owner[g] # backlog'[j]
  <2> SUFFICES ASSUME NEW j \in 1 .. Len(backlog')
               PROVE  st'[backlog'[j]] # "out" /\ backlog'[j] # c /\ \A g \in Fds : owner[g] # backlog'[j]
    OBVIOUS
  <2>1. j + 1 \in 1 .. Len(backlog) /\ j + 1 # 1 /\ backlog'[j] = backlog[j + 1]
    BY <1>2, <1>3
  <2>2. backlog[j + 1] \in Clients
    BY <1>2, <2>1
  <2>3. backlog[j + 1] # backlog[1]
    BY <1>4, <2>1 DEF Connected
  <2>4. st[backlog[j + 1]] # "out" /\ \A g \in Fds : owner[g] # backlog[j + 1]
    BY <2>1 DEF Connected
  <2> QED BY <1>4, <2>1, <2>2, <2>3, <2>4 DEF StMoves
<1>7. \A j, k \in 1 .. Len(backlog') : backlog'[j] = backlog'[k] => j = k
  <2> SUFFICES ASSUME NEW j \in 1 .. Len(backlog'), NEW k \in 1 .. Len(backlog'),
                      backlog'[j] = backlog'[k]
               PROVE  j = k
    OBVIOUS
  <2>1. j + 1 \in 1 .. Len(backlog) /\ k + 1 \in 1 .. Len(backlog)
        /\ backlog[j + 1] = backlog[k + 1]
    BY <1>2, <1>3
  <2>2. j + 1 = k + 1
    BY <2>1 DEF Connected
  <2> QED BY <2>2
<1>8. owner \in [Fds -> Clients \cup {Free}] /\ \A g \in Fds : owner'[g] = IF g = fd THEN c ELSE owner[g]
  BY DEF TypeOK, TalkTypeOK
<1>9. \A g \in Fds : owner'[g] # Free => st'[owner'[g]] # "out"
  BY <1>5, <1>8 DEF Connected, StMoves
<1>10. \A g, h \in Fds : owner'[g] # Free /\ owner'[g] = owner'[h] => g = h
  BY <1>5, <1>8 DEF Connected
<1>11. \A j \in 1 .. Len(backlog') : \A g \in Fds : owner'[g] # backlog'[j]
  BY <1>6, <1>8
<1>12. Connected'
  BY <1>6, <1>7, <1>9, <1>10, <1>11 DEF Connected
<1>13. Len(backlog') <= MAX_CONNECT
  BY <1>2, <1>3, TalkAssumption DEF TypeOK, TalkTypeOK
<1> QED BY <1>1, <1>3, <1>12, <1>13

(* While the scan reads from one connection, the others stay readable, as   *)
(* each client has only one.                                                *)
LEMMA StaysReadable ==
    ASSUME IInv, StMoves, NEW c \in Clients, \A d \in Clients \ {c} : up'[d] = up[d],
           tmp_fds_set' \subseteq tmp_fds_set,
           \A fd \in tmp_fds_set' \ {ServerFd} : owner'[fd] = owner[fd] /\ owner[fd] # c
    PROVE  StillReadable'
<1> SUFFICES ASSUME NEW fd \in tmp_fds_set' \ {ServerFd}
             PROVE  (up[owner[fd]] # << >> \/ Hung(owner[fd]))'
  BY DEF StillReadable
<1>1. fd \in Fds /\ owner[fd] \in Clients \ {c}
  <2>1. fd \in client_fds_set \ {ServerFd}
    BY DEF IInv, TablesAgree
  <2>2. PICK i \in Used : clients_sock_fds[i] = fd
    BY <2>1 DEF IInv, TablesAgree, LoggedIn
  <2>3. fd \in Fds
    BY <2>1 DEF IInv, TypeOK
  <2>4. owner[fd] # Free
    BY <2>2 DEF IInv, TablesAgree
  <2> QED BY <2>3, <2>4 DEF IInv, TypeOK, TalkTypeOK
<1>2. up[owner[fd]] # << >> \/ Hung(owner[fd])
  BY DEF IInv, StillReadable
<1>3. owner'[fd] = owner[fd] /\ up'[owner[fd]] = up[owner[fd]]
  BY <1>1
<1>4. Hung(owner[fd]) => (st'[owner[fd]] \in {"closed", "written", "reset"})
  BY <1>1 DEF StMoves, Hung
<1> QED BY <1>2, <1>3, <1>4 DEF Hung

(* Watched descriptors are those of clients.                                *)
LEMMA Watched ==
    ASSUME IInv, NEW fd \in client_fds_set, fd # ServerFd
    PROVE  /\ fd \in Fds /\ owner[fd] \in Clients
           /\ \E i \in LoggedIn : clients_sock_fds[i] = fd
<1>1. PICK i \in LoggedIn : clients_sock_fds[i] = fd
  BY DEF IInv, TablesAgree
<1>2. fd \in Fds
  BY DEF IInv, TypeOK
<1>3. owner[fd] # Free
  BY <1>1 DEF IInv, TablesAgree, LoggedIn
<1> QED BY <1>1, <1>2, <1>3 DEF IInv, TypeOK, TalkTypeOK

-----------------------------------------------------------------------------
(* Steps that leave the descriptors in the table alone.                     *)

LEMMA TablesStand ==
    ASSUME TypeOK, TablesAgree, LoginSlot,
           UNCHANGED <<clients_sock_fds, clients_name, client_num, client_fds_set, maxfd, available_index>>,
           pc' = "login" <=> pc = "login",
           \A fd \in Fds : owner[fd] # Free => owner'[fd] # Free,
           tmp_fds_set' \subseteq client_fds_set,
           \A i \in Slots \ Used : clients_sock_map'[i] = clients_sock_map[i]
    PROVE  TablesAgree' /\ LoginSlot'
<1>1. Used' = Used /\ LoggedIn' = LoggedIn
  BY DEF Used, LoggedIn
<1>2. \A i \in Used : clients_sock_fds[i] \in Fds
  BY DEF Used, TypeOK, TalkTypeOK
<1> QED BY <1>1, <1>2 DEF TablesAgree, LoginSlot

LEMMA ClientInv == ASSUME IInv, NEW c \in Clients, ClientStep(c) PROVE IInv'
<1> USE DEF ClientStep, table, loop, IInv
<1>1. up' \in [Clients -> Seq(Names)] /\ \A d \in Clients : up[d] # << >> => up'[d] # << >>
  <2>1. CASE UNCHANGED up
    BY <2>1 DEF TypeOK, TalkTypeOK
  <2>2. ASSUME NEW text \in Names, up' = [up EXCEPT ![c] = Append(@, text)]
        PROVE  up' \in [Clients -> Seq(Names)] /\ \A d \in Clients : up[d] # << >> => up'[d] # << >>
    <3>1. up[c] \in Seq(Names)
      BY DEF TypeOK, TalkTypeOK
    <3>2. Append(up[c], text) \in Seq(Names) /\ Append(up[c], text) # << >>
      BY <3>1, AppendProperties
    <3> QED BY <2>2, <3>2 DEF TypeOK, TalkTypeOK
  <2> QED BY <2>1, <2>2 DEF Client, Connect, SendName, SendLine, Send, Close, ResetArrives
<1>2. /\ st' \in [Clients -> States]
      /\ \A d \in Clients : Hung(d) => Hung(d)'
      /\ \A d \in Clients \ {c} : st'[d] = st[d]
      /\ st'[c] # "out"
  BY DEF Client, Connect, SendName, SendLine, Send, Close, ResetArrives, Hung, States,
     TypeOK, TalkTypeOK
<1>3. backlog' = backlog \/ (st[c] = "out" /\ Len(backlog) < MAX_CONNECT /\ backlog' = Append(backlog, c))
  BY DEF Client, Connect, SendName, SendLine, Send, Close, ResetArrives
<1>4. backlog' \in Seq(Clients) /\ Len(backlog') <= MAX_CONNECT
  <2>1. backlog \in Seq(Clients) /\ Len(backlog) \in Nat /\ Len(backlog) <= MAX_CONNECT
    BY DEF TypeOK, TalkTypeOK
  <2>2. Append(backlog, c) \in Seq(Clients) /\ Len(Append(backlog, c)) = Len(backlog) + 1
    BY <2>1, AppendProperties
  <2> QED BY <1>3, <2>1, <2>2, TalkAssumption
<1>5. TypeOK'
  BY <1>1, <1>2, <1>4 DEF TypeOK, TalkTypeOK, States
<1>6. TablesAgree' /\ LoginSlot'
  <2>1. tmp_fds_set \subseteq client_fds_set
    BY DEF TablesAgree
  <2> QED BY <2>1, TablesStand
<1>7. StillReadable'
  <2> SUFFICES ASSUME NEW fd \in tmp_fds_set \ {ServerFd}
               PROVE  up'[owner[fd]] # << >> \/ Hung(owner[fd])'
    BY DEF StillReadable
  <2>1. owner[fd] \in Clients
    BY Watched DEF TablesAgree
  <2> QED BY <1>1, <1>2, <2>1 DEF StillReadable
<1>8. Connected'
  <2>1. CASE backlog' = backlog
    <3>1. \A j \in 1 .. Len(backlog) : backlog[j] \in Clients
      BY DEF TypeOK, TalkTypeOK
    <3> QED BY <1>2, <2>1, <3>1 DEF Connected, TypeOK, TalkTypeOK
  <2>2. CASE st[c] = "out" /\ backlog' = Append(backlog, c)
    <3>1. /\ Len(backlog) \in Nat /\ Len(backlog') = Len(backlog) + 1
          /\ \A j \in 1 .. Len(backlog) : backlog'[j] = backlog[j] /\ backlog[j] \in Clients \ {c}
          /\ backlog'[Len(backlog) + 1] = c
      BY <2>2, AppendProperties DEF TypeOK, TalkTypeOK, Connected
    <3>2. \A fd \in Fds : owner[fd] # c
      BY <2>2, TalkAssumption DEF Connected
    <3>3. \A j \in 1 .. Len(backlog') : st'[backlog'[j]] # "out" /\ \A fd \in Fds : owner'[fd] # backlog'[j]
      <4> SUFFICES ASSUME NEW j \in 1 .. Len(backlog')
                   PROVE  st'[backlog'[j]] # "out" /\ \A fd \in Fds : owner[fd] # backlog'[j]
        OBVIOUS
      <4>1. CASE j = Len(backlog) + 1
        BY <1>2, <3>1, <3>2, <4>1
      <4>2. CASE j \in 1 .. Len(backlog)
        BY <1>2, <3>1, <4>2 DEF Connected
      <4> QED BY <3>1, <4>1, <4>2
    <3>4. \A j, k \in 1 .. Len(backlog') : backlog'[j] = backlog'[k] => j = k
      BY <3>1 DEF Connected
    <3>5. \A fd \in Fds : owner'[fd] # Free => st'[owner'[fd]] # "out"
      BY <1>2, <3>2 DEF Connected, TypeOK, TalkTypeOK
    <3> QED BY <3>3, <3>4, <3>5 DEF Connected
  <2> QED BY <1>3, <2>1, <2>2
<1> QED BY <1>5, <1>6, <1>7, <1>8

-----------------------------------------------------------------------------
(* The server's steps.                                                      *)

LEMMA SelectInv == ASSUME IInv, Select PROVE IInv'
<1> USE DEF Select, network, table, IInv
<1>1. TypeOK'
  BY DEF TypeOK, TalkTypeOK
<1>2. TablesAgree' /\ LoginSlot'
  BY TablesStand DEF TypeOK
<1>3. Connected'
  BY DEF Connected
<1>4. StillReadable'
  BY DEF StillReadable, Readable, Hung
<1> QED BY <1>1, <1>2, <1>3, <1>4

(* The scan goes on; nothing is in its way but what it has done with.       *)
LEMMA ScanType ==
    ASSUME IInv, pc = "scan", NEW fd, NEW mayDie \in BOOLEAN, ScanPast(fd, mayDie)
    PROVE  /\ tmp_fds_set' \subseteq client_fds_set /\ tmp_fds_set' \subseteq tmp_fds_set
           /\ fd \notin tmp_fds_set' /\ tmp_fds_set' \subseteq Fds \cup {ServerFd}
           /\ pc' \in {"select", "scan", "dead"}
  BY DEF IInv, TypeOK, TablesAgree, ScanPast

LEMMA AcceptFailsInv == ASSUME IInv, AcceptFails PROVE IInv'
<1> USE DEF AcceptFails, network, table, IInv, Scanned
<1>1. tmp_fds_set' \subseteq client_fds_set /\ tmp_fds_set' \subseteq tmp_fds_set /\ pc' \in {"select", "scan", "dead"}
      /\ tmp_fds_set' \subseteq Fds \cup {ServerFd}
  BY ScanType
<1>2. TypeOK'
  BY <1>1 DEF TypeOK, TalkTypeOK
<1>3. TablesAgree' /\ LoginSlot'
  BY <1>1, TablesStand
<1>4. Connected'
  BY DEF Connected
<1>5. StillReadable'
  BY <1>1 DEF StillReadable, Hung
<1> QED BY <1>2, <1>3, <1>4, <1>5

LEMMA AcceptFullInv ==
    ASSUME IInv, NEW c \in Clients, NEW fd \in Fds, AcceptFull(c, fd) PROVE IInv'
<1> USE DEF AcceptFull, Accept, table, IInv, Scanned
<1>1. tmp_fds_set' \subseteq client_fds_set /\ tmp_fds_set' \subseteq tmp_fds_set /\ pc' \in {"select", "scan", "dead"}
      /\ tmp_fds_set' \subseteq Fds \cup {ServerFd}
  BY ScanType
<1>2. StMoves
  BY DEF StMoves, Hung, TypeOK, TalkTypeOK, States
<1>3. Connected' /\ owner[fd] = Free /\ backlog' \in Seq(Clients) /\ Len(backlog') <= MAX_CONNECT
  BY <1>2, AcceptConnected
<1>4. TypeOK'
  BY <1>1, <1>3 DEF TypeOK, TalkTypeOK
<1>5. \A g \in Fds : owner[g] # Free => owner'[g] = owner[g]
  BY <1>3 DEF TypeOK, TalkTypeOK
<1>6. TablesAgree' /\ LoginSlot'
  BY <1>1, <1>5, TablesStand, TalkAssumption
<1>7. \A g \in tmp_fds_set' \ {ServerFd} : owner'[g] = owner[g] /\ owner[g] \in Clients
  BY <1>1, <1>5, Watched, TalkAssumption
<1>8. StillReadable'
  BY <1>1, <1>7 DEF StillReadable, Hung
<1> QED BY <1>3, <1>4, <1>6, <1>8

(* A slot is taken: in use, but not counted before the login.               *)
LEMMA AcceptSlotInv ==
    ASSUME IInv, NEW c \in Clients, NEW fd \in Fds, NEW i \in Slots, AcceptSlot(c, fd, i)
    PROVE  IInv'
<1> USE DEF AcceptSlot, Accept, IInv, Scanned
<1>1. /\ clients_sock_fds[i] = NoFd /\ i \notin Used
      /\ \A j \in Slots : clients_sock_fds'[j] = IF j = i THEN fd ELSE clients_sock_fds[j]
  BY DEF IsFirst, findAvailable, Used, TypeOK, TalkTypeOK
<1>2. StMoves
  BY WriteMoves
<1>3. Connected' /\ owner[fd] = Free /\ backlog' \in Seq(Clients) /\ Len(backlog') <= MAX_CONNECT
  BY <1>2, AcceptConnected
<1>4. TypeOK'
  BY <1>2, <1>3 DEF TypeOK, TalkTypeOK, StMoves, States
<1>5. \A g \in Fds : owner[g] # Free => owner'[g] = owner[g]
  BY <1>3 DEF TypeOK, TalkTypeOK
<1>6. Used' = Used \cup {i} /\ LoggedIn' = Used /\ LoggedIn = Used
  BY <1>1, Descriptors DEF Used, LoggedIn
<1>7. \A j \in Used : clients_sock_fds'[j] = clients_sock_fds[j] /\ clients_sock_fds[j] \in Fds \ {fd}
  BY <1>1, <1>3 DEF Used, TypeOK, TalkTypeOK, TablesAgree
<1>8. TablesAgree'
  <2>1. \A j \in Used' : owner'[clients_sock_fds'[j]] # Free
    BY <1>1, <1>3, <1>5, <1>6, <1>7, TalkAssumption DEF TablesAgree, TypeOK, TalkTypeOK
  <2>2. \A j, k \in Used' : clients_sock_fds'[j] = clients_sock_fds'[k] => j = k
    BY <1>1, <1>6, <1>7 DEF TablesAgree
  <2>3. \A j \in Slots \ Used' : clients_name'[j] = NoName /\ clients_sock_map'[j] = NoFd
    BY <1>6 DEF TablesAgree
  <2>4. client_fds_set' = {ServerFd} \cup {clients_sock_fds'[j] : j \in LoggedIn'}
    BY <1>6, <1>7 DEF TablesAgree
  <2>5. tmp_fds_set' \subseteq client_fds_set' /\ \A g \in client_fds_set' : g <= maxfd'
    BY DEF TablesAgree
  <2>6. client_num' = Cardinality(LoggedIn')
    BY <1>6 DEF TablesAgree
  <2> QED BY <2>1, <2>2, <2>3, <2>4, <2>5, <2>6 DEF TablesAgree
<1>9. LoginSlot'
  BY <1>6 DEF LoginSlot
<1>10. \A g \in tmp_fds_set' \ {ServerFd} : owner'[g] = owner[g] /\ owner[g] \in Clients
  BY <1>5, Watched, TalkAssumption DEF TablesAgree
<1>11. StillReadable'
  BY <1>2, <1>10 DEF StillReadable, StMoves, Hung
<1> QED BY <1>3, <1>4, <1>8, <1>9, <1>11

(* The login ends: the client is counted and watched.                       *)
LEMMA LoginInv == ASSUME IInv, NEW name \in Names \cup {NoName, Joined}, Login(name) PROVE IInv'
<1> USE DEF Login, IInv
<1> DEFINE fd == clients_sock_fds[available_index]
<1>1. available_index \in Used /\ available_index \in Slots /\ fd \in Fds /\ owner[fd] \in Clients
  BY DEF LoginSlot, Used, TypeOK, TalkTypeOK, TablesAgree
<1>2. fd \notin client_fds_set
  BY <1>1, Descriptors DEF TablesAgree, LoggedIn
<1>3. StMoves
  BY WriteMoves
<1>4. up' \in [Clients -> Seq(Names)] /\ \A d \in Clients \ {owner[fd]} : up'[d] = up[d]
  BY <1>1, LoginReads
<1>5. Used' = Used /\ LoggedIn = Used \ {available_index} /\ LoggedIn' = Used
      /\ pc' \in {"select", "scan", "dead"}
  BY DEF Used, LoggedIn
<1>6. Cardinality(LoggedIn') = Cardinality(LoggedIn) + 1
  <2>1. available_index \notin LoggedIn /\ LoggedIn' = LoggedIn \cup {available_index}
    BY <1>1, <1>5
  <2> QED BY <2>1, LoggedInCounts, FS_AddElement
<1>7. client_num' = Cardinality(LoggedIn') /\ client_num' \in 0 .. MAX_CONNECT
  <2>1. IsFiniteSet(Used) /\ Used \subseteq Slots
    BY LoggedInCounts DEF Used
  <2>2. Cardinality(Used) <= MAX_CONNECT
    BY <2>1, SlotsAreFinite, FS_Subset
  <2>3. Cardinality(Used) \in Nat
    BY <2>1, FS_CardinalityType
  <2> QED BY <1>5, <1>6, <2>2, <2>3, TalkAssumption DEF TablesAgree
<1>8. /\ maxfd' \in ServerFd .. MaxFd /\ maxfd' >= maxfd /\ maxfd' >= fd
      /\ fd \in Int /\ maxfd \in Int
  BY <1>1, TalkAssumption DEF TypeOK, Fds, ServerFd
<1>9. TypeOK'
  BY <1>1, <1>3, <1>4, <1>5, <1>7, <1>8 DEF TypeOK, TalkTypeOK, StMoves, States
<1>10. TablesAgree'
  <2>1. \A j \in Used' : owner'[clients_sock_fds'[j]] # Free
    BY <1>5 DEF TablesAgree
  <2>2. \A j, k \in Used' : clients_sock_fds'[j] = clients_sock_fds'[k] => j = k
    BY <1>5 DEF TablesAgree
  <2>3. \A j \in Slots \ Used' : clients_name'[j] = NoName /\ clients_sock_map'[j] = NoFd
    BY <1>1, <1>5 DEF TablesAgree, TypeOK, TalkTypeOK
  <2>4. client_fds_set' = {ServerFd} \cup {clients_sock_fds'[j] : j \in LoggedIn'}
    BY <1>1, <1>5 DEF TablesAgree
  <2>5. tmp_fds_set' \subseteq client_fds_set'
    BY DEF TablesAgree
  <2>6. \A g \in client_fds_set' : g <= maxfd'
    <3> SUFFICES ASSUME NEW g \in client_fds_set' PROVE g <= maxfd'
      OBVIOUS
    <3>1. CASE g = fd
      BY <1>8, <3>1
    <3>2. CASE g \in client_fds_set
      <4>1. g <= maxfd /\ g \in Int
        BY <3>2, TalkAssumption DEF TablesAgree, TypeOK, Fds, ServerFd
      <4>2. maxfd' \in Int
        BY <1>8
      <4> QED BY <1>8, <4>1, <4>2
    <3> QED BY <3>1, <3>2
  <2> QED BY <1>7, <2>1, <2>2, <2>3, <2>4, <2>5, <2>6 DEF TablesAgree
<1>11. LoginSlot'
  BY <1>5 DEF LoginSlot
<1>12. Connected'
  BY <1>3, StaysConnected
<1>13. \A g \in tmp_fds_set' \ {ServerFd} : owner'[g] = owner[g] /\ owner[g] # owner[fd]
  BY <1>1, <1>2, Watched, TalkAssumption DEF TablesAgree, Connected
<1>14. StillReadable'
  BY <1>1, <1>3, <1>4, <1>13, StaysReadable
<1> QED BY <1>9, <1>10, <1>11, <1>12, <1>14

(* The scan has come to a client: it is on slot i, logged in, and either    *)
(* has a line or is gone.                                                   *)
LEMMA ScannedClient ==
    ASSUME IInv, NEW fd \in Fds, NEW i \in Slots, Scanned(fd), IsFirst(i, findClient(fd))
    PROVE  /\ i \in Used /\ clients_sock_fds[i] = fd /\ owner[fd] \in Clients
           /\ up[owner[fd]] # << >> \/ Hung(owner[fd])
           /\ \A g \in Fds : g # fd => owner[g] # owner[fd]
<1>1. i \in Used /\ clients_sock_fds[i] = fd
  BY DEF IsFirst, findClient, Used
<1>2. owner[fd] \in Clients
  BY <1>1 DEF IInv, TablesAgree, TypeOK, TalkTypeOK
<1>3. fd \in tmp_fds_set \ {ServerFd}
  BY Descriptors DEF Scanned, IsFirst
<1> QED BY <1>1, <1>2, <1>3, TalkAssumption DEF IInv, StillReadable, Connected

LEMMA ForwardInv ==
    ASSUME IInv, NEW fd \in Fds, NEW i \in Slots, Forward(fd, i) PROVE IInv'
<1> USE DEF Forward, table, IInv
<1>1. pc = "scan" /\ Scanned(fd) /\ owner[fd] \in Clients /\ \A g \in Fds : g # fd => owner[g] # owner[fd]
  BY ScannedClient DEF Scanned
<1>2. StMoves
  BY WriteMoves
<1>3. up' \in [Clients -> Seq(Names)] /\ \A d \in Clients \ {owner[fd]} : up'[d] = up[d]
  BY <1>1, ReadType
<1>4. /\ tmp_fds_set' \subseteq client_fds_set /\ tmp_fds_set' \subseteq tmp_fds_set /\ fd \notin tmp_fds_set'
      /\ tmp_fds_set' \subseteq Fds \cup {ServerFd} /\ pc' \in {"select", "scan", "dead"}
  BY <1>1, ScanType DEF MayKill
<1>5. TypeOK'
  BY <1>2, <1>3, <1>4 DEF TypeOK, TalkTypeOK, StMoves, States
<1>6. TablesAgree' /\ LoginSlot'
  BY <1>1, <1>4, TablesStand
<1>7. Connected'
  BY <1>2, StaysConnected
<1>8. StillReadable'
  BY <1>1, <1>2, <1>3, <1>4, StaysReadable
<1> QED BY <1>5, <1>6, <1>7, <1>8

LEMMA ChooseInv ==
    ASSUME IInv, NEW fd \in Fds, NEW i \in Slots,
           ChooseNobody(fd, i) \/ \E k \in Slots : ChoosePartner(fd, i, k)
    PROVE  IInv'
<1> USE DEF Choose, IInv
<1>0. Choose(fd, i)
  BY DEF ChooseNobody, ChoosePartner
<1>1. /\ pc = "scan" /\ Scanned(fd) /\ owner[fd] \in Clients /\ i \in Used
      /\ \A g \in Fds : g # fd => owner[g] # owner[fd]
  BY <1>0, ScannedClient DEF Scanned
<1>2. StMoves
  BY <1>0, WriteMoves
<1>3. up' \in [Clients -> Seq(Names)] /\ \A d \in Clients \ {owner[fd]} : up'[d] = up[d]
  BY <1>0, <1>1, ReadType
<1>4. /\ tmp_fds_set' \subseteq client_fds_set /\ tmp_fds_set' \subseteq tmp_fds_set /\ fd \notin tmp_fds_set'
      /\ tmp_fds_set' \subseteq Fds \cup {ServerFd} /\ pc' \in {"select", "scan", "dead"}
  BY <1>0, <1>1, ScanType DEF MayKill
<1>5. /\ clients_sock_map' \in [Slots -> Fds \cup {NoFd}] /\ linked' \subseteq Slots \X Fds
      /\ \A j \in Slots \ Used : clients_sock_map'[j] = clients_sock_map[j]
  <2>1. CASE ChooseNobody(fd, i)
    BY <2>1 DEF ChooseNobody, TypeOK, TalkTypeOK
  <2>2. ASSUME NEW k \in Slots, ChoosePartner(fd, i, k)
        PROVE  /\ clients_sock_map' \in [Slots -> Fds \cup {NoFd}] /\ linked' \subseteq Slots \X Fds
               /\ \A j \in Slots \ Used : clients_sock_map'[j] = clients_sock_map[j]
    <3>1. clients_name[k] # NoName
      BY <2>2 DEF ChoosePartner, IsFirst, findPeople
    <3>2. k \in Used
      BY <3>1 DEF TablesAgree
    <3>3. clients_sock_fds[k] \in Fds
      BY <3>2 DEF Used, TypeOK, TalkTypeOK
    <3>4. /\ clients_sock_map' = [clients_sock_map EXCEPT ![i] = clients_sock_fds[k], ![k] = fd]
          /\ linked' = linked \cup {<<i, clients_sock_fds[k]>>, <<k, fd>>}
      BY <2>2 DEF ChoosePartner
    <3>5. clients_sock_map \in [Slots -> Fds \cup {NoFd}] /\ linked \subseteq Slots \X Fds
      BY DEF TypeOK, TalkTypeOK
    <3>6. clients_sock_map' \in [Slots -> Fds \cup {NoFd}] /\ linked' \subseteq Slots \X Fds
      BY ONLY <3>3, <3>4, <3>5, fd \in Fds, i \in Slots, k \in Slots
    <3>7. \A j \in Slots \ Used : clients_sock_map'[j] = clients_sock_map[j]
      BY ONLY <1>1, <3>2, <3>4, <3>5
    <3> QED BY <3>6, <3>7
  <2> QED BY <2>1, <2>2
<1>6. TypeOK'
  BY <1>0, <1>2, <1>3, <1>4, <1>5 DEF TypeOK, TalkTypeOK, StMoves, States
<1>7. TablesAgree' /\ LoginSlot'
  BY <1>0, <1>1, <1>4, <1>5, TablesStand
<1>8. Connected'
  BY <1>0, <1>2, StaysConnected
<1>9. StillReadable'
  BY <1>0, <1>1, <1>2, <1>3, <1>4, StaysReadable
<1> QED BY <1>6, <1>7, <1>8, <1>9

(* A client that is gone is taken out of all tables together.               *)
LEMMA LeaveInv ==
    ASSUME IInv, NEW fd \in Fds, NEW i \in Slots, Leave(fd, i) PROVE IInv'
<1> USE DEF Leave, IInv
<1> DEFINE c == owner[fd]
           to == clients_sock_map[i]
<1>1. /\ pc = "scan" /\ Scanned(fd) /\ i \in Used /\ clients_sock_fds[i] = fd /\ c \in Clients /\ Hung(c)
      /\ \A g \in Fds : g # fd => owner[g] # c
  BY ScannedClient DEF Scanned
<1>2. \A g \in Fds : owner'[g] = IF g = fd THEN Free ELSE owner[g]
  BY DEF TypeOK, TalkTypeOK
<1>3. /\ st' \in [Clients -> States] /\ \A d \in Clients \ {c} : st'[d] = "out" <=> st[d] = "out"
      /\ \A d \in Clients \ {c} : Hung(d) => st'[d] \in {"closed", "written", "reset"}
  BY DEF TypeOK, TalkTypeOK, Written, Hung, States
<1>4. /\ tmp_fds_set' = tmp_fds_set \ {fd} /\ tmp_fds_set' \subseteq Fds \cup {ServerFd}
      /\ tmp_fds_set' \subseteq tmp_fds_set /\ pc' \in {"select", "scan", "dead"}
  BY <1>1 DEF ScanPast, TypeOK, TalkTypeOK
<1>5. \A j \in Slots : /\ clients_sock_fds'[j] = IF j = i THEN NoFd ELSE clients_sock_fds[j]
                       /\ clients_name'[j] = IF j = i THEN NoName ELSE clients_name[j]
                       /\ clients_sock_map'[j] \in {NoFd, clients_sock_map[j]}
                       /\ j = i => clients_sock_map'[j] = NoFd
  BY DEF TypeOK, TalkTypeOK
<1>6. Used' = Used \ {i} /\ LoggedIn = Used /\ LoggedIn' = Used \ {i}
  BY <1>1, <1>4, <1>5 DEF Used, LoggedIn
<1>7. client_num' = Cardinality(LoggedIn') /\ client_num' \in 0 .. MAX_CONNECT
  <2>1. IsFiniteSet(Used) /\ Cardinality(Used) \in 0 .. MAX_CONNECT
    BY <1>6, LoggedInCounts
  <2>2. Cardinality(Used \ {i}) = Cardinality(Used) - 1
    BY <1>1, <2>1, FS_RemoveElement
  <2>3. Cardinality(Used \ {i}) \in Nat
    BY <2>1, FS_RemoveElement, FS_CardinalityType
  <2> QED BY <1>6, <2>1, <2>2, <2>3, TalkAssumption DEF TablesAgree
<1>8. TypeOK'
  <2>1. /\ clients_sock_map' \in [Slots -> Fds \cup {NoFd}]
        /\ clients_sock_fds' \in [Slots -> Fds \cup {NoFd}]
        /\ clients_name' \in [Slots -> Names \cup {NoName, Joined}]
    BY DEF TypeOK, TalkTypeOK
  <2>2. owner' \in [Fds -> Clients \cup {Free}]
    BY DEF TypeOK, TalkTypeOK
  <2> QED BY <1>3, <1>4, <1>7, <2>1, <2>2 DEF TypeOK, TalkTypeOK, States
<1>9. TablesAgree'
  <2>1. \A j \in Used' : /\ j \in Used /\ clients_sock_fds'[j] = clients_sock_fds[j]
                         /\ clients_sock_fds[j] \in Fds \ {fd}
    BY <1>1, <1>5, <1>6 DEF Used, TablesAgree, TypeOK, TalkTypeOK
  <2>2. \A j \in Used' : owner'[clients_sock_fds'[j]] # Free
    BY <1>2, <2>1 DEF TablesAgree
  <2>3. \A j, k \in Used' : clients_sock_fds'[j] = clients_sock_fds'[k] => j = k
    BY <2>1 DEF TablesAgree
  <2>4. \A j \in Slots \ Used' : clients_name'[j] = NoName /\ clients_sock_map'[j] = NoFd
    BY <1>5, <1>6 DEF TablesAgree
  <2>5. client_fds_set' = {ServerFd} \cup {clients_sock_fds'[j] : j \in LoggedIn'}
    <3>1. client_fds_set = {ServerFd} \cup {clients_sock_fds[j] : j \in Used}
      BY <1>6 DEF TablesAgree
    <3>2. \A j \in Used \ {i} : clients_sock_fds'[j] = clients_sock_fds[j] /\ clients_sock_fds[j] # fd
      BY <1>6, <2>1
    <3>3. {clients_sock_fds'[j] : j \in LoggedIn'} = {clients_sock_fds[j] : j \in Used} \ {fd}
      BY <1>1, <1>6, <3>2
    <3> QED BY <3>1, <3>3, Descriptors
  <2>6. tmp_fds_set' \subseteq client_fds_set' /\ \A g \in client_fds_set' : g <= maxfd'
    BY <1>4 DEF TablesAgree
  <2> QED BY <1>7, <2>2, <2>3, <2>4, <2>5, <2>6 DEF TablesAgree
<1>10. LoginSlot'
  BY <1>4 DEF LoginSlot
<1>11. Connected'
  <2>0. Connected /\ backlog' = backlog /\ backlog \in Seq(Clients) /\ owner[fd] = c
    BY DEF TypeOK, TalkTypeOK
  <2>1. \A j \in 1 .. Len(backlog) :
           backlog[j] \in Clients \ {c} /\ st[backlog[j]] # "out" /\ \A g \in Fds : owner[g] # backlog[j]
    BY ONLY <2>0, fd \in Fds DEF Connected
  <2>2. \A j \in 1 .. Len(backlog) : st'[backlog[j]] # "out" /\ \A g \in Fds : owner'[g] # backlog[j]
    BY ONLY <1>2, <1>3, <2>1, TalkAssumption
  <2>3. \A g \in Fds : owner'[g] # Free => g # fd /\ owner'[g] = owner[g] /\ owner[g] \in Clients \ {c}
    BY <1>1, <1>2 DEF TypeOK, TalkTypeOK
  <2> QED BY ONLY <1>3, <2>0, <2>2, <2>3 DEF Connected
<1>12. StillReadable'
  <2> SUFFICES ASSUME NEW g \in tmp_fds_set' \ {ServerFd}
               PROVE  up[owner'[g]] # << >> \/ st'[owner'[g]] \in {"closed", "written", "reset"}
    BY DEF StillReadable, Hung
  <2>1. g \in tmp_fds_set \ {ServerFd} /\ g # fd
    BY <1>4
  <2>2. g \in Fds /\ owner[g] \in Clients \ {c}
    BY <1>1, <2>1, Watched DEF TablesAgree
  <2>3. up[owner[g]] # << >> \/ Hung(owner[g])
    BY <2>1 DEF StillReadable
  <2> QED BY <1>2, <1>3, <2>1, <2>2, <2>3
<1> QED BY <1>8, <1>9, <1>10, <1>11, <1>12

LEMMA NextInv == ASSUME IInv, [Next]_vars PROVE IInv'
<1>1. CASE Select
  BY <1>1, SelectInv
<1>2. CASE AcceptFails
  BY <1>2, AcceptFailsInv
<1>3. ASSUME NEW c \in Clients, NEW fd \in Fds, AcceptFull(c, fd) PROVE IInv'
  BY <1>3, AcceptFullInv
<1>4. ASSUME NEW c \in Clients, NEW fd \in Fds, NEW i \in Slots, AcceptSlot(c, fd, i) PROVE IInv'
  BY <1>4, AcceptSlotInv
<1>5. ASSUME NEW name \in Names \cup {NoName, Joined}, Login(name) PROVE IInv'
  BY <1>5, LoginInv
<1>6. ASSUME NEW fd \in Fds, NEW i \in Slots, ServeFd(fd, i) PROVE IInv'
  BY <1>6, LeaveInv, ForwardInv, ChooseInv DEF ServeFd
<1>7. ASSUME NEW c \in Clients, ClientStep(c) PROVE IInv'
  BY <1>7, ClientInv
<1>8. CASE UNCHANGED vars
  <2> USE <1>8 DEF vars, network, table, loop, IInv
  <2>1. TypeOK'
    BY DEF TypeOK, TalkTypeOK
  <2>2. TablesAgree' /\ LoginSlot'
    BY TablesStand DEF TablesAgree
  <2>3. Connected' /\ StillReadable'
    BY DEF Connected, StillReadable, Hung
  <2> QED BY <2>1, <2>2, <2>3
<1> QED BY <1>1, <1>2, <1>3, <1>4, <1>5, <1>6, <1>7, <1>8 DEF Next, Server

LEMMA Invariant == Spec => []IInv
<1>1. Init => IInv
  BY InitInv
<1>2. IInv /\ [Next]_vars => IInv'
  BY NextInv
<1> QED BY <1>1, <1>2, PTL DEF Spec

(* The variables keep their types: client_num stays within the table, maxfd *)
(* within the descriptors.                                                  *)
THEOREM TypeCorrect == Spec => []TypeOK
<1>1. IInv => TypeOK
  BY DEF IInv
<1> QED BY <1>1, Invariant, PTL

(* The descriptors, the names, the set given to select, the count and maxfd *)
(* (lines 173-217) agree at every step.                                     *)
THEOREM TablesStayAgreed == Spec => []TablesAgree
<1>1. IInv => TablesAgree
  BY DEF IInv
<1> QED BY <1>1, Invariant, PTL

(* FIONREAD's 0 (line 196) means the end of the connection: the server      *)
(* closes none whose client is there or has lines unread.                   *)
THEOREM OnlyTheGoneGo == Spec => OnlyTheGoneAreClosed
<1> DEFINE Closed == \A fd \in Fds : owner[fd] # Free /\ owner'[fd] = Free
                                        => Hung(owner[fd]) /\ up[owner[fd]] = << >>
<1>1. ASSUME IInv, [Next]_vars PROVE [Closed]_vars
  <2> SUFFICES ASSUME NEW g \in Fds, owner[g] # Free, owner'[g] = Free
               PROVE  Hung(owner[g]) /\ up[owner[g]] = << >>
    OBVIOUS
  <2>1. owner \in [Fds -> Clients \cup {Free}]
    BY <1>1 DEF IInv, TypeOK, TalkTypeOK
  <2>2. PICK fd \in Fds, i \in Slots : Leave(fd, i)
    <3>1. owner' # owner
      OBVIOUS
    <3>2. ASSUME NEW c \in Clients, NEW fd \in Fds, Accept(c, fd) PROVE FALSE
      BY <2>1, <3>2, TalkAssumption DEF Accept
    <3>3. ASSUME NEW fd \in Fds, NEW i \in Slots, ServeFd(fd, i) PROVE Leave(fd, i)
      BY <3>1, <3>3 DEF ServeFd, Forward, ChooseNobody, ChoosePartner, Choose
    <3> QED BY <1>1, <3>1, <3>2, <3>3 DEF Next, Server, Select, AcceptFails, AcceptFull, AcceptSlot,
                Login, ClientStep, vars, network
  <2>3. fd = g /\ up[owner[fd]] = << >>
    BY <2>1, <2>2 DEF Leave
  <2>4. up[owner[fd]] # << >> \/ Hung(owner[fd])
    BY <1>1, <2>2, ScannedClient DEF Leave
  <2> QED BY <2>3, <2>4
<1> QED BY <1>1, Invariant, PTL DEF Spec, OnlyTheGoneAreClosed
=============================================================================
