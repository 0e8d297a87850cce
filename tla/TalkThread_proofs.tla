-------------------------- MODULE TalkThread_proofs --------------------------
(***************************************************************************)
(* The threaded talk server, for any clients, slots and descriptors: types, *)
(* and that every thread has its slot to itself, though nothing is locked.  *)
(***************************************************************************)
EXTENDS TalkThread, SequenceTheorems, TLAPS

(* A descriptor is open while its thread runs, and before, while main looks *)
(* for a slot.                                                              *)
OpenWhileAlive ==
    /\ \A t \in Fds : owner[t] # Free <=> (pc[t] # "none" \/ t = client_sockfd)
    /\ client_sockfd # NoFd => pc[client_sockfd] = "none"

(* Indices are set before the steps that use them.                          *)
IndexKnown ==
    \A t \in Fds :
        /\ pc[t] \notin {"none", "prompt"} => fd_index[t] \in Slots
        /\ pc[t] \in {"find", "link", "back", "partner"} => to_index[t] \in Slots

IInv == TypeOK /\ OpenWhileAlive /\ IndexKnown /\ SlotsAreOwn

(* -1 is neither a descriptor nor a slot; a search has a slot to begin at.  *)
LEMMA NoneIsNone == NoFd \notin Fds /\ NoSlot \notin Slots /\ 0 \in Slots
  BY TalkAssumption DEF NoFd, Fds, ServerFd, NoSlot, Slots

LEMMA InitInv == ASSUME Init PROVE IInv
<1> USE DEF Init, InitTalk
<1>1. TalkTypeOK
  BY TalkAssumption DEF TalkTypeOK
<1>2. TypeOK
  BY <1>1, NoneIsNone DEF TypeOK, Places
<1>3. OpenWhileAlive /\ IndexKnown
  BY NoneIsNone DEF OpenWhileAlive, IndexKnown
<1>4. SlotsAreOwn
  BY DEF SlotsAreOwn, Serving
<1> QED BY <1>2, <1>3, <1>4 DEF IInv

-----------------------------------------------------------------------------
(* Types.                                                                   *)

(* A read takes messages from the front of what is up.                      *)
LEMMA ReadType ==
    ASSUME TalkTypeOK, NEW c \in Clients, NEW n, read(c, n)
    PROVE  up' \in [Clients -> Seq(Names)] /\ Head(up[c]) \in Names
<1>1. up[c] \in Seq(Names) /\ n \in 1 .. Len(up[c])
  BY DEF TalkTypeOK, read
<1>2. SubSeq(up[c], n + 1, Len(up[c])) \in Seq(Names)
  BY <1>1, SubSeqProperties
<1>3. Head(up[c]) \in Names
  BY <1>1
<1> QED BY <1>2, <1>3 DEF TalkTypeOK, read

(* A client's own steps.                                                    *)
LEMMA ClientType == ASSUME TypeOK, NEW c \in Clients, ClientStep(c) PROVE TypeOK'
<1> USE DEF TypeOK, TalkTypeOK, ClientStep, table, locals, searching
<1>1. CASE Connect(c)
  <2>1. backlog' \in Seq(Clients) /\ Len(backlog') <= MAX_CONNECT
    BY <1>1, TalkAssumption, AppendProperties DEF Connect
  <2> QED BY <1>1, <2>1 DEF Connect
<1>2. ASSUME NEW from \in {"name", "talk"}, Send(c, from) PROVE TypeOK'
  <2>1. PICK text \in Names : up' = [up EXCEPT ![c] = Append(@, text)]
    BY <1>2 DEF Send
  <2>2. up' \in [Clients -> Seq(Names)]
    BY <2>1
  <2> QED BY <1>2, <2>2 DEF Send
<1>3. CASE Close(c)
  BY <1>3 DEF Close
<1>4. CASE ResetArrives(c)
  BY <1>4 DEF ResetArrives
<1> QED BY <1>1, <1>2, <1>3, <1>4 DEF Client, SendName, SendLine

(* The connection main holds belongs to somebody.                           *)
LEMMA MainType == ASSUME IInv, main PROVE TypeOK'
<1> USE NoneIsNone, TalkAssumption DEF TypeOK, TalkTypeOK, table, locals, network, AcceptNext
<1>0. TypeOK /\ (client_sockfd # NoFd => owner[client_sockfd] \in Clients)
  BY DEF IInv, OpenWhileAlive
<1>1. ASSUME NEW c \in Clients, NEW fd \in Fds, Accept(c, fd) PROVE TypeOK'
  BY <1>0, <1>1 DEF Accept, accept, main
<1>2. CASE LookOn
  BY <1>0, <1>2 DEF LookOn, main
<1>3. CASE Reject
  BY <1>0, <1>3 DEF Reject, SlotTaken, main
<1>4. CASE Serve
  BY <1>0, <1>4 DEF Serve, SlotIsFree, main, Places
<1> QED BY <1>1, <1>2, <1>3, <1>4 DEF main

(* What the server writes moves a connection on.                            *)
LEMMA WriteType ==
    ASSUME TypeOK, NEW fd, Write(fd)
    PROVE  /\ st' \in [Clients -> {"out", "prompt", "name", "talk", "closed", "written", "reset"}]
           /\ alive' \in BOOLEAN
  BY DEF Write, Written, MayKill, TypeOK, TalkTypeOK

(* The steps of a thread whose connection is open and whose indices are     *)
(* known.                                                                   *)
LEMMA ThreadType == ASSUME IInv, NEW t \in Fds, client_func(t) PROVE TypeOK'
<1> USE NoneIsNone DEF locals, table, network, searching, Goto, LookFrom
<1>0. TypeOK /\ (pc[t] # "none" => owner[t] \in Clients)
  BY DEF IInv, OpenWhileAlive, TypeOK, TalkTypeOK
<1>1. CASE Prompt(t)
  <2>1. alive' \in BOOLEAN /\ st' \in [Clients -> {"out", "prompt", "name", "talk", "closed", "written", "reset"}]
    BY <1>0, <1>1, WriteType DEF Prompt
  <2> QED BY <1>0, <1>1, <2>1 DEF Prompt, TypeOK, TalkTypeOK, Places
<1>2. ASSUME NEW name \in Names \cup {NoName, Joined}, Login(t, name) PROVE TypeOK'
  <2>1. up' \in [Clients -> Seq(Names)]
    BY <1>0, <1>2, ReadType DEF Login, LoginName, TypeOK, TalkTypeOK
  <2>2. PICK s \in [Clients -> {"out", "prompt", "name", "talk", "closed", "written", "reset"}] : st' = s
    BY <1>0, <1>2, WriteType DEF Login
  <2>3. alive' \in BOOLEAN
    BY <1>0, <1>2, WriteType DEF Login
  <2> QED BY <1>0, <1>2, <2>1, <2>2, <2>3 DEF Login, TypeOK, TalkTypeOK, Places
<1>3. CASE Read(t)
  <2>1. up' \in [Clients -> Seq(Names)] /\ Head(up[owner[t]]) \in Names
    BY <1>0, <1>3, ReadType DEF Read, TypeOK
  <2> QED BY <1>0, <1>3, <2>1 DEF Read, TypeOK, TalkTypeOK, Places
<1>4. CASE ReadEnd(t)
  BY <1>0, <1>4 DEF ReadEnd, TypeOK, TalkTypeOK, Places, IInv, IndexKnown
<1>5. CASE Forward(t) \/ FindNobody(t)
  <2>1. alive' \in BOOLEAN /\ st' \in [Clients -> {"out", "prompt", "name", "talk", "closed", "written", "reset"}]
    BY <1>0, <1>5, WriteType DEF Forward, FindNobody
  <2> QED BY <1>0, <1>5, <2>1 DEF Forward, FindNobody, TypeOK, TalkTypeOK, Places
<1>6. CASE FindNext(t)
  <2>1. to_index' \in [Fds -> Slots \cup {NoSlot}]
    BY <1>0, <1>6 DEF FindNext, TypeOK
  <2> QED BY <1>0, <1>6, <2>1 DEF FindNext, TypeOK, TalkTypeOK, Places
<1>13. CASE FindPartner(t)
  BY <1>0, <1>13 DEF FindPartner, TypeOK, TalkTypeOK, Places
<1>7. CASE Link(t)
  BY <1>0, <1>7 DEF Link, TypeOK, TalkTypeOK, Places, IInv, IndexKnown
<1>8. CASE LinkBack(t)
  <2>1. alive' \in BOOLEAN /\ st' \in [Clients -> {"out", "prompt", "name", "talk", "closed", "written", "reset"}]
    BY <1>0, <1>8, WriteType DEF LinkBack
  <2> QED BY <1>0, <1>8, <2>1 DEF LinkBack, TypeOK, TalkTypeOK, Places
<1>9. CASE LeftNext(t) \/ FindLeft(t)
  <2>1. to_index' \in [Fds -> Slots \cup {NoSlot}]
    BY <1>0, <1>9 DEF LeftNext, FindLeft, TypeOK
  <2> QED BY <1>0, <1>9, <2>1 DEF LeftNext, FindLeft, TypeOK, TalkTypeOK, Places
<1>10. CASE Unlink(t)
  <2>1. alive' \in BOOLEAN /\ st' \in [Clients -> {"out", "prompt", "name", "talk", "closed", "written", "reset"}]
    BY <1>0, <1>10, WriteType DEF Unlink
  <2> QED BY <1>0, <1>10, <2>1 DEF Unlink, TypeOK, TalkTypeOK, Places
<1>11. CASE Vacate(t) \/ Unmap(t) \/ Unname(t)
  BY <1>0, <1>11 DEF Vacate, Unmap, Unname, TypeOK, TalkTypeOK, Places
<1>12. CASE CloseFd(t)
  BY <1>0, <1>12 DEF CloseFd, TypeOK, TalkTypeOK, Places
<1> QED BY <1>1, <1>2, <1>3, <1>4, <1>5, <1>6, <1>7, <1>8, <1>9, <1>10, <1>11, <1>12, <1>13
    DEF client_func

-----------------------------------------------------------------------------
(* Slots.                                                                   *)

(* Steps that change neither a connection nor the table of descriptors, and *)
(* move no thread but perhaps one that keeps its slot.                      *)
LEMMA KeepsSlots ==
    ASSUME IInv, NEW t \in Fds, UNCHANGED <<owner, clients_sock_fds, fd_index, client_sockfd>>,
           \A u \in Fds \ {t} : pc'[u] = pc[u] /\ to_index'[u] = to_index[u],
           pc[t] \notin {"none", "prompt"}, pc'[t] # "none", pc'[t] # "prompt",
           Serving(t) <=> Serving(t)',
           pc'[t] \in {"find", "link", "back", "partner"} => to_index'[t] \in Slots
    PROVE  OpenWhileAlive' /\ IndexKnown' /\ SlotsAreOwn'
<1>1. OpenWhileAlive'
  BY DEF IInv, OpenWhileAlive, TypeOK
<1>2. IndexKnown'
  BY DEF IInv, IndexKnown
<1>3. \A u \in Fds : Serving(u)' <=> Serving(u)
  BY DEF Serving
<1>4. \A u \in Fds : findClient(u)' = findClient(u)
  BY DEF findClient
<1>5. ASSUME NEW u \in Fds, Serving(u)'
      PROVE  \E i \in Slots : findClient(u)' = {i} /\ (pc'[u] # "prompt" => fd_index'[u] = i)
  <2>1. PICK i \in Slots : findClient(u) = {i} /\ (pc[u] # "prompt" => fd_index[u] = i)
    BY <1>3, <1>5 DEF IInv, SlotsAreOwn
  <2>2. pc'[u] # "prompt" => pc[u] # "prompt"
    BY <1>5
  <2> QED BY <1>4, <2>1, <2>2
<1>6. ASSUME NEW i \in Slots, clients_sock_fds'[i] # NoFd PROVE Serving(clients_sock_fds[i])'
  BY <1>3, <1>6 DEF IInv, SlotsAreOwn, TypeOK, TalkTypeOK
<1> QED BY <1>1, <1>2, <1>5, <1>6 DEF SlotsAreOwn

LEMMA PromptSlots ==
    ASSUME IInv, NEW t \in Fds, Prompt(t)
    PROVE  OpenWhileAlive' /\ IndexKnown' /\ SlotsAreOwn'
<1> USE DEF Prompt, Goto, table, IInv, searching
<1>1. TypeOK /\ pc' = [pc EXCEPT ![t] = "login"] /\ pc[t] = "prompt"
  OBVIOUS
<1>2. PICK k \in Slots : findClient(t) = {k} /\ fd_index' = [fd_index EXCEPT ![t] = k]
  <2>1. PICK i \in Slots : IsFirst(i, findClient(t)) /\ fd_index' = [fd_index EXCEPT ![t] = i]
    OBVIOUS
  <2>2. PICK k \in Slots : findClient(t) = {k}
    BY <1>1 DEF SlotsAreOwn, Serving
  <2> QED BY <2>1, <2>2 DEF IsFirst
<1>3. OpenWhileAlive'
  BY <1>1 DEF OpenWhileAlive, TypeOK
<1>4. IndexKnown'
  BY <1>1, <1>2 DEF IndexKnown, TypeOK
<1>5. \A u \in Fds : (Serving(u)' <=> Serving(u)) /\ findClient(u)' = findClient(u)
  BY <1>1 DEF Serving, findClient, TypeOK
<1>6. ASSUME NEW u \in Fds, Serving(u)'
      PROVE  \E i \in Slots : findClient(u)' = {i} /\ (pc'[u] # "prompt" => fd_index'[u] = i)
  <2>1. CASE u = t
    BY <1>2, <1>5, <2>1 DEF TypeOK
  <2>2. CASE u # t
    <3>1. PICK i \in Slots : findClient(u) = {i} /\ (pc[u] # "prompt" => fd_index[u] = i)
      BY <1>5, <1>6 DEF SlotsAreOwn
    <3> QED BY <1>1, <1>2, <1>5, <2>2, <3>1 DEF TypeOK
  <2> QED BY <2>1, <2>2
<1>7. ASSUME NEW i \in Slots, clients_sock_fds'[i] # NoFd PROVE Serving(clients_sock_fds[i])'
  BY <1>5, <1>7 DEF SlotsAreOwn, TypeOK, TalkTypeOK
<1> QED BY <1>3, <1>4, <1>6, <1>7 DEF SlotsAreOwn

(* The thread gives its slot up, and no other thread had it.                *)
LEMMA VacateSlots ==
    ASSUME IInv, NEW t \in Fds, Vacate(t)
    PROVE  OpenWhileAlive' /\ IndexKnown' /\ SlotsAreOwn'
<1> USE DEF Vacate, Goto, network, locals, IInv, searching
<1>1. TypeOK /\ pc' = [pc EXCEPT ![t] = "unmap"] /\ pc[t] = "vacate"
  OBVIOUS
<1>2. PICK k \in Slots : findClient(t) = {k} /\ fd_index[t] = k
  BY <1>1 DEF SlotsAreOwn, Serving
<1>3. clients_sock_fds[k] = t /\ clients_sock_fds' = [clients_sock_fds EXCEPT ![k] = NoFd]
  BY <1>2 DEF findClient
<1>4. OpenWhileAlive' /\ IndexKnown'
  BY <1>1 DEF OpenWhileAlive, IndexKnown, TypeOK
<1>5. \A u \in Fds : u # t => (Serving(u)' <=> Serving(u)) /\ findClient(u)' = findClient(u)
  BY <1>1, <1>3 DEF Serving, findClient, TypeOK, TalkTypeOK
<1>6. ~Serving(t)'
  BY <1>1 DEF Serving, TypeOK
<1>7. ASSUME NEW u \in Fds, Serving(u)'
      PROVE  \E i \in Slots : findClient(u)' = {i} /\ (pc'[u] # "prompt" => fd_index'[u] = i)
  <2>1. u # t
    BY <1>6, <1>7
  <2>2. PICK i \in Slots : findClient(u) = {i} /\ (pc[u] # "prompt" => fd_index[u] = i)
    BY <1>5, <1>7, <2>1 DEF SlotsAreOwn
  <2> QED BY <1>1, <1>5, <2>1, <2>2 DEF TypeOK
<1>8. ASSUME NEW i \in Slots, clients_sock_fds'[i] # NoFd PROVE Serving(clients_sock_fds[i])'
  <2>1. i # k /\ clients_sock_fds'[i] = clients_sock_fds[i]
    BY <1>3, <1>8 DEF TypeOK, TalkTypeOK
  <2>2. clients_sock_fds[i] \in Fds /\ clients_sock_fds[i] # t
    BY <1>2, <1>8, <2>1 DEF findClient, TypeOK, TalkTypeOK
  <2> QED BY <1>5, <1>8, <2>1, <2>2 DEF SlotsAreOwn
<1> QED BY <1>4, <1>7, <1>8 DEF SlotsAreOwn

LEMMA CloseSlots ==
    ASSUME IInv, NEW t \in Fds, CloseFd(t)
    PROVE  OpenWhileAlive' /\ IndexKnown' /\ SlotsAreOwn'
<1> USE DEF CloseFd, Goto, table, IInv, searching
<1>1. TypeOK /\ pc' = [pc EXCEPT ![t] = "none"] /\ pc[t] = "close"
  OBVIOUS
<1>2. OpenWhileAlive' /\ IndexKnown'
  <2>1. OpenWhileAlive'
    <3>1. client_sockfd' = client_sockfd /\ client_sockfd # t
      BY <1>1, NoneIsNone DEF OpenWhileAlive
    <3>2. \A u \in Fds : /\ pc'[u] = (IF u = t THEN "none" ELSE pc[u])
                          /\ owner'[u] = (IF u = t THEN Free ELSE owner[u])
      BY <1>1 DEF TypeOK, TalkTypeOK
    <3> QED BY <1>1, <3>1, <3>2 DEF OpenWhileAlive, TypeOK
  <2>2. IndexKnown'
    BY <1>1 DEF IndexKnown, TypeOK
  <2> QED BY <2>1, <2>2
<1>3. \A u \in Fds : (Serving(u)' <=> Serving(u)) /\ findClient(u)' = findClient(u)
  BY <1>1 DEF Serving, findClient, TypeOK
<1>4. ASSUME NEW u \in Fds, Serving(u)'
      PROVE  \E i \in Slots : findClient(u)' = {i} /\ (pc'[u] # "prompt" => fd_index'[u] = i)
  <2>1. u # t
    BY <1>1, <1>3, <1>4 DEF Serving
  <2>2. PICK i \in Slots : findClient(u) = {i} /\ (pc[u] # "prompt" => fd_index[u] = i)
    BY <1>3, <1>4 DEF SlotsAreOwn
  <2> QED BY <1>1, <1>3, <2>1, <2>2 DEF TypeOK
<1>5. ASSUME NEW i \in Slots, clients_sock_fds'[i] # NoFd PROVE Serving(clients_sock_fds[i])'
  BY <1>3, <1>5 DEF SlotsAreOwn, TypeOK, TalkTypeOK
<1> QED BY <1>2, <1>4, <1>5 DEF SlotsAreOwn

(* A newcomer gets a slot that is nobody's, and a descriptor in no slot.    *)
LEMMA ServeSlots ==
    ASSUME IInv, Serve, UNCHANGED locals
    PROVE  OpenWhileAlive' /\ IndexKnown' /\ SlotsAreOwn'
<1> USE DEF Serve, SlotIsFree, AcceptNext, network, locals, IInv
<1>1. PICK fd \in Fds, k \in Slots :
      /\ TypeOK /\ fd = client_sockfd /\ clients_sock_fds[k] = NoFd
      /\ pc' = [pc EXCEPT ![fd] = "prompt"]
      /\ clients_sock_fds' = [clients_sock_fds EXCEPT ![k] = fd]
      /\ client_sockfd' = NoFd /\ UNCHANGED <<owner, fd_index, to_index>>
  BY DEF findAvailable, TypeOK
<1>2. pc[fd] = "none" /\ pc' = [pc EXCEPT ![fd] = "prompt"] /\ ~Serving(fd)
  BY <1>1, NoneIsNone DEF OpenWhileAlive, Serving
<1>3. \A i \in Slots : clients_sock_fds[i] # fd
  BY <1>1, <1>2, NoneIsNone DEF SlotsAreOwn
<1>4. OpenWhileAlive' /\ IndexKnown'
  <2>1. OpenWhileAlive'
    BY <1>1, <1>2, NoneIsNone DEF OpenWhileAlive, TypeOK
  <2>2. IndexKnown'
    BY <1>1, <1>2 DEF IndexKnown, TypeOK
  <2> QED BY <2>1, <2>2
<1>5. \A u \in Fds : u # fd => (Serving(u)' <=> Serving(u)) /\ findClient(u)' = findClient(u)
  BY <1>1, <1>2, NoneIsNone DEF Serving, findClient, TypeOK, TalkTypeOK
<1>6. findClient(fd)' = {k} /\ pc'[fd] = "prompt" /\ Serving(fd)'
  BY <1>1, <1>2, <1>3, NoneIsNone DEF findClient, Serving, TypeOK, TalkTypeOK
<1>7. ASSUME NEW u \in Fds, Serving(u)'
      PROVE  \E i \in Slots : findClient(u)' = {i} /\ (pc'[u] # "prompt" => fd_index'[u] = i)
  <2>1. CASE u = fd
    BY <1>6, <2>1
  <2>2. CASE u # fd
    <3>1. PICK i \in Slots : findClient(u) = {i} /\ (pc[u] # "prompt" => fd_index[u] = i)
      BY <1>5, <1>7, <2>2 DEF SlotsAreOwn
    <3> QED BY <1>2, <1>5, <2>2, <3>1 DEF TypeOK
  <2> QED BY <2>1, <2>2
<1>8. ASSUME NEW i \in Slots, clients_sock_fds'[i] # NoFd PROVE Serving(clients_sock_fds[i])'
  <2>1. CASE i = k
    BY <1>1, <1>6, <2>1 DEF TypeOK, TalkTypeOK
  <2>2. CASE i # k
    <3>1. clients_sock_fds'[i] = clients_sock_fds[i] /\ clients_sock_fds[i] \in Fds \ {fd}
      BY <1>1, <1>3, <1>8, <2>2 DEF TypeOK, TalkTypeOK
    <3> QED BY <1>5, <1>8, <3>1 DEF SlotsAreOwn
  <2> QED BY <2>1, <2>2
<1> QED BY <1>4, <1>7, <1>8 DEF SlotsAreOwn

-----------------------------------------------------------------------------
LEMMA ThreadInv == ASSUME IInv, NEW t \in Fds, client_func(t) PROVE IInv'
<1> USE NoneIsNone DEF Goto, network, table, locals, searching, LookFrom
<1>0. TypeOK' /\ TypeOK
  BY ThreadType DEF IInv
<1>1. CASE Prompt(t)
  BY <1>0, <1>1, PromptSlots DEF IInv
<1>2. CASE Vacate(t)
  BY <1>0, <1>2, VacateSlots DEF IInv
<1>3. CASE CloseFd(t)
  BY <1>0, <1>3, CloseSlots DEF IInv
<1>4. ASSUME UNCHANGED <<owner, clients_sock_fds, fd_index, client_sockfd>>,
             \A u \in Fds \ {t} : pc'[u] = pc[u] /\ to_index'[u] = to_index[u],
             pc[t] \notin {"none", "prompt"}, pc'[t] # "none", pc'[t] # "prompt",
             Serving(t) <=> Serving(t)',
             pc'[t] \in {"find", "link", "back", "partner"} => to_index'[t] \in Slots
      PROVE  IInv'
  BY <1>0, <1>4, KeepsSlots DEF IInv
<1>5. ASSUME NEW name \in Names \cup {NoName, Joined}, Login(t, name) PROVE IInv'
  BY <1>0, <1>4, <1>5 DEF Login, Serving, TypeOK
<1>6. CASE Read(t)
  BY <1>0, <1>4, <1>6 DEF Read, Serving, TypeOK
<1>7. CASE ReadEnd(t)
  BY <1>0, <1>4, <1>7 DEF ReadEnd, Serving, TypeOK
<1>8. CASE Forward(t) \/ FindNobody(t)
  BY <1>0, <1>4, <1>8 DEF Forward, FindNobody, Serving, TypeOK
<1>9. CASE FindNext(t) \/ FindPartner(t)
  BY <1>0, <1>4, <1>9 DEF FindNext, FindPartner, Serving, TypeOK, IInv, IndexKnown
<1>10. CASE Link(t)
  BY <1>0, <1>4, <1>10 DEF Link, Serving, TypeOK, IInv, IndexKnown
<1>11. CASE LinkBack(t)
  BY <1>0, <1>4, <1>11 DEF LinkBack, Serving, TypeOK
<1>12. CASE LeftNext(t) \/ FindLeft(t)
  BY <1>0, <1>4, <1>12 DEF LeftNext, FindLeft, Serving, TypeOK
<1>13. CASE Unlink(t)
  BY <1>0, <1>4, <1>13 DEF Unlink, Serving, TypeOK
<1>14. ASSUME Unmap(t) \/ Unname(t) PROVE IInv'
  BY <1>0, <1>4, <1>14 DEF Unmap, Unname, Serving, TypeOK
<1> QED BY <1>1, <1>2, <1>3, <1>5, <1>6, <1>7, <1>8, <1>9, <1>10, <1>11, <1>12, <1>13, <1>14
    DEF client_func

LEMMA NextInv == ASSUME IInv, [Next]_vars PROVE IInv'
<1>0. TypeOK
  BY DEF IInv
<1>1. ASSUME UNCHANGED <<owner, clients_sock_fds, fd_index, pc, to_index, client_sockfd>>, TypeOK' PROVE IInv'
  BY <1>1 DEF IInv, OpenWhileAlive, IndexKnown, SlotsAreOwn, Serving, findClient
<1>2. CASE main
  <2> USE <1>0, NoneIsNone DEF locals, table, network, AcceptNext
  <2>1. TypeOK' /\ UNCHANGED locals
    BY <1>2, MainType DEF main
  <2>2. ASSUME UNCHANGED <<clients_sock_fds, pc>>, OpenWhileAlive' PROVE IInv'
    BY <2>1, <2>2 DEF IInv, IndexKnown, SlotsAreOwn, Serving, findClient
  <2>3. ASSUME NEW c \in Clients, NEW fd \in Fds, Accept(c, fd) PROVE IInv'
    <3>1. pc[fd] = "none" /\ owner[fd] = Free
      BY <2>3 DEF Accept, accept, IsFirst, IInv, OpenWhileAlive
    <3>2. OpenWhileAlive'
      BY <2>3, <3>1, TalkAssumption DEF Accept, IInv, OpenWhileAlive, TypeOK, TalkTypeOK
    <3> QED BY <2>2, <2>3, <3>2 DEF Accept
  <2>4. CASE LookOn
    BY <1>1, <2>1, <2>4 DEF LookOn
  <2>5. CASE Reject
    <3>1. OpenWhileAlive'
      BY <2>5 DEF Reject, SlotTaken, IInv, OpenWhileAlive, TypeOK, TalkTypeOK
    <3> QED BY <2>2, <2>5, <3>1 DEF Reject
  <2>6. CASE Serve
    BY <2>1, <2>6, ServeSlots DEF IInv
  <2> QED BY <1>2, <2>3, <2>4, <2>5, <2>6 DEF main
<1>3. ASSUME NEW t \in Fds, client_func(t) PROVE IInv'
  BY <1>3, ThreadInv
<1>4. ASSUME NEW c \in Clients, ClientStep(c) PROVE IInv'
  BY <1>0, <1>1, <1>4, ClientType DEF ClientStep, table, locals, searching
<1>5. CASE UNCHANGED vars
  <2>1. TypeOK'
    BY <1>0, <1>5 DEF vars, network, table, locals, searching, TypeOK, TalkTypeOK
  <2> QED BY <1>1, <1>5, <2>1 DEF vars, network, table, locals, searching
<1> QED BY <1>2, <1>3, <1>4, <1>5 DEF Next

LEMMA Invariant == Spec => []IInv
<1>1. Init => IInv
  BY InitInv
<1>2. IInv /\ [Next]_vars => IInv'
  BY NextInv
<1> QED BY <1>1, <1>2, PTL DEF Spec

(* client_func's indices are those of the tables, and what the tables and   *)
(* the threads hold is always of its kind.                                  *)
THEOREM TypeCorrect == Spec => []TypeOK
<1>1. IInv => TypeOK
  BY DEF IInv
<1> QED BY <1>1, Invariant, PTL

(* The slots (lines 105-112, 226): until a thread gives its slot up, no     *)
(* other thread works on it, although main and the threads look for slots   *)
(* and change them without a lock.                                          *)
THEOREM SlotsStayOwn == Spec => []SlotsAreOwn
<1>1. IInv => SlotsAreOwn
  BY DEF IInv
<1> QED BY <1>1, Invariant, PTL
=============================================================================
