------------------------------- MODULE TalkPair -------------------------------
(***************************************************************************)
(* ch15/talk_server.c and talk_client.c: one server and one client at a     *)
(* time, each with a user.  Both loop over select on their stdin and their  *)
(* connection, with a timeout set before the loop, and give up when select  *)
(* has timed out often enough.  count is never set back.                    *)
(*                                                                          *)
(* POSIX lets select store in timeout what is left of it; Linux does, and   *)
(* then all the waiting of a connection shares one timeout.  Other systems  *)
(* leave it alone.  SelectUpdatesTimeout says which.                        *)
(*                                                                          *)
(* A write to a connection the other side has closed is answered by a       *)
(* reset; a write to a reset connection may raise SIGPIPE, which ends the   *)
(* process; what was received before the reset can still be read.           *)
(***************************************************************************)
EXTENDS Integers

CONSTANTS SERVER_TIMEOUT, CLIENT_TIMEOUT,  \* seconds: 5 and 3
          MAX_COUNT,            \* 5: the literal in count++ > 5
          SelectUpdatesTimeout,
          MaxInFlight           \* bound of the model: unread lines towards one side

(* What is assumed of the constants; Exercises has TLC evaluate it.         *)
TalkPairAssumption ==
    /\ {SERVER_TIMEOUT, CLIENT_TIMEOUT} \subseteq Nat \ {0}
    /\ MAX_COUNT \in Nat /\ MaxInFlight \in Nat \ {0}
    /\ SelectUpdatesTimeout \in BOOLEAN

Sides == {"server", "client"}

VARIABLES pc,       \* pc[p]: where p is; a client that has ended is "off"
          pending,  \* the connection has not been accepted
          ready,    \* ready[p]: read_fds after select, what is not yet served
          timeout,  \* timeout[p]: seconds left in it
          count,    \* count[p]
          stdin,    \* stdin[p]: whether p's user has typed a line or ended the input
          unread,   \* unread[p]: number of lines on their way to p
          reset,    \* reset[p]: p's end of the connection is reset
          silent    \* history: seconds since select last found something for p

vars == <<pc, pending, ready, timeout, count, stdin, unread, reset, silent>>
line == <<pending, stdin, unread, reset>>

TIMEOUT(p) == IF p = "server" THEN SERVER_TIMEOUT ELSE CLIENT_TIMEOUT

other(p) == IF p = "server" THEN "client" ELSE "server"

Init ==
    /\ pc = [p \in Sides |-> IF p = "server" THEN "accept" ELSE "off"]
    /\ pending = FALSE
    /\ ready = [p \in Sides |-> {}]
    /\ timeout = [p \in Sides |-> TIMEOUT(p)]
    /\ count = [p \in Sides |-> 0]
    /\ stdin = [p \in Sides |-> "quiet"]
    /\ unread = [p \in Sides |-> 0]
    /\ reset = [p \in Sides |-> FALSE]
    /\ silent = [p \in Sides |-> 0]

-----------------------------------------------------------------------------
(* Connection and time                                                      *)

(* The other side has closed the connection.                                *)
Gone(p) ==
    IF p = "server" THEN pc["client"] = "off"
    ELSE pc["server"] = "dead" \/ (pc["server"] = "accept" /\ ~ pending)

SocketReady(p) == unread[p] > 0 \/ reset[p] \/ Gone(p)

ReadyFds(p) ==
    {fd \in {"stdin", "socket"} : IF fd = "stdin" THEN stdin[p] # "quiet" ELSE SocketReady(p)}

Waits(p) == pc[p] = "select" /\ ReadyFds(p) = {}

(* A second passes for whoever waits.                                       *)
Tick ==
    LET waiting == {p \in Sides : Waits(p) /\ timeout[p] > 0} IN
    /\ waiting # {}
    /\ timeout' = [p \in Sides |-> IF p \in waiting THEN timeout[p] - 1 ELSE timeout[p]]
    /\ silent' = [p \in Sides |->
                    IF p \in waiting /\ silent[p] < TIMEOUT(p) THEN silent[p] + 1 ELSE silent[p]]
    /\ UNCHANGED <<line, pc, ready, count>>

(* p starts with a connection: timeout, count (69-72 and 44-47).            *)
StartsTalking(p) ==
    /\ pc' = [pc EXCEPT ![p] = "select"]
    /\ timeout' = [timeout EXCEPT ![p] = TIMEOUT(p)]
    /\ count' = [count EXCEPT ![p] = 0]
    /\ silent' = [silent EXCEPT ![p] = 0]

(* A client is started, once the server has done with the one before.       *)
Connect ==
    /\ pc["client"] = "off" /\ pc["server"] = "accept" /\ ~ pending
    /\ StartsTalking("client")
    /\ pending' = TRUE
    /\ stdin' = [stdin EXCEPT !["client"] = "quiet"]
    /\ unread' = [p \in Sides |-> 0]
    /\ reset' = [p \in Sides |-> FALSE]
    /\ UNCHANGED ready

Accept ==
    /\ pc["server"] = "accept" /\ pending
    /\ StartsTalking("server")
    /\ pending' = FALSE
    /\ UNCHANGED <<ready, stdin, unread, reset>>

UserTypes(p) ==
    /\ stdin[p] = "quiet" /\ pc[p] \notin {"off", "dead"}
    /\ \E s \in {"line", "ended"} : stdin' = [stdin EXCEPT ![p] = s]
    /\ UNCHANGED <<pc, pending, ready, timeout, count, unread, reset, silent>>

-----------------------------------------------------------------------------
(* The loop                                                                 *)

(* Mutant: the program as it is, on a system that updates timeout.          *)
RearmedLeft(p) == timeout[p]

(* What the next call of select finds in timeout.                           *)
Rearmed(p) == IF SelectUpdatesTimeout THEN timeout[p] ELSE TIMEOUT(p)

(* select returns > 0.                                                      *)
Select(p) ==
    /\ pc[p] = "select" /\ ReadyFds(p) # {}
    /\ pc' = [pc EXCEPT ![p] = "serve"]
    /\ ready' = [ready EXCEPT ![p] = ReadyFds(p)]
    /\ timeout' = [timeout EXCEPT ![p] = Rearmed(p)]
    /\ silent' = [silent EXCEPT ![p] = 0]
    /\ UNCHANGED <<line, count>>

(* p closes the connection; unread lines make that a reset.  The client     *)
(* ends, the server goes back to accept.                                    *)
Close(p) ==
    /\ pc' = [pc EXCEPT ![p] = IF p = "server" THEN "accept" ELSE "off"]
    /\ ready' = [ready EXCEPT ![p] = {}]
    /\ reset' = [reset EXCEPT ![other(p)] = @ \/ (unread[p] > 0 /\ ~ Gone(p))]

(* Mutant: count declared inside the loop, 0 at every test.                 *)
TimesOutForEver(p) ==
    /\ Waits(p) /\ timeout[p] = 0
    /\ timeout' = [timeout EXCEPT ![p] = Rearmed(p)]
    /\ UNCHANGED <<line, pc, ready, count, silent>>

(* select returns 0.                                                        *)
TimesOut(p) ==
    /\ Waits(p) /\ timeout[p] = 0
    /\ \/ /\ count[p] <= MAX_COUNT
          /\ count' = [count EXCEPT ![p] = @ + 1]
          /\ timeout' = [timeout EXCEPT ![p] = Rearmed(p)]
          /\ UNCHANGED <<line, pc, ready, silent>>
       \/ /\ count[p] > MAX_COUNT
          /\ Close(p)
          /\ UNCHANGED <<pending, stdin, unread, timeout, count, silent>>

(* p writes a line.                                                         *)
Written(p) ==
    \/ /\ ~ reset[p] /\ ~ Gone(p)
       /\ unread[other(p)] < MaxInFlight
       /\ unread' = [unread EXCEPT ![other(p)] = @ + 1]
       /\ UNCHANGED <<pc, reset>>
    \/ /\ ~ reset[p] /\ Gone(p)
       /\ reset' = [reset EXCEPT ![p] = TRUE]
       /\ UNCHANGED <<pc, unread>>
    \/ /\ reset[p]
       /\ \/ UNCHANGED pc
          \/ pc' = [pc EXCEPT ![p] = IF p = "server" THEN "dead" ELSE "off"]
       /\ UNCHANGED <<unread, reset>>

(* The server writes the 0 bytes it reads at the end of its input, again    *)
(* and again: no line, but on a reset connection SIGPIPE all the same.      *)
WrittenNothing ==
    /\ \/ UNCHANGED pc
       \/ reset["server"] /\ pc' = [pc EXCEPT !["server"] = "dead"]
    /\ UNCHANGED <<unread, reset>>

(* Mutant: both descriptors are served whenever select has returned.        *)
ServeStdinOfBoth(p) ==
    /\ pc[p] = "serve" /\ "stdin" \in ready[p]
    /\ stdin[p] = "line" /\ stdin' = [stdin EXCEPT ![p] = "quiet"]
    /\ Written(p)
    /\ ready' = [ready EXCEPT ![p] = {"socket"}]
    /\ UNCHANGED <<pending, timeout, count, silent>>

(* if(FD_ISSET(STDIN_FILENO, ...)): lines 92-99 and 64-73.                  *)
ServeStdin(p) ==
    /\ pc[p] = "serve" /\ "stdin" \in ready[p]
    /\ \/ /\ stdin[p] = "line"
          /\ stdin' = [stdin EXCEPT ![p] = "quiet"]
          /\ Written(p)
          /\ ready' = [ready EXCEPT ![p] = IF pc'[p] = "serve" THEN @ \ {"stdin"} ELSE {}]
       \/ /\ p = "server" /\ stdin[p] = "ended"
          /\ WrittenNothing
          /\ ready' = [ready EXCEPT ![p] = IF pc'[p] = "serve" THEN @ \ {"stdin"} ELSE {}]
          /\ UNCHANGED stdin
       \/ /\ p = "client" /\ stdin[p] = "ended"
          /\ Close(p)
          /\ UNCHANGED <<stdin, unread>>
    /\ UNCHANGED <<pending, timeout, count, silent>>

(* if(FD_ISSET(the connection, ...)): lines 100-112 and 74-83.  A read      *)
(* takes lines run together.  Nothing to read: the other side has closed,   *)
(* and a reset connection may say -1 first, which the server ignores.       *)
ServeSocket(p) ==
    /\ pc[p] = "serve" /\ "stdin" \notin ready[p] /\ "socket" \in ready[p]
    /\ \/ /\ \E n \in 0 .. unread[p] - 1 : unread' = [unread EXCEPT ![p] = n]
          /\ ready' = [ready EXCEPT ![p] = {}]
          /\ UNCHANGED <<pc, reset>>
       \/ /\ unread[p] = 0 /\ (reset[p] \/ Gone(p))
          /\ Close(p)
          /\ UNCHANGED unread
       \/ /\ p = "server" /\ unread[p] = 0 /\ reset[p]
          /\ reset' = [reset EXCEPT ![p] = FALSE]
          /\ ready' = [ready EXCEPT ![p] = {}]
          /\ UNCHANGED <<pc, unread>>
    /\ UNCHANGED <<pending, stdin, timeout, count, silent>>

(* Back to the top of while(1).                                             *)
Again(p) ==
    /\ pc[p] = "serve" /\ ready[p] = {}
    /\ pc' = [pc EXCEPT ![p] = "select"]
    /\ UNCHANGED <<line, ready, timeout, count, silent>>

main(p) ==
    \/ p = "server" /\ Accept
    \/ Select(p) \/ TimesOut(p) \/ ServeStdin(p) \/ ServeSocket(p) \/ Again(p)

Next == Connect \/ Tick \/ \E p \in Sides : main(p) \/ UserTypes(p)

Spec == Init /\ [][Next]_vars

(* Both processes run when they can, and time passes; users are free.       *)
FairSpec == Spec /\ WF_vars(Tick) /\ \A p \in Sides : WF_vars(main(p))

-----------------------------------------------------------------------------
TypeOK ==
    /\ pc \in [Sides -> {"accept", "off", "select", "serve", "dead"}]
    /\ pending \in BOOLEAN
    /\ ready \in [Sides -> SUBSET {"stdin", "socket"}]
    /\ \A p \in Sides : timeout[p] \in 0 .. TIMEOUT(p) /\ silent[p] \in 0 .. TIMEOUT(p)
    /\ count \in [Sides -> 0 .. MAX_COUNT + 1]
    /\ stdin \in [Sides -> {"quiet", "line", "ended"}]
    /\ unread \in [Sides -> 0 .. MaxInFlight]
    /\ reset \in [Sides -> BOOLEAN]

(* A read that select has promised does not block: neither side waits for   *)
(* the other with its own user's lines unread.                              *)
ReadsDontBlock ==
    \A p \in Sides : pc[p] = "serve" /\ "socket" \in ready[p] => SocketReady(p)

(* "If neither side responds, the connection is closed after waiting for a  *)
(* while" (readme.txt, line 5): whoever gives up has heard nothing for as   *)
(* long as one timeout.                                                     *)
GivesUpInSilence ==
    [][\A p \in Sides : pc[p] = "select" /\ pc'[p] \in {"accept", "off"}
           => silent[p] = TIMEOUT(p)]_vars

(* The same sentence the other way round: when users fall silent, every     *)
(* connection is closed, also when a user has ended his input, which keeps  *)
(* the server's select from ever timing out.                                *)
IdleIsClosed ==
    <>[](\A p \in Sides : stdin[p] # "line")
        => []<>(pc["server"] \in {"accept", "dead"} /\ ~ pending)
=============================================================================
