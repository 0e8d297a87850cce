----------------------------- MODULE TestSignal -----------------------------
(***************************************************************************)
(* testSignal.c: a parent gives its child 10 ms to install a handler, sends *)
(* it a signal and waits for its end.                                       *)
(***************************************************************************)

VARIABLES
  parent,       \* "main", "sleep", "look", "kill", "wait", "exit", "error"
  child,        \* "none", "starts", "loops", "zombie", "reaped"
  handler,      \* the child has one for SIG_MY_DEFINE_TEST
  valid,        \* the system has that signal (the comment at 13: macOS does not)
  sent          \* the signal is on its way to the child

vars == <<parent, child, handler, valid, sent>>
-----------------------------------------------------------------------------
Init ==
    /\ parent = "main" /\ child = "none" /\ valid \in BOOLEAN
    /\ handler = FALSE /\ sent = FALSE

(* The handlers main installs first keep SIGUSR1 and ^C from ending either; *)
(* installing them may fail, and so may fork.                               *)
Fork ==
    /\ parent = "main"
    /\ \/ parent' = "sleep" /\ child' = "starts"
       \/ parent' = "error" /\ UNCHANGED child
    /\ UNCHANGED <<handler, valid, sent>>

(* The sleep ends after 10 ms or with ^C, wherever the child is by then.    *)
Usleep == parent = "sleep" /\ parent' = "look" /\ UNCHANGED <<child, handler, valid, sent>>

(* Mutant: only a child that has ended is signalled.                        *)
LookForZombie ==
    /\ parent = "look"
    /\ IF child = "zombie" THEN parent' = "kill" ELSE parent' = "wait"
    /\ UNCHANGED <<child, handler, valid, sent>>

(* waitpid with WNOHANG: a child that has ended is no longer signalled.     *)
Look ==
    /\ parent = "look"
    /\ IF child = "zombie" THEN parent' = "wait" /\ child' = "reaped"
       ELSE parent' = "kill" /\ UNCHANGED child
    /\ UNCHANGED <<handler, valid, sent>>

Kill ==
    /\ parent = "kill" /\ parent' = "wait" /\ sent' = valid
    /\ UNCHANGED <<child, handler, valid>>

(* waitpid: the end of the child, or at once if there is none any more.     *)
Wait ==
    /\ parent = "wait" /\ child \in {"zombie", "reaped"}
    /\ parent' = "exit" /\ child' = "reaped" /\ UNCHANGED <<handler, valid, sent>>

main == Fork \/ Usleep \/ Look \/ Kill \/ Wait

sigactionReg ==
    /\ child = "starts" /\ child' = "loops" /\ handler' = valid
    /\ UNCHANGED <<parent, valid, sent>>

(* The handler exits; without it the signal ends the child all the same.    *)
Deliver ==
    /\ sent /\ child \in {"starts", "loops"}
    /\ child' = "zombie" /\ sent' = FALSE /\ UNCHANGED <<parent, handler, valid>>

(* Somebody else ends the child.                                            *)
Killed ==
    /\ child \in {"starts", "loops"} /\ child' = "zombie"
    /\ UNCHANGED <<parent, handler, valid, sent>>

Next == main \/ sigactionReg \/ Deliver \/ Killed

Spec == Init /\ [][Next]_vars

(* Processes run and signals arrive; nobody need kill the child.            *)
FairSpec == Spec /\ WF_vars(main) /\ WF_vars(sigactionReg) /\ WF_vars(Deliver)
-----------------------------------------------------------------------------
TypeOK ==
    /\ parent \in {"main", "sleep", "look", "kill", "wait", "exit", "error"}
    /\ child \in {"none", "starts", "loops", "zombie", "reaped"}
    /\ handler \in BOOLEAN /\ valid \in BOOLEAN /\ sent \in BOOLEAN

(* Whether the signal comes before the handler, after it or when the child  *)
(* has already been killed: the parent gets to its exit, and leaves no      *)
(* child behind.  Only where the system does not know the signal both wait  *)
(* for ever.                                                                *)
ChildIsReaped == valid => <>(parent = "error" \/ (parent = "exit" /\ child = "reaped"))
=============================================================================
