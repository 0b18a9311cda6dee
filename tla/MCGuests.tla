------------------------------ MODULE MCGuests ------------------------------
(* Memory, threads and debugging of guests for TLC, in one run: they share no
   state, so a behaviour is of one of them. *)
EXTENDS AddressSpace, Threads, Debugging, TLC

CONSTANTS parent, child, t1, t2

Family == t1 :> parent @@ t2 :> child

(* A process alone has three pages, a reserved range and files; a family has
   two pages, and areas that can all be cloned. *)
SmallBounds ==
    {[areas |-> 2, pages |-> 3, size |-> 2, ranges |-> 1, files |-> TRUE,
      forks |-> FALSE, prots |-> {{"write"}, {"write", "clone"}}],
     [areas |-> 3, pages |-> 2, size |-> 2, ranges |-> 0, files |-> FALSE,
      forks |-> TRUE, prots |-> {{"write", "clone"}}]}

VARIABLE part

vars == <<part, spaceVars, threadVars, debugVars>>

Init ==
    /\ part \in {"memory", "threads", "debugging"}
    /\ AddressSpaceInit /\ ThreadsInit /\ DebuggingInit
Next ==
    /\ UNCHANGED part
    /\ \/ part = "memory" /\ torn = {} /\ AddressSpaceStep /\ UNCHANGED <<threadVars, debugVars>>
       \/ part = "threads" /\ ThreadsStep /\ UNCHANGED <<spaceVars, debugVars>>
       \/ part = "debugging" /\ DebuggingStep /\ UNCHANGED <<spaceVars, threadVars>>

(* A worker of the server that can go on does, and so does the signal handler
   of a team that is there.  The guests themselves need not. *)
Fair ==
    /\ WF_vars(part = "debugging" /\ HandlerStep /\ UNCHANGED <<part, spaceVars, threadVars>>)
    /\ \A d \in Debugger :
          WF_vars(part = "debugging" /\ AskerStep(d) /\ UNCHANGED <<part, spaceVars, threadVars>>)

Spec == Init /\ [][Next]_vars /\ Fair
=============================================================================
