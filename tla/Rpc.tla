-------------------------------- MODULE Rpc --------------------------------
(***************************************************************************)
(* What the message system of Story OS promises its programs, stated       *)
(* without wait reasons, kernel continuations or message objects: a call   *)
(* is queued at one server, may be passed on, is answered exactly once,    *)
(* in the order of arrival at the server that answers it, and returns      *)
(* only after its answer.  Messages.tla implements this module.            *)
(***************************************************************************)
EXTENDS Naturals, Sequences

CONSTANT Task           \* the programs and servers

VARIABLES phase,        \* phase[t]: where the call of t stands
          inbox         \* inbox[d]: the callers d has yet to answer, oldest first

rpcVars == <<phase, inbox>>

Phase == {"idle", "waiting", "answered"}

RpcInit == /\ phase = [t \in Task |-> "idle"]
           /\ inbox = [t \in Task |-> <<>>]

Call(t, d) == /\ phase[t] = "idle"
              /\ t # d
              /\ phase' = [phase EXCEPT ![t] = "waiting"]
              /\ inbox' = [inbox EXCEPT ![d] = Append(@, t)]

Answer(d) == /\ inbox[d] # <<>>
             /\ phase' = [phase EXCEPT ![Head(inbox[d])] = "answered"]
             /\ inbox' = [inbox EXCEPT ![d] = Tail(@)]

Pass(d, e) == /\ inbox[d] # <<>>
              /\ inbox' = [[inbox EXCEPT ![d] = Tail(@)] EXCEPT
                           ![e] = Append(@, Head(inbox[d]))]
              /\ UNCHANGED phase

Return(t) == /\ phase[t] = "answered"
             /\ phase' = [phase EXCEPT ![t] = "idle"]
             /\ UNCHANGED inbox

RpcNext == \/ \E t, d \in Task : Call(t, d) \/ Pass(t, d)
           \/ \E t \in Task : Answer(t) \/ Return(t)

RpcSpec == RpcInit /\ [][RpcNext]_rpcVars
=============================================================================
