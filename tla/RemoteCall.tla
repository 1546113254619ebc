----------------------------- MODULE RemoteCall -----------------------------
(***************************************************************************)
(* What the caller of a remote tool is promised: one call at a time, and   *)
(* every call that ends does so once, with the reply to that very call,    *)
(* with a message of the remote side's own, or with a failure.             *)
(***************************************************************************)
EXTENDS Integers

CONSTANTS
  MaxCalls,  \* bound: calls made
  Server,    \* the author of a message that answers no call
  None       \* no reply

VARIABLES
  calling,  \* the call in progress, 0 for none
  made,     \* the calls begun
  last      \* the call that ended last and what ended it

callVars == <<calling, made, last>>

Init ==
  /\ calling = 0
  /\ made = 0
  /\ last = [call |-> 0, by |-> None]

Begin ==
  /\ calling = 0 /\ made < MaxCalls
  /\ made' = made + 1
  /\ calling' = made + 1
  /\ UNCHANGED last

End ==
  /\ calling # 0
  /\ \E by \in {calling, Server, None} : last' = [call |-> calling, by |-> by]
  /\ calling' = 0
  /\ UNCHANGED made

Next == Begin \/ End

Spec == Init /\ [][Next]_callVars
=============================================================================
