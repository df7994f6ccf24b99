------------------------------ MODULE AtMostOnce -------------------------------
(***************************************************************************)
(* What a command sent to a daemon promises, whatever happens on the way:  *)
(* it is executed at most once, and only between call and return; a call   *)
(* returns its own outcome, or an error that leaves open whether it was    *)
(* executed.                                                               *)
(***************************************************************************)
EXTENDS Naturals, Sequences

CONSTANT Callers

VARIABLES
  called,    \* of each caller: calls it has made
  calling,   \* callers in a call
  executed,  \* of each caller: what was executed since its last call, by number
  result     \* what its last call returned

Failed == 0

Init ==
  /\ called = [c \in Callers |-> 0]
  /\ calling = {}
  /\ executed = [c \in Callers |-> <<>>]
  /\ result = [c \in Callers |-> Failed]

IsExecuted(c) == executed[c] # <<>>

Call(c) ==
  /\ c \notin calling
  /\ calling' = calling \union {c}
  /\ called' = [called EXCEPT ![c] = @ + 1]
  /\ executed' = [executed EXCEPT ![c] = <<>>]
  /\ result' = [result EXCEPT ![c] = Failed]

Execute(c) ==
  /\ c \in calling /\ ~IsExecuted(c)
  /\ executed' = [executed EXCEPT ![c] = <<called[c]>>]
  /\ UNCHANGED <<called, calling, result>>

Return(c) ==
  /\ c \in calling
  /\ calling' = calling \ {c}
  /\ \E r \in {Failed} \union (IF IsExecuted(c) THEN {called[c]} ELSE {}) :
       result' = [result EXCEPT ![c] = r]
  /\ UNCHANGED <<called, executed>>

Next == \E c \in Callers : Call(c) \/ Execute(c) \/ Return(c)

Spec == Init /\ [][Next]_<<called, calling, executed, result>>
=============================================================================
