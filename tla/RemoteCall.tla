----------------------------- MODULE RemoteCall -----------------------------
(***************************************************************************)
(* What a remote procedure call promises its caller: it is carried out     *)
(* once, after it was asked and before it returns, and what it returns is  *)
(* the answer to this call.  A caller that gives up loses the promise, for *)
(* that call and for the later ones: the late answer is still to come.     *)
(***************************************************************************)
EXTENDS Naturals
CONSTANTS Calls, Answers
VARIABLES call,     \* the number of the present or last call
          stage,    \* how far it is
          carried,  \* how often each call was carried out
          result    \* what it returned, {} while it has not

Init == /\ call = 0 /\ stage = "rest" /\ result = {}
        /\ carried = [i \in 1..Calls |-> 0]

Ask == /\ stage = "rest" /\ call < Calls
       /\ stage' = "asked" /\ call' = call + 1 /\ result' = {}
       /\ UNCHANGED carried
CarryOut == /\ stage = "asked"
            /\ stage' = "carried" /\ carried' = [carried EXCEPT ![call] = @ + 1]
            /\ UNCHANGED <<call, result>>
Return == /\ stage = "carried"
          /\ stage' = "rest" /\ result' = {Answers[call]}
          /\ UNCHANGED <<call, carried>>
GiveUp == stage \in {"asked", "carried"} /\ stage' = "lost"
NoPromise == stage = "lost" /\ stage' = "lost"

Next == Ask \/ CarryOut \/ Return \/ GiveUp \/ NoPromise
Spec == Init /\ [][Next]_<<call, stage, carried, result>>
=============================================================================
