---------------------------- MODULE AtomicMemory ----------------------------
(***************************************************************************)
(* What SRAM B promises its two users: a memory whose accesses are atomic. *)
(* Each user calls, its access takes effect once at some instant before it *)
(* returns, and a read answers with the contents at that instant.  A reset *)
(* may abandon the core's access, before or after its effect.  In one step *)
(* both accesses may take effect; the core's is then the earlier one.      *)
(***************************************************************************)
CONSTANTS Words, Values
VARIABLES cell,        \* the contents
          host, iop    \* where each user is in its access

Rest == [st |-> "rest"]
Call(op) == [st |-> "call", op |-> op]
Ops == [wr : {FALSE}, w : Words] \cup [wr : {TRUE}, w : Words, v : Values]
\* A write answers nothing, a read the value it found.
Answer(op, c) == IF op.wr THEN [st |-> "done"] ELSE [st |-> "done", v |-> c[op.w]]
Effect(op, c) == IF op.wr THEN [c EXCEPT ![op.w] = op.v] ELSE c

Begin(user) == user = Rest \/ \E op \in Ops : user = Call(op)

\* One move of a user that finds the contents c and leaves d.
Quiet(user, next) == \/ next = user
                     \/ user.st # "call" /\ Begin(next)
TakeEffect(user, next, c, d) ==
    /\ user.st = "call"
    /\ d = Effect(user.op, c)
    /\ next = Answer(user.op, c)
TakeEffectAndReturn(user, next, c, d) ==
    /\ user.st = "call" /\ user.op.wr
    /\ d = Effect(user.op, c)
    /\ Begin(next)
Move(user, next, c, d) ==
    \/ Quiet(user, next) /\ d = c
    \/ TakeEffect(user, next, c, d)
    \/ TakeEffectAndReturn(user, next, c, d)
Abandon(next, c, d) == next = Rest /\ d = c

Init == cell \in [Words -> Values] /\ host = Rest /\ iop = Rest

Next == \E mid \in [Words -> Values] :
    /\ \/ Move(iop, iop', cell, mid)
       \/ Abandon(iop', cell, mid)
    /\ Move(host, host', mid, cell')

Spec == Init /\ [][Next]_<<cell, host, iop>>
=============================================================================
