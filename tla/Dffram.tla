------------------------------- MODULE Dffram -------------------------------
(***************************************************************************)
(* The single-port SRAM macro of models/dffram_rtl.v.  The macro holds     *)
(* two of them: SRAM A (firmware) and SRAM B (mailbox).  On a sysclk edge  *)
(* with the enable high the addressed cell goes to the output register Do0 *)
(* (its value from before the edge) and, on a write, takes the new value.  *)
(* With the enable low both hold.  A cell stands for one byte lane of a    *)
(* word: lanes never interact, so one shows them all.                      *)
(***************************************************************************)
CONSTANTS Words, Values
VARIABLES mem,  \* the cells
          do0   \* the output register, shared by everyone who reads

Contents == [Words -> Values]

\* Neither the cells nor Do0 has a reset: any content may be there at power-up.
PowerUp == mem \in Contents /\ do0 \in Values

Access(op) ==
    /\ mem' = IF op.wr THEN [mem EXCEPT ![op.w] = op.v] ELSE mem
    /\ do0' = mem[op.w]

Hold == UNCHANGED <<mem, do0>>
=============================================================================
