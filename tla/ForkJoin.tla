------------------------------ MODULE ForkJoin ------------------------------
(***************************************************************************)
(* What the submission pool promises: rounds that do not overlap.  In a    *)
(* round everyone does one share, the share of that round; the round ends  *)
(* when all shares are done, with the verdict that they all succeeded or   *)
(* that one of them did not.                                               *)
(***************************************************************************)
EXTENDS Naturals

CONSTANT Everyone

VARIABLES round, open, todo, failed, verdict

fjVars == <<round, open, todo, failed, verdict>>

FJInit == /\ round = 0 /\ open = FALSE
          /\ todo = {} /\ failed = {} /\ verdict = TRUE

Begin == /\ ~open
         /\ round' = round + 1 /\ open' = TRUE
         /\ todo' = Everyone /\ failed' = {}
         /\ UNCHANGED verdict

Share(p) == /\ p \in todo
            /\ todo' = todo \ {p}
            /\ failed' \in {failed, failed \cup {p}}
            /\ UNCHANGED <<round, open, verdict>>

End == /\ open /\ todo = {}
       /\ open' = FALSE /\ verdict' = (failed = {})
       /\ UNCHANGED <<round, todo, failed>>

FJNext == Begin \/ End \/ \E p \in Everyone : Share(p)

FJSpec == FJInit /\ [][FJNext]_fjVars
=============================================================================
