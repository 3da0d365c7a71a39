------------------------------- MODULE Recalc --------------------------------
(***************************************************************************)
(* What the engine promises of a recomputation (model.go: it "evaluates    *)
(* every formula in dependency order"), with no stack and no order of      *)
(* visits: cells settle one at a time, each at most once per pass, and a   *)
(* cell that does not depend on itself settles only when the cells its     *)
(* value rests on have settled, at the meaning of its formula over them.   *)
(* Nothing is said of the value of a cell that depends on itself.          *)
(***************************************************************************)
EXTENDS Formula

CONSTANTS Grid,      \* the in-grid addresses
          Unset      \* the value of a cell that has not settled

VARIABLES sheet, settled

Closed(S) == \A c \in S : Refs(sheet[c]) \cap Grid \subseteq S

DependsOnItself(c) == \A S \in SUBSET Grid :
                        Refs(sheet[c]) \cap Grid \subseteq S /\ Closed(S) => c \in S

Settle(c) ==
  /\ settled[c] = Unset
  /\ settled'[c] # Unset
  /\ DOMAIN settled' = Grid
  /\ \A d \in Grid \ {c} : settled'[d] = settled[d]
  /\ DependsOnItself(c)
       \/ /\ \A d \in Needed(sheet[c], settled) : settled[d] # Unset
          /\ settled'[c] = Denote(sheet[c], settled)
  /\ UNCHANGED sheet

NewPass == settled' = [c \in Grid |-> Unset] /\ UNCHANGED sheet

Init == settled = [c \in Grid |-> Unset]

Next == NewPass \/ \E c \in Grid : Settle(c)

Spec == Init /\ [][Next]_<<sheet, settled>>
=============================================================================
