------------------------- MODULE MCGuardedCommands --------------------------
(***************************************************************************)
(* One operator shell with five commands; or fewer of them beside a shell  *)
(* that seals capsules and executes, under an anchor that is there or that *)
(* two shells are initialising.                                            *)
(***************************************************************************)
EXTENDS GuardedCommands, FiniteSets

CONSTANTS o1, i1, i2, w1,
          MaxGateCommands   \* bound on the control commands beside a writer

OneOperator == {o1}
TwoInitializers == {i1, i2}
OneWriter == {w1}

VARIABLE part   \* what this behaviour is about

MCInit ==
  /\ Init /\ GuardedInit
  /\ part \in {"operator", "gate", "anchor"}
  /\ IF part = "gate"
     THEN /\ key_file = 1 /\ manifest_file = 1 /\ anchors = MaxAnchors
          /\ initializing = [i \in Initializers |-> NotInitializing]
     ELSE AnchorInit

MCNext ==
  /\ UNCHANGED part
  /\ \/ /\ part = "operator" \/ (part = "gate" /\ started <= MaxGateCommands)
        /\ Next /\ UNCHANGED <<anchorVars, guardedVars>>
        /\ part = "gate" => started' <= MaxGateCommands
     \/ part = "anchor" /\ AnchorNext /\ UNCHANGED <<vars, guardedVars>>
     \/ part \in {"gate", "anchor"} /\ GuardedNext /\ UNCHANGED <<vars, anchorVars>>

MCSpec ==
  /\ MCInit /\ [][MCNext]_<<allVars, part>>
  /\ \A w \in Writers : WF_allVars(Works(w) /\ UNCHANGED <<vars, anchorVars>>)
=============================================================================
