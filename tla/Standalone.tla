----------------------------- MODULE Standalone -----------------------------
(***************************************************************************)
(* The standalone host with the draft editor in the owner's browser and    *)
(* the agent behind it: loading a draft and every autosave pass the host   *)
(* like any other request.                                                 *)
(***************************************************************************)
EXTENDS HostAuth, DraftFiles

vars == <<hostVars, draftVars>>

Init == HostInit /\ DraftInit

Passes == Reachable /\ Admits("owner")

Next ==
  \/ HostNext /\ UNCHANGED draftVars
  \/ DraftNext /\ UNCHANGED hostVars
  \/ \E p \in Paths : Passes /\ OpenEditor(p) /\ UNCHANGED hostVars
  \/ \E s \in Saves : SaveArrives(s, Passes) /\ UNCHANGED hostVars

Spec == Init /\ [][Next]_vars

TypeOK == HostTypeOK /\ DraftTypeOK
=============================================================================
