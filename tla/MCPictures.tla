----------------------------- MODULE MCPictures -----------------------------
(* One kind of event at a time beside the frames and the workers: `axis`   *)
(* says which, so that each is met with the builds of the others' absence. *)
EXTENDS MCImagePipeline
VARIABLE axis
axisVars == <<axis, vars>>

AxisInit == Init /\ axis \in {"flow", "restage", "books"} /\ (axis # "flow" => section = 0)
AxisStep(A) ==
    /\ A /\ UNCHANGED axis
    /\ axis = "flow" => ~Restage /\ reading'
    /\ axis # "flow" => section' = 0 /\ ~Restyle
    /\ axis = "restage" => reading'
    /\ axis = "books" => ~Restage
AxisSpec ==
    /\ AxisInit /\ [][AxisStep(Next)]_axisVars
    /\ \A s \in Sections : WF_axisVars(AxisStep(WorkersOn(s)))
    /\ WF_axisVars(AxisStep(Frame))
=============================================================================
