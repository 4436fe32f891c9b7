----------------------------- MODULE LayoutSpec -----------------------------
(***************************************************************************)
(* What the host promises about the session layout                          *)
(* (crates/core/src/multiplexer/layout_store.rs): however its clients read,  *)
(* compare and set it, the layout changes by one edit at a time, applied to  *)
(* the layout as it is at that moment, and every change is a new revision.   *)
(***************************************************************************)
EXTENDS Naturals

CONSTANT Panes

VARIABLES listed,    \* the panes the layout lists
          version    \* how often the layout was written

Init == listed = {} /\ version = 0

List(p) ==
    /\ listed' = listed \cup {p}
    /\ version' = version + 1

Unlist(p) ==
    /\ p \in listed
    /\ listed' = listed \ {p}
    /\ version' = version + 1

Next == \E p \in Panes : List(p) \/ Unlist(p)

Spec == Init /\ [][Next]_<<listed, version>>
=============================================================================
