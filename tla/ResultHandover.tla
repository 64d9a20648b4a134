--------------------------- MODULE ResultHandover ---------------------------
(***************************************************************************)
(* What the handover of one machine result promises, without files, pages  *)
(* or program counters.  The GPU service computes a result and holds the   *)
(* only copy; the backend may secure a copy of its own; the backend may    *)
(* tell the GPU service to erase its copy, but only once its own copy is   *)
(* secured; the GPU service erases by itself when its deadline passes.     *)
(*                                                                         *)
(* The module publish_results / _cleanup / ack of ResultPublication is     *)
(* shown to implement this specification.                                  *)
(***************************************************************************)

VARIABLES
    remote,   \* the GPU service's copy: "working", "held", "released"
              \* (erased at the backend's request), "lapsed" (erased by the
              \* deadline after it was computed) or "void" (never computed)
    secured   \* TRUE once the backend's copy survives any crash

vars == <<remote, secured>>

TypeOK ==
    /\ remote \in {"working", "held", "released", "lapsed", "void"}
    /\ secured \in BOOLEAN

Init ==
    /\ remote = "working"
    /\ secured = FALSE

(* The GPU service finishes, or gives up.                                  *)
Compute ==
    /\ remote = "working"
    /\ remote' \in {"held", "void"}
    /\ UNCHANGED secured

(* The backend's copy becomes crash-proof.  It may have been read before   *)
(* the deadline erased the original.                                       *)
Secure ==
    /\ remote \in {"held", "lapsed"}
    /\ secured' = TRUE
    /\ UNCHANGED remote

(* The acknowledgement: erase the original, never the only copy.           *)
Release ==
    /\ remote = "held"
    /\ secured
    /\ remote' = "released"
    /\ UNCHANGED secured

(* The deadline of the GPU service, which waits for nobody.                *)
Lapse ==
    /\ remote = "held"
    /\ remote' = "lapsed"
    /\ UNCHANGED secured

Next == Compute \/ Secure \/ Release \/ Lapse

Spec == Init /\ [][Next]_vars
=============================================================================
