--------------------------- MODULE MCReconfigure ---------------------------
(***************************************************************************)
(* Model checking of Reconfigure.                                          *)
(***************************************************************************)
EXTENDS Reconfigure, TLC

(* Requests are interchangeable. *)
Symmetric == Permutations(Handler)

(* The configuration a new server starts with. *)
MCDefault ==
    [port |-> 1, dir |-> CHOOSE d \in Dir : d \notin Unusable, rate |-> Unlimited,
     debug |-> FALSE, watch |-> CHOOSE d \in Watch : d \notin Missing, trackers |-> {},
     done |-> CHOOSE c \in Cmd : TRUE, allow |-> TRUE]
=============================================================================
