------------------------- MODULE MCMainThreadQueue -------------------------
(* Three requests on a queue of capacity two.  With OwnIds every request   *)
(* has an id of its own, the way the bridge client names them; SharedIds   *)
(* lets two of them carry one id, which submit() must keep apart.          *)
EXTENDS MainThreadQueue

CONSTANTS e1, e2, e3

OwnIds == [e \in Entry |-> e]
SharedIds == [e \in Entry |-> IF e = e3 THEN "own" ELSE "shared"]

(* Sound: SharedIds commutes with the exchange of the two requests that    *)
(* share an id.                                                            *)
SameId == Permutations({e1, e2})
=============================================================================
