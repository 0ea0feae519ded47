---------------------------- MODULE MCBridgeLink ----------------------------
(* Two host runs, in one Houdini process or in two, of which the second may be *)
(* an older server without the sandbox, and one call; or one host run and two  *)
(* calls, so that one call freezes writes while the other is under way         *)
EXTENDS BridgeLink, TLC
CONSTANTS b1, b2, c1, c2, p1, p2
Full == {"workspace.v1", "changeset.v1", "scratch.v1", "scratch.v2"}
Restart(op, second, old) ==
    [runs |-> {b1, b2}, ask |-> c1 :> op @@ c2 :> None, proc |-> b1 :> p1 @@ b2 :> second,
     caps |-> b1 :> Full @@ b2 :> IF old THEN Full \ {"scratch.v1", "scratch.v2"} ELSE Full]
Together(first, second) ==
    [runs |-> {b1}, ask |-> c1 :> first @@ c2 :> second, proc |-> b1 :> p1 @@ b2 :> p1,
     caps |-> b1 :> Full @@ b2 :> Full]
MCSetups ==
    {Restart("query", p1, FALSE), Restart("exec", p1, TRUE), Restart("destroy", p2, FALSE),
     Together("apply", "exec")}
FreezeSetups == {Together("apply", "exec")}
RestartSetups == {Restart("exec", p1, FALSE)}
=============================================================================
