-------------------------- MODULE BridgeOperations --------------------------
(***************************************************************************)
(* The twelve typed operations of the bridge protocol, as data: what the   *)
(* server's handler asks before and on the main thread                     *)
(* (houdini_side/secure_bridge.py, changeset_executor.py), and what the    *)
(* client's method and its provider ask and report                         *)
(* (houdini_bridge/client.py, changeset_provider.py).  The steps a request *)
(* goes through are the same for all of them: module BridgeLink.           *)
(***************************************************************************)

\* A handler: the capability it needs, whether it refuses while writes are
\* frozen, whether the operation asks that again on the main thread, which parts
\* of the request's binding the operation compares, and whether it writes
Handler(needs, gated, again, checks, writes) ==
    [needs |-> needs, gated |-> gated, again |-> again, checks |-> checks, writes |-> writes]

ServeInspect   == Handler("workspace.v1",   FALSE, FALSE, {},                    FALSE)
ServeQuery     == Handler("none",           FALSE, FALSE, {"epoch"},             FALSE)
ServePreflight == Handler("changeset.v1",   FALSE, FALSE, {"epoch", "instance"}, FALSE)
ServeApply     == Handler("changeset.v1",   TRUE,  TRUE,  {"epoch", "instance"}, TRUE)
ServeReceipt   == Handler("changeset.v1",   FALSE, FALSE, {"epoch"},             FALSE)
ServeSample    == Handler("sensitivity.v1", TRUE,  TRUE,  {"epoch"},             TRUE)
ServeCapture   == Handler("capture.v1",     FALSE, FALSE, {"epoch"},             TRUE)
ServeExec      == Handler("scratch.v1",     TRUE,  FALSE, {"epoch"},             TRUE)
ServeCommit    == Handler("scratch.v1",     TRUE,  FALSE, {"epoch"},             TRUE)
ServeDestroy   == Handler("scratch.v1",     FALSE, FALSE, {},                    TRUE)
ServeDelete    == Handler("scratch.v2",     TRUE,  FALSE, {"epoch"},             TRUE)
ServeTopology  == Handler("scratch.v2",     FALSE, FALSE, {"epoch"},             FALSE)

\* _serve: the explicit dispatch on the operation name
Serve ==
    [inspect |-> ServeInspect, query |-> ServeQuery, preflight |-> ServePreflight,
     apply |-> ServeApply, receipt |-> ServeReceipt, sample |-> ServeSample,
     capture |-> ServeCapture, exec |-> ServeExec, commit |-> ServeCommit,
     destroy |-> ServeDestroy, delete |-> ServeDelete, topology |-> ServeTopology]

Operations == DOMAIN Serve

\* A client method: the capability without which no frame is sent, and how its
\* provider calls it: on the connection that read the binding or on another one,
\* and whether a failure is reported with scene_may_have_changed
Method(needs, reuses, may) == [needs |-> needs, reuses |-> reuses, may |-> may]

ClientInspect   == Method("workspace.v1",   FALSE, FALSE)
ClientQuery     == Method("none",           TRUE,  FALSE)
ClientPreflight == Method("changeset.v1",   FALSE, FALSE)
ClientApply     == Method("changeset.v1",   FALSE, TRUE)
ClientReceipt   == Method("changeset.v1",   FALSE, FALSE)
ClientSample    == Method("sensitivity.v1", FALSE, TRUE)
ClientCapture   == Method("capture.v1",     FALSE, TRUE)
ClientExec      == Method("scratch.v1",     FALSE, TRUE)
ClientCommit    == Method("scratch.v1",     FALSE, TRUE)
ClientDestroy   == Method("scratch.v1",     FALSE, TRUE)
ClientDelete    == Method("scratch.v2",     FALSE, TRUE)
ClientTopology  == Method("scratch.v2",     FALSE, FALSE)

Client ==
    [inspect |-> ClientInspect, query |-> ClientQuery, preflight |-> ClientPreflight,
     apply |-> ClientApply, receipt |-> ClientReceipt, sample |-> ClientSample,
     capture |-> ClientCapture, exec |-> ClientExec, commit |-> ClientCommit,
     destroy |-> ClientDestroy, delete |-> ClientDelete, topology |-> ClientTopology]
=============================================================================
