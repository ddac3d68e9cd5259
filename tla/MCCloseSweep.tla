---------------------------- MODULE MCCloseSweep ----------------------------
(***************************************************************************)
(* Three projects for CloseSweep: core makes a schema, from which client   *)
(* code is generated that web consumes; web's bundle is consumed by app.   *)
(***************************************************************************)
EXTENDS CloseSweep, TLC

CONSTANTS app, core, web, schema, client, bundle

Chain == [producedBy |-> schema :> core @@ client :> schema @@ bundle :> web,
          consumedBy |-> schema :> {} @@ client :> {web} @@ bundle :> {app},
          inSweep |-> {app, core, web}, outer |-> Nobody]

\* core has the root ".", which holds the others, and app is left to CI.
Nested == [Chain EXCEPT !.outer = core, !.inSweep = {core, web}]

Both == {Chain, Nested}
ChainOnly == {Chain}
ByName == <<app, core, web>>
EitherEnd == {{app}, {core}}
=============================================================================
