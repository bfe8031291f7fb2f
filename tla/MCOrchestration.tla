----------------------------- MODULE MCOrchestration -----------------------------
(***************************************************************************)
(* The components that decide what work is done, by which model, what      *)
(* becomes of it and what is recorded, on small instances.                 *)
(***************************************************************************)
EXTENDS Orchestration, TLC

CONSTANTS opus, sonnet, gpt, anthropic, openai,
          fix, feature, sweep, docs, gone, moved, topic, release,
          build, audit, report

(* The second binding is of the provider of the preferred one.             *)
ThreeBindings == <<opus, sonnet, gpt>>
Hosts         == (opus :> anthropic) @@ (sonnet :> anthropic) @@ (gpt :> openai)

EveryGraph == SUBSET (Nodes \X Nodes)

(* feature names the new place of what it moves, in a directory that it     *)
(* names, too; sweep names a directory, so that adding it stages more than *)
(* it declares.  The last two create the same branch.                      *)
Declares == (fix :> {docs}) @@ (feature :> {moved})       @@ (sweep :> {docs})
Stages   == (fix :> {docs}) @@ (feature :> {gone, moved}) @@ (sweep :> {docs, moved})
Moves == {<<gone, moved>>}
Creates  == (fix :> topic)  @@ (feature :> release) @@ (sweep :> release)

(* The last three meet in every order: a state, a newer event that tells   *)
(* none, and a state in between; the report is named by two runs.          *)
Event(run, time, type, names) ==
    [run |-> run, timestamp |-> time, type |-> type, artifacts |-> names]

Started   == Event(build, 1, "run.started", {})
Called    == Event(build, 3, "model.call.completed", {report})
Completed == Event(build, 2, "run.completed", {})
Dropped   == Event(audit, 2, "artifact.invalidated", {report})

FourEvents   == {Started, Called, Completed, Dropped}
SmallBatches == {<<e>> : e \in FourEvents} \cup {<<Started, Completed>>}
==================================================================================
