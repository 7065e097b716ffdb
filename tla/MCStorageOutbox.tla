-------------------------- MODULE MCStorageOutbox --------------------------
(* Small instances of the directory outbox for TLC.                        *)
EXTENDS StorageOutbox, TLC

CONSTANTS w1, w2, c1, c2, shot1, shot2, asset1, ep1, tShot, tShot2, tItem1, tItem2

\* One asset with two items that share its directory.
ItemTasks == {tItem1, tItem2}
ItemTarget == (tItem1 :> asset1) @@ (tItem2 :> asset1)
\* A scene of two shots.
SceneTasks == {tShot, tShot2}
SceneTarget == (tShot :> shot1) @@ (tShot2 :> shot2)
=============================================================================
