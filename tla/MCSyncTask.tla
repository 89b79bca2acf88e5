------------------------------ MODULE MCSyncTask ------------------------------
(* Values of the constants of SyncTask for TLC. *)
EXTENDS SyncTask

MCDocs == 1..3
MCCollections == {<<1, 1, 1>>, <<1, 1, 2>>, <<0, 1, 2>>}
===============================================================================
