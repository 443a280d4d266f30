------------------------ MODULE MCSyncedProjections ------------------------
(* One change of a value of two fields, one fault, and two lists that may   *)
(* be answered and come in either order.                                    *)
EXTENDS SyncedProjections
=============================================================================
