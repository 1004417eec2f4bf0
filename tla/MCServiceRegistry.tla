--------------------------- MODULE MCServiceRegistry ---------------------------
(* Instances of ServiceRegistry for model checking. *)
EXTENDS ServiceRegistry

(* Every kind of storage, and two components where only memory matters. *)
SmallSetups == {<<1, "failing">>, <<1, "reliable">>, <<2, "volatile">>}
DefaultSetup == {<<1, "reliable">>}
===============================================================================
