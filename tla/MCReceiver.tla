----------------------------- MODULE MCReceiver -----------------------------
(* Receiver for TLC: two processes, a loop with an event and one without. *)
EXTENDS Receiver

\* The retention loop comes twice in the shutdown.
TheOrder == <<"retention", "key_reaper", "retention">>

On(auto, cloud, found) ==
  [mode : {[auto |-> auto, cloud |-> cloud]}, schema : {[tables |-> f[1], version |-> f[2]] : f \in found}]

\* Revision 1 has no organizations, 2 is old and has all that a boot needs, 3 is the code's;
\* without a version, the database is one of before alembic.
TheDeployments ==
  On(TRUE, FALSE, {<<0, 0>>, <<1, 0>>, <<2, 0>>, <<2, 2>>}) \cup On(TRUE, TRUE, {<<1, 0>>})
    \cup On(FALSE, FALSE, {<<0, 0>>, <<2, 0>>, <<2, 2>>}) \cup On(FALSE, TRUE, {<<0, 0>>, <<1, 0>>})
=============================================================================
