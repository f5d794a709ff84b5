---------------------------- MODULE MCTagService ----------------------------
(* Instances of TagService for TLC: threads by role.  A thread in several  *)
(* sets performs several operations.                                       *)
EXTENDS TagInvariants, TLC

CONSTANTS Receivers, Senders, Awakers, Deleters, Viewers

MCOps ==
    [t \in Thread |->
        {op \in {"receive", "send", "awake", "delete", "view"} :
            t \in CASE op = "receive" -> Receivers [] op = "send" -> Senders
                   [] op = "awake" -> Awakers [] op = "delete" -> Deleters
                   [] op = "view" -> Viewers}]

(* Receivers are interchangeable where they perform nothing else and all,  *)
(* or none, of them may get a signal.                                      *)
Symmetry == Permutations(Receivers)
=============================================================================
