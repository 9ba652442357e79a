----------------------------- MODULE MCBindings ------------------------------
(* Bindings with the records of a hub that binds two clusters of one device *)
(* and a cluster of another, and with those of two groups.                  *)
EXTENDS Bindings

Record(cluster, kind, addr, endp) ==
    [cluster |-> cluster, target |-> [kind |-> kind, addr |-> addr, endp |-> endp]]

Devices == { Record(1, "ieee", 11, 1), Record(2, "ieee", 11, 1), Record(1, "ieee", 22, 1) }

Groups == { Record(1, "group", 1, 0), Record(1, "group", 2, 0), Record(1, "ieee", 11, 1) }
==============================================================================
