---------------------------- MODULE MCAddressOrder ----------------------------
(***************************************************************************)
(* An instance of ModuleViews: three MySQL instances, the second of which   *)
(* has a host name for an address.  Their addresses                         *)
(* are 10.0.0.1:3306, 5-db:3306 and 9.6.6.6:3306: in this order as texts,   *)
(* but 9.6.6.6 is the lower of the two IP addresses.                        *)
(***************************************************************************)
EXTENDS ModuleViews

At(text, ip) ==
    [availability |-> "up", role |-> "writable", channels |-> {}, age |-> 0,
     group |-> 1, text |-> text, ip |-> ip, number |-> 1]

Addresses == {At(1, 2), At(2, None), At(3, 1)}

MCSnapshots == [k \in Kinds |-> {[rows |-> r, clusters |-> <<>>] : r \in [1 .. 3 -> Addresses]}]

MCVariants == [k \in Kinds |-> <<{}, {}, {}>>]

MCOrders == <<{}, {}, {<<1, 2, 3>>, <<3, 2, 1>>}>>

MCQueries ==
    [k \in Kinds |->
        <<{}, {}, {[page |-> 1, size |-> 2, sort |-> "instance", order |-> o, status |-> "", role |-> "",
                    group |-> None, search |-> None] : o \in {"asc", "desc"}}>>]
=============================================================================
