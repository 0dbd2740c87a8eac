----------------------------- MODULE MCCatalog -----------------------------
(* Two small catalogues, each also a package: nested folders, a chain of two *)
(* hosts, a Route that is on; the other one shares an endpoint with it.      *)
EXTENDS Catalog

Host(e) == [endpoint |-> e, secret |-> "s1", revision |-> 1]

Nested ==
    [folders  |-> << 0, 1 >>,
     hosts    |-> << Host("e1"), Host("e2") >>,
     forwards |-> << [folder |-> 2, mode |-> "local", chain |-> << 1, 2 >>] >>,
     routes   |-> << [forward |-> 1, hosts |-> TRUE, caddy |-> TRUE] >>,
     keys     |-> [e \in {"e1"} |-> "k1"]]

Flat ==
    [folders  |-> << 0 >>,
     hosts    |-> << Host("e1") >>,
     forwards |-> << [folder |-> 1, mode |-> "remote", chain |-> << 1 >>] >>,
     routes   |-> << >>,
     keys     |-> [e \in {"e1"} |-> "k2"]]

Samples == {Nested, Flat}

=============================================================================
