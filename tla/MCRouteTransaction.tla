-------------------------- MODULE MCRouteTransaction --------------------------
EXTENDS RouteTransaction

CONSTANTS a, b   \* two different contents of hosts and Caddy

\* Nothing wanted, one name with Caddy, another with Caddy, a name without.
MCDesires == {Nothing, [hosts |-> a, caddy |-> a], [hosts |-> b, caddy |-> b],
              [hosts |-> a, caddy |-> NoCaddy]}

=============================================================================
