---------------------------- MODULE MCDiscovery -----------------------------
EXTENDS Discovery

ptr(s) == [kind |-> "ptr", server |-> s]
service(s, h, p, asks) ==
  [kind |-> "srv", server |-> s, host |-> h, priority |-> p, asks |-> asks]
address(s, h, a) == [kind |-> "aaaa", server |-> s, host |-> h, address |-> a]

\* One server with two hosts, and one that has no link-local address.
MCRecords ==
  { ptr("s1"), service("s1", "h1", 1, TRUE), service("s1", "h2", 2, TRUE),
    address("s1", "h1", "local"), address("s1", "h2", "local"),
    ptr("s2"), service("s2", "h3", 1, TRUE), address("s2", "h3", "global") }
=============================================================================
