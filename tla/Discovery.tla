----------------------------- MODULE Discovery ------------------------------
(***************************************************************************)
(* The search for a server over multicast DNS (src/src/net/mdns.rs): in a  *)
(* window of some seconds the reader asks once a second, remembers what it *)
(* hears, and asks for the addresses of what it heard of.  Then it chooses *)
(* among the servers, or searches again.                                   *)
(*                                                                         *)
(* A record is heard alone: a message has no other effect than its records *)
(* one after the other.  `priority` orders the SRV records of a server; of *)
(* equal ones the first that came wins, any of them here.                  *)
(***************************************************************************)
EXTENDS Naturals

CONSTANTS
  Records,     \* of all servers: see RecordAssumption
  LinkLocal,   \* addresses that are link-local
  Ticks        \* queries in a window, 5 in the code

RecordAssumption ==
  \A r \in Records :
    \/ r.kind = "ptr" /\ DOMAIN r = {"kind", "server"}
    \* asks: nothing in the message denies that the host has an address
    \/ r.kind = "srv" /\ DOMAIN r = {"kind", "server", "host", "priority", "asks"}
         /\ r.priority \in Nat /\ r.asks \in BOOLEAN
    \/ r.kind = "aaaa" /\ DOMAIN r = {"kind", "server", "host", "address"}

ASSUME DiscoveryAssumption == RecordAssumption /\ Ticks \in Nat \ {0}

Servers == {r.server : r \in Records}
Hosts == {r.host : r \in {q \in Records : q.kind = "srv"}}
Ptr == {r \in Records : r.kind = "ptr"}
Srv == {r \in Records : r.kind = "srv"}
Aaaa == {r \in Records : r.kind = "aaaa"}

VARIABLES
  step,        \* "searching", "found" or "panicked"
  ticks,       \* queries sent in this window
  queries,     \* hosts whose address is asked for
  known,       \* records the query lists as known: nobody repeats them
  targets,     \* mdns_targets
  srv, aaaa,   \* mdns_srv and mdns_aaaa: the records themselves
  chosen,      \* the records of the result
  alive,       \* servers that are there
  due,         \* answers to the latest query that are on their way
  heard        \* history: servers that were there at some time in the window

heardOf == <<queries, known, targets, srv, aaaa>>
surroundings == <<alive, due>>
search == <<step, ticks, heardOf, chosen, surroundings, heard>>

SearchTypeOK ==
  /\ step \in {"searching", "found", "panicked"}
  /\ ticks \in 0 .. Ticks
  /\ queries \subseteq Hosts /\ known \subseteq Records
  /\ targets \subseteq Servers /\ srv \subseteq Srv /\ aaaa \subseteq Aaaa
  /\ chosen \subseteq Records
  /\ alive \subseteq Servers /\ due \subseteq Records /\ heard \subseteq Servers

Of(servers) == {r \in Records : r.server \in servers}

\* What is there of the servers answers a query: pointers, with the service
\* records they point to, and the addresses that are asked for; but nothing that
\* the query says is known.
Answers ==
  LET ptr == {r \in Ptr \cap Of(alive) : r \notin known}
  IN  ptr \cup {r \in Srv : r.server \in {p.server : p \in ptr}}
          \cup {r \in Aaaa \cap Of(alive) : r.host \in queries /\ r \notin known}

SearchInit ==
  /\ step = "searching" /\ ticks = 0
  /\ queries = {} /\ known = {} /\ targets = {} /\ srv = {} /\ aaaa = {}
  /\ chosen = {}
  /\ alive = Servers /\ due = {} /\ heard = Servers

-----------------------------------------------------------------------------
\* Mutant: what was heard in the last window is used in the next one.
restart_keeps_records ==
  /\ step' = "searching" /\ ticks' = 0
  /\ queries' = {} /\ known' = {}
  /\ due' = {} /\ heard' = alive
  /\ UNCHANGED <<targets, srv, aaaa, chosen, alive>>

\* Mutant: the query is not made anew.
restart_keeps_query ==
  /\ step' = "searching" /\ ticks' = 0
  /\ targets' = {} /\ srv' = {} /\ aaaa' = {}
  /\ due' = {} /\ heard' = alive
  /\ UNCHANGED <<queries, known, chosen, alive>>

\* The top of 'outer: another socket, another query, nothing is known.
restart ==
  /\ step' = "searching" /\ ticks' = 0
  /\ queries' = {} /\ known' = {} /\ targets' = {} /\ srv' = {} /\ aaaa' = {}
  /\ due' = {} /\ heard' = alive
  /\ UNCHANGED <<chosen, alive>>

\* At the start of a window and at each tick.
Query ==
  /\ step = "searching" /\ ticks < Ticks
  /\ ticks' = ticks + 1
  /\ due' = Answers
  /\ UNCHANGED <<step, heardOf, chosen, alive, heard>>

\* A message, solicited or not.
Receive(r) ==
  /\ step = "searching" /\ ticks > 0
  /\ r \in Of(alive)
  /\ due' = due \ {r}
  /\ known' = known \cup {r}
  /\ targets' = targets \cup {s \in {r.server} : r.kind = "ptr"}
  /\ srv' = srv \cup ({r} \cap Srv)
  /\ aaaa' = aaaa \cup ({r} \cap Aaaa)
  /\ queries' = queries \cup {q.host : q \in {s \in {r} \cap Srv : s.asks}}
  /\ UNCHANGED <<step, ticks, chosen, alive, heard>>

\* recv_from fails.
ReceiveError == step = "searching" /\ ticks > 0 /\ restart

viable_targets == {s \in targets : \E d \in srv : d.server = s}

Preferred(s) ==
  {d \in srv : d.server = s /\ \A e \in srv : e.server = s => d.priority <= e.priority}

addresses(d) == {a \in aaaa : a.host = d.host}

WindowOver == step = "searching" /\ ticks = Ticks

NothingViable == WindowOver /\ viable_targets = {} /\ restart

\* The end of the window, for a server that was drawn: an address of its
\* preferred host, drawn among those that are link-local.  The remainder by
\* their number panics when there are none.
Choose(s) ==
  /\ WindowOver /\ s \in viable_targets
  /\ \E d \in Preferred(s) :
       IF addresses(d) = {} THEN restart
       ELSE /\ IF \E a \in addresses(d) : a.address \in LinkLocal
               THEN /\ step' = "found"
                    /\ \E a \in addresses(d) : a.address \in LinkLocal /\ chosen' = {d, a}
               ELSE step' = "panicked" /\ UNCHANGED chosen
            /\ UNCHANGED <<ticks, heardOf, surroundings, heard>>

-----------------------------------------------------------------------------
\* A server goes away, or comes.
Leave(s) ==
  /\ s \in alive
  /\ alive' = alive \ {s}
  /\ due' = {r \in due : r.server # s}
  /\ UNCHANGED <<step, ticks, heardOf, chosen, heard>>

Join(s) ==
  /\ s \in Servers \ alive
  /\ alive' = alive \cup {s}
  /\ heard' = heard \cup {s}
  /\ UNCHANGED <<step, ticks, heardOf, chosen, due>>

\* The search is over when it has found something: server_connection calls it
\* again when the connection is lost.
SearchAgain == step = "found" /\ restart

LoseRecord(r) ==
  /\ r \in due
  /\ due' = due \ {r}
  /\ UNCHANGED <<step, ticks, heardOf, chosen, alive, heard>>

Reader ==
  \/ Query
  \/ \E r \in Records : Receive(r)
  \/ ReceiveError
  \/ NothingViable
  \/ \E s \in Servers : Choose(s)

SearchNext ==
  \/ Reader
  \/ SearchAgain
  \/ \E s \in Servers : Leave(s) \/ Join(s)
  \/ \E r \in Records : LoseRecord(r)

SearchSpec == SearchInit /\ [][SearchNext]_search

\* A server that can be found whichever of its hosts is preferred.
Usable ==
  {s \in Servers :
     /\ [kind |-> "ptr", server |-> s] \in Records
     /\ \E d \in Srv : d.server = s
     /\ \A d \in Srv : d.server = s => d.asks /\ \E a \in Aaaa : a.host = d.host /\ a.server = s}

\* Within the second to the next query or to the end of the window the servers have
\* answered.
Timely == (ticks' # ticks \/ step' # step) /\ ticks > 0 => due = {}

\* Nothing is lost, nobody comes or goes and no receive fails.
Calm ==
  \/ Query \/ \E r \in Records : Receive(r)
  \/ NothingViable \/ \E s \in Servers : Choose(s)
  \/ SearchAgain

\* From some time on it is calm, servers answer in time and a usable one is there.
\* The draw is random: strong fairness for each server.
FairSearch ==
  /\ SearchSpec
  /\ <>[][Calm /\ Timely]_search /\ <>[](Usable \cap alive # {})
  /\ WF_search(Query /\ Timely)
  /\ \A r \in Records : WF_search(r \in due /\ Receive(r))
  /\ WF_search(NothingViable /\ Timely)
  /\ \A s \in Servers : SF_search(Choose(s) /\ Timely)

-----------------------------------------------------------------------------
\* The result belongs together and is not older than the search: an SRV record and
\* an address of the host it names, both of a server that was there during this
\* window and no other one with a lower priority was heard of (mdns.rs 49-59,
\* 232-257).
ResultConsistent ==
  step = "found" =>
    \E d \in Srv, a \in Aaaa :
      /\ chosen = {d, a}
      /\ a.host = d.host /\ a.address \in LinkLocal
      /\ d.server \in heard /\ a.server \in heard
      /\ ~ \E e \in srv : e.server = d.server /\ e.priority < d.priority

\* A search comes to an end when the servers are there at last, whatever happened
\* before, and although what was heard of is not said again within a window and an
\* address is asked for only after its service was heard of (mdns.rs 28-59, 93,
\* 176-187).  The end is a server, or the panic of Choose.
SearchEnds == step = "searching" ~> step # "searching"
=============================================================================
