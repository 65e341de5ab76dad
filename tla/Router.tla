------------------------------- MODULE Router -------------------------------
(***************************************************************************)
(* The Router of src/src/router.cc: longest prefix match over a routing    *)
(* table, and forwarding of what its interfaces have received.  Addresses  *)
(* are the numbers of AddressBits bits; interfaces are numbered from 0 in  *)
(* rules, as in the code, and from 1 in `interfaces'.                      *)
(***************************************************************************)
EXTENDS NetworkInterface

CONSTANTS
  AddressBits,      \* 32
  Direct,           \* no next hop: the network is attached to the router
  NoRule

NewRouter(interfaces, rules) ==
  [interfaces |-> interfaces, routing_table |-> rules]

(* Both numbers agree in their prefix_length high-order bits; the shift of *)
(* the code's mask is defined for lengths up to AddressBits.               *)
is_rule_match(rule, dest_ip) ==
  dest_ip \div 2^(AddressBits - rule.prefix_length)
    = rule.route_prefix \div 2^(AddressBits - rule.prefix_length)

(* A definition named Faulty... is a plausible bug that nothing uses: it   *)
(* shows that a property tells it from the code.  Here: the last of the    *)
(* matching rules.                                                         *)
FaultyBetter(rule, best) == TRUE

(* Of two rules with equally long prefixes the first one stays.            *)
Better(rule, best) == best = NoRule \/ rule.prefix_length > best.prefix_length

best_rule(table, dest_ip) ==
  LET best[n \in 0..Len(table)] ==
        IF n = 0 THEN NoRule
        ELSE IF is_rule_match(table[n], dest_ip) /\ Better(table[n], best[n - 1])
             THEN table[n] ELSE best[n - 1]
  IN  best[Len(table)]

(* The hop limit is not looked at.                                         *)
FaultyHop(dgram) == dgram

(* What a hop does to a datagram.  Its checksum stays what it was.         *)
Hop(dgram) == [dgram EXCEPT !.ttl = @ - 1]

NextHop(rule, dgram) == IF rule.next_hop = Direct THEN dgram.dst ELSE rule.next_hop

(* A result is [router |-> the router, sent |-> what its interfaces        *)
(* transmitted, as records [interface, frame]].                            *)
SendOn(result, i, dgram, next_hop) ==
  LET done == send_datagram(result.router.interfaces[i], dgram, next_hop)
  IN  [router |-> [result.router EXCEPT !.interfaces[i] = done.nic],
       sent |-> result.sent \o [k \in DOMAIN done.frames |->
                                  [interface |-> i, frame |-> done.frames[k]]]]

Forward(result, dgram) ==
  LET rule == best_rule(result.router.routing_table, dgram.dst)
  IN  IF \/ dgram.ttl <= 1
         \/ rule = NoRule
         \/ rule.interface_num >= Len(result.router.interfaces)
      THEN result
      ELSE SendOn(result, rule.interface_num + 1, Hop(dgram), NextHop(rule, dgram))

Emptied(router, i) == [router EXCEPT !.interfaces[i].datagrams_received = << >>]

(* Everything one interface has received.  Forwarding adds nothing to what *)
(* interfaces have received, so that the queue is the one at the start.    *)
RouteFrom(result, i) ==
  LET received == result.router.interfaces[i].datagrams_received
      after[n \in 0..Len(received)] ==
        IF n = 0 THEN [result EXCEPT !.router = Emptied(@, i)]
        ELSE Forward(after[n - 1], received[n])
  IN  after[Len(received)]

route(router) ==
  LET after[i \in 0..Len(router.interfaces)] ==
        IF i = 0 THEN [router |-> router, sent |-> << >>] ELSE RouteFrom(after[i - 1], i)
  IN  after[Len(router.interfaces)]
=============================================================================
