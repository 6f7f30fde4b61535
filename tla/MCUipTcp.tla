------------------------------ MODULE MCUipTcp ------------------------------
(* Two slots, and loads of one session that sends and gets data, and of    *)
(* two and three that open and close and have to share and reuse the slots *)
(* and, with one server, the ports: under the last load uip_connect comes  *)
(* around to ports in use and to ports of sessions that are over.          *)
EXTENDS UipTcp

CONSTANTS c1, c2, v1, v2, nobody

MCAddr == [s \in Session |-> CASE s = c1 -> 1 [] s = c2 -> 2 [] OTHER -> 3]
Bound(sessions, slots, bytes, ends) ==
    [sessions |-> sessions, slots |-> slots, bytes |-> bytes, ends |-> ends, stops |-> "reset" \in ends]
Ends == {"close", "abort", "fin"}
MCLoad == {Bound({c1}, 1, 2, Ends \cup {"reset"}), Bound({c1, v1}, 1, 0, Ends),
           Bound({v1}, 1, 1, Ends \cup {"reset"}), Bound({c1, c2}, 2, 0, Ends),
           Bound({v1, v2}, 2, 0, Ends), Bound({c1, v1, v2}, 2, 0, {"abort"})}
=============================================================================
