------------------------------ MODULE MCWebCache ------------------------------
(* Instance for TLC: two users, one deal, visits to a few pages at a time.   *)
EXTENDS WebCache

CONSTANTS u1, u2, d1
MCUsers == {u1, u2}
MCDeals == {d1}

To(routes) == {<<route, "">> : route \in routes}

Visit(p, us, n) == [pages |-> p, users |-> us, moves |-> n]

MCVisits == {
    Visit(To({"connect", "wallet"}), {u1}, 3),
    Visit(To({"home"}) \cup {<<"deal", d1>>}, {u1}, 3),
    Visit(To({"connect", "swaps"}), {u1, u2}, 4),
    Visit(To({"quote", "home"}), {u1}, 4),
    Visit(To({"wallet", "tokens"}), {u1}, 2),
    Visit(To({"home", "dashboard"}), {u1}, 2),
    Visit(To({"ops", "network"}), {u1}, 2)}

=============================================================================
