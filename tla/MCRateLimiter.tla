---------------------------- MODULE MCRateLimiter ----------------------------
(* RateLimiter with one key and a limit of one request a minute. *)
EXTENDS RateLimiter

OneCaller == { [key |-> "k1", user |-> "", team |-> "", org |-> "o"] }

OneLimit == [c \in { <<"key", "k1", "minute">> } |-> 1]
=============================================================================
