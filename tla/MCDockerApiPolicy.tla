-------------------------- MODULE MCDockerApiPolicy --------------------------
(* DockerApiPolicy on a small instance: interchangeable connections and    *)
(* container ids.                                                          *)
EXTENDS DockerApiPolicy, TLC

Symmetry == Permutations(Conns) \cup Permutations(Ids)

(* An exchange ends and gives up the lock, also when another connection    *)
(* shuts the policy meanwhile: of one connection, and so of every one, as  *)
(* the specification and its fairness treat them alike.                    *)
AnExchangeEnds == ExchangeEnds(CHOOSE c \in Conns : TRUE)

=============================================================================
