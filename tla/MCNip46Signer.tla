---------------------------- MODULE MCNip46Signer ----------------------------
(* Small clusters of signers for TLC. Worker n of instance i is 10 * i + n.  *)
EXTENDS Nip46Signer, TLC

WorkerHome == [w \in Worker |-> w \div 10]

\* Clients, requests and calls are interchangeable.
Interchangeable == Permutations(Client) \cup Permutations(Req) \cup Permutations(Call)

=============================================================================
