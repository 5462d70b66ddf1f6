------------------------------ MODULE Register ------------------------------
(***************************************************************************)
(* What the key-value store promises for a key: writes take effect in one  *)
(* order for all, a write is acknowledged only after it took effect, a     *)
(* write its client was told is lost never takes effect, and a read        *)
(* returns a write in effect, though it may be an old one.                 *)
(*                                                                         *)
(* A write w has a place w.idx in the order of all writes.                 *)
(***************************************************************************)
EXTENDS Naturals

CONSTANTS Client, Pending

VARIABLES
  writes,   \* the writes in effect
  acked,    \* those a client was told of
  refused,  \* those a client was told are lost
  got       \* what the last read of each client returned: a set of one write or none

rvars == <<writes, acked, refused, got>>

RInit ==
  /\ writes = {} /\ acked = {} /\ refused = {}
  /\ got = [c \in Client |-> {}]

\* Writes take effect after those in effect, each at a place of its own.
TakeEffect ==
  /\ writes \subseteq writes' /\ writes' \cap refused = {}
  /\ \A w \in writes' \ writes : \A u \in writes : u.idx < w.idx
  /\ \A u, w \in writes' : u.idx = w.idx => u = w
  /\ UNCHANGED <<acked, refused, got>>

Acknowledge ==
  /\ \E w \in writes : acked' = acked \cup {w}
  /\ UNCHANGED <<writes, refused, got>>

Refuse ==
  /\ refused \subseteq refused' /\ writes \cap refused' = {}
  /\ UNCHANGED <<writes, acked, got>>

Ask(c) == got' = [got EXCEPT ![c] = Pending] /\ UNCHANGED <<writes, acked, refused>>

Answer(c) ==
  /\ got' = [got EXCEPT ![c] = got'[c]]
  /\ got'[c] = {} \/ \E w \in writes : got'[c] = {w}
  /\ UNCHANGED <<writes, acked, refused>>

RNext == TakeEffect \/ Acknowledge \/ Refuse \/ \E c \in Client : Ask(c) \/ Answer(c)

RSpec == RInit /\ [][RNext]_rvars
=============================================================================
