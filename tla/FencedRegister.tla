--------------------------- MODULE FencedRegister ---------------------------
(***************************************************************************)
(* What the job queue promises of each job, without leases, clocks,        *)
(* attempts or runs: a write-once register guarded by generations.  A slot *)
(* is open, held by one generation, or closed.  Opening it again costs a   *)
(* new generation; only the generation that holds it may write the verdict *)
(* and a closed slot never changes.  A transaction may move several slots, *)
(* but it grants or decides at most one.                                   *)
(***************************************************************************)
EXTENDS Naturals

CONSTANT Job

VARIABLE slot

Slot == [phase : {"open", "held", "closed"},
         gen : Nat,         \* the latest generation granted
         winner : Nat]      \* the generation whose verdict stands, 0: none

Fresh == [phase |-> "open", gen |-> 0, winner |-> 0]

Init == slot = [j \in Job |-> Fresh]

\* What one step may do to one slot, from s to t.
Granted(s, t) ==
    /\ s.phase = "open" /\ t.phase = "held"
    /\ t.gen = s.gen + 1 /\ t.winner = s.winner

Released(s, t) ==
    /\ s.phase = "held" /\ t.phase = "open"
    /\ t.gen = s.gen /\ t.winner = s.winner

Decided(s, t) ==
    /\ s.phase = "held" /\ t.phase = "closed"
    /\ t.gen = s.gen /\ t.winner = s.gen

Closed(s, t) ==
    /\ s.phase # "closed" /\ t.phase = "closed"
    /\ t.gen = s.gen /\ t.winner = s.winner

Moved(s, t) == s = t \/ Granted(s, t) \/ Released(s, t) \/ Decided(s, t) \/ Closed(s, t)

Next ==
    /\ slot' \in [Job -> Slot]
    /\ \A j \in Job : Moved(slot[j], slot'[j])
    /\ \A i, j \in Job :
          /\ Granted(slot[i], slot'[i]) /\ Granted(slot[j], slot'[j]) => i = j
          /\ Decided(slot[i], slot'[i]) /\ Decided(slot[j], slot'[j]) => i = j

Spec == Init /\ [][Next]_slot

=============================================================================
