---------------------------- MODULE RecentPeers ----------------------------
(* What the peer cache promises: the peers saved last, one for each address, *)
(* at most Size of them, and which was saved before which; a save reaches    *)
(* the flash at once or not at all, and a restart comes back to what the     *)
(* flash holds.                                                              *)
EXTENDS Naturals, FiniteSets

CONSTANTS Peers,        \* the values that are cached
          Addr(_),      \* the address of one of them
          Size          \* how many the cache holds

VARIABLES recent,       \* the working copy: the peers, and who is newer than whom
          stored        \* the flash

Empty == [peers |-> {}, newer |-> {}]
Init == recent = Empty /\ stored = Empty

Others(p) == {q \in recent.peers : Addr(q) # Addr(p)}
Oldest(p) == {q \in Others(p) : \A r \in Others(p) : r # q => <<r, q>> \in recent.newer}
Kept(p) == IF Cardinality(Others(p)) < Size THEN Others(p) ELSE Others(p) \ Oldest(p)

Save(p) ==
  /\ recent' = [peers |-> Kept(p) \cup {p},
                newer |-> (recent.newer \cap (Kept(p) \X Kept(p))) \cup ({p} \X Kept(p))]
  /\ stored' \in {recent', stored}

Restart == recent' = stored /\ UNCHANGED stored

Next == Restart \/ \E p \in Peers : Save(p)
Spec == Init /\ [][Next]_<<recent, stored>>
=============================================================================
