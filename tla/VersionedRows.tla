---------------------------- MODULE VersionedRows ----------------------------
(***************************************************************************)
(* What a versioned setting promises: of each key at most one version is   *)
(* current, the first version is 1, and a version is only ever replaced by *)
(* the one that follows it.  A step may replace several keys at once.      *)
(***************************************************************************)
EXTENDS Naturals

CONSTANT Key

VARIABLE current   \* for each key, the row and the version of each current row

Init == current = [k \in Key |-> {}]

Advance(rows) ==
  IF rows = {} THEN {{<<1, 1>>}}
               ELSE {{<<n[1] + 1, n[2] + 1>>} : n \in rows}

Next ==
  /\ DOMAIN current' = Key
  /\ \A k \in Key : current'[k] = current[k] \/ current'[k] \in Advance(current[k])

Spec == Init /\ [][Next]_current
=============================================================================
