----------------------------- MODULE ResultStore ----------------------------
(***************************************************************************)
(* What refigure/mcp/state.py promises to the callers of the conversion    *)
(* tools, without saying how: a result can be read under its id by the     *)
(* caller that produced it, and by nobody else, until it expires or the    *)
(* store forgets it.  The store forgets only when something is put, and    *)
(* never what is being put.  A reader cannot tell a result that was never  *)
(* there from one that was forgotten, has expired or is somebody else's.   *)
(***************************************************************************)
EXTENDS Integers, Sequences

CONSTANTS Callers, Sizes, Ttl, MaxInserts, MaxClock

VARIABLES
  live,     \* the ids whose result the store still has
  issued,   \* for each id handed out, what was put under it
  now,
  reply     \* what the last read answered

vars == <<live, issued, now, reply>>

None == [found |-> FALSE]

Init ==
  /\ live = {}
  /\ issued = <<>>
  /\ now = 0
  /\ reply = None

Put(c, size) ==
  /\ Len(issued) < MaxInserts
  /\ \E kept \in SUBSET live : live' = kept \cup {Len(issued) + 1}
  /\ issued' = Append(issued, [caller |-> c, size |-> size, at |-> now])
  /\ reply' = None
  /\ UNCHANGED now

Read(c, id) ==
  /\ reply' = IF /\ id \in live
                 /\ issued[id].caller = c
                 /\ now - issued[id].at <= Ttl
              THEN [found |-> TRUE, caller |-> c, id |-> id]
              ELSE None
  /\ UNCHANGED <<live, issued, now>>

Tick ==
  /\ now < MaxClock
  /\ now' = now + 1
  /\ reply' = None
  /\ UNCHANGED <<live, issued>>

Next ==
  \/ \E c \in Callers, size \in Sizes : Put(c, size)
  \/ \E c \in Callers, id \in 1..MaxInserts : Read(c, id)
  \/ Tick

Spec == Init /\ [][Next]_vars
=============================================================================
